--------------------------- MODULE Adapters_proofs ---------------------------
(***************************************************************************)
(* Theorems about the broker adapters, for any orders, callers, prices and *)
(* restarts: a claim on an order is held by one caller at most, who gives  *)
(* it back or replaces it, and an order has one id; what the adapters say  *)
(* of rejections, of fills, of the position and of dry-run prices is true. *)
(***************************************************************************)
EXTENDS Adapters, SumTheorems, TLAPS

\* Inside Robinhood's submit_order, past the claim.
Claiming == {"dry", "review", "place", "calling", "answered"}
Sending == {"send", "lookup"}
Outcome == {"got", "rejected", "unavailable", "absent", "refused"}
Place == [stage : {"idle", "price"} \cup Claiming \cup Sending \cup Outcome,
          of : Order \cup DryId \cup {Unset}]

HasClaim(c, o) == at[c].of = o /\ at[c].stage \in Claiming

\* Which adapter the caller is in, and that it is there for an order.
InAdapter(p) ==
  /\ p.stage \in Claiming \cup Sending => p.of \in Order
  /\ p.stage \in Sending => kind = "alpaca"
  /\ p.stage = "dry" => kind = "dry"
  /\ p.stage \in Claiming \ {"dry"} => kind = "live"

Types ==
  /\ kind \in {"alpaca", "live", "dry"}
  /\ at \in [Caller -> Place]
  /\ submitted \in [Order -> Order \cup DryId \cup {Unset, Inflight}]
  /\ given \in [Order -> SUBSET (Order \cup DryId)]
  /\ \A c \in Caller : InAdapter(at[c])

\* The mark in _submitted is there for exactly one caller.
Claims ==
  \A o \in Order :
    /\ submitted[o] = Inflight <=> \E c \in Caller : HasClaim(c, o)
    /\ \A c, d \in Caller : HasClaim(c, o) /\ HasClaim(d, o) => c = d

\* The ids given for an order are the one in the table, in a dry run; else the
\* server's one id of the order.
IdsOf(o) ==
  IF kind = "dry"
  THEN \/ submitted[o] \in DryId /\ given[o] \subseteq {submitted[o]}
       \/ submitted[o] \in {Unset, Inflight} /\ given[o] = {}
  ELSE submitted[o] \in {o, Unset, Inflight} /\ given[o] \subseteq {o}
Ids == \A o \in Order : IdsOf(o)

Inv == Types /\ Claims /\ Ids

-----------------------------------------------------------------------------
(* Kinds of steps *)

\* A caller who has no claim goes where it needs none: the tables stay.
LEMMA StepWithoutClaim ==
  ASSUME Types, Claims, NEW c \in Caller, NEW p \in Place, InAdapter(p),
         at' = [at EXCEPT ![c] = p],
         at[c].stage \notin Claiming, p.stage \notin Claiming,
         UNCHANGED <<kind, submitted>>,
         given' \in [Order -> SUBSET (Order \cup DryId)]
  PROVE  Types' /\ Claims'
<1>1. Types'
  BY DEF Types, InAdapter
<1>2. \A d \in Caller, o \in Order : HasClaim(d, o)' <=> HasClaim(d, o)
  BY DEF Types, HasClaim
<1> QED
  BY <1>1, <1>2 DEF Claims

\* A caller who has a claim goes on with it.
LEMMA StepWithClaim ==
  ASSUME Types, Claims, NEW c \in Caller, NEW p \in Place, InAdapter(p),
         at' = [at EXCEPT ![c] = p],
         at[c].stage \in Claiming, p.stage \in Claiming, p.of = at[c].of,
         UNCHANGED <<kind, submitted, given>>
  PROVE  Types' /\ Claims'
<1>1. Types'
  BY DEF Types, InAdapter
<1>2. \A d \in Caller, o \in Order : HasClaim(d, o)' <=> HasClaim(d, o)
  BY DEF Types, HasClaim
<1> QED
  BY <1>1, <1>2 DEF Claims

\* A caller takes a claim nobody has.
LEMMA StepTakesClaim ==
  ASSUME Types, Claims, NEW c \in Caller, NEW o \in Order, NEW p \in Place,
         InAdapter(p), at' = [at EXCEPT ![c] = p],
         at[c].stage \notin Claiming, p.stage \in Claiming, p.of = o,
         submitted[o] # Inflight, submitted' = [submitted EXCEPT ![o] = Inflight],
         UNCHANGED <<kind, given>>
  PROVE  Types' /\ Claims'
<1>1. Types'
  BY DEF Types, InAdapter
<1>2. \A d \in Caller, x \in Order :
        HasClaim(d, x)' <=> IF d = c THEN x = o ELSE HasClaim(d, x)
  BY DEF Types, HasClaim
<1>3. ~HasClaim(c, o) /\ \A d \in Caller : ~HasClaim(d, o)
  BY DEF Claims
<1>4. \A x \in Order : x # o => ~HasClaim(c, x)
  BY DEF HasClaim
<1>5. ASSUME NEW x \in Order
      PROVE  /\ submitted'[x] = Inflight <=> \E d \in Caller : HasClaim(d, x)'
             /\ \A d, e \in Caller : HasClaim(d, x)' /\ HasClaim(e, x)' => d = e
  <2>1. CASE x = o
    BY <2>1, <1>2, <1>3 DEF Types
  <2>2. CASE x # o
    <3>1. submitted'[x] = submitted[x]
      BY <2>2 DEF Types
    <3>2. \A d \in Caller : HasClaim(d, x)' <=> HasClaim(d, x)
      BY <2>2, <1>2, <1>4
    <3> QED
      BY <3>1, <3>2 DEF Claims
  <2> QED
    BY <2>1, <2>2
<1> QED
  BY <1>1, <1>5 DEF Claims

\* A caller with a claim ends it: the mark is given back or replaced.
LEMMA StepEndsClaim ==
  ASSUME Types, Claims, NEW c \in Caller, NEW p \in Place, InAdapter(p),
         at' = [at EXCEPT ![c] = p],
         at[c].stage \in Claiming, p.stage \notin Claiming,
         NEW id \in Order \cup DryId \cup {Unset}, id # Inflight,
         submitted' = [submitted EXCEPT ![at[c].of] = id],
         UNCHANGED kind,
         given' \in [Order -> SUBSET (Order \cup DryId)]
  PROVE  Types' /\ Claims'
<1>0. at[c].of \in Order
  BY DEF Types, InAdapter
<1> DEFINE o == at[c].of
<1>1. Types'
  BY <1>0 DEF Types, InAdapter
<1>2. \A d \in Caller, x \in Order :
        HasClaim(d, x)' <=> d # c /\ HasClaim(d, x)
  BY DEF Types, HasClaim
<1>3. HasClaim(c, o) /\ \A d \in Caller : HasClaim(d, o) => d = c
  BY <1>0 DEF Claims, HasClaim
<1>4. \A x \in Order : x # o => ~HasClaim(c, x)
  BY DEF HasClaim
<1>5. ASSUME NEW x \in Order
      PROVE  /\ submitted'[x] = Inflight <=> \E d \in Caller : HasClaim(d, x)'
             /\ \A d, e \in Caller : HasClaim(d, x)' /\ HasClaim(e, x)' => d = e
  <2>1. CASE x = o
    <3>1. submitted'[x] # Inflight
      BY <2>1, <1>0 DEF Types
    <3> QED
      BY <2>1, <3>1, <1>2, <1>3
  <2>2. CASE x # o
    <3>1. submitted'[x] = submitted[x]
      BY <2>2 DEF Types
    <3>2. \A d \in Caller : HasClaim(d, x)' <=> HasClaim(d, x)
      BY <2>2, <1>2, <1>4
    <3> QED
      BY <3>1, <3>2 DEF Claims
  <2> QED
    BY <2>1, <2>2
<1> QED
  BY <1>1, <1>5 DEF Claims

\* Where a caller goes on for the same order, or begins.
LEMMA GoesOn ==
  ASSUME Types, NEW c \in Caller,
         NEW s \in {"idle", "price"} \cup Claiming \cup Sending \cup Outcome,
         Goes(c, s)
  PROVE  /\ at' = [at EXCEPT ![c] = [stage |-> s, of |-> at[c].of]]
         /\ [stage |-> s, of |-> at[c].of] \in Place
<1>1. at[c] \in Place /\ at[c].of \in Order \cup DryId \cup {Unset}
  BY DEF Types, Place
<1>2. [at[c] EXCEPT !.stage = s] = [stage |-> s, of |-> at[c].of]
  BY <1>1 DEF Place
<1>3. at' = [at EXCEPT ![c] = [at[c] EXCEPT !.stage = s]]
  BY DEF Goes
<1> QED
  BY <1>1, <1>2, <1>3 DEF Place

\* The ids stay what they are when neither table nor history changes.
LEMMA SameIds ==
  ASSUME Ids, UNCHANGED <<kind, submitted, given>>
  PROVE  Ids'
BY DEF Ids, IdsOf

-----------------------------------------------------------------------------
(* The operations *)

\* A call that begins and is no submission through Robinhood's.
LEMMA BeginsElsewhere ==
  ASSUME Inv, NEW c \in Caller, NEW x \in Order \cup DryId,
         NEW s \in {"price", "send"} \cup Outcome,
         s = "send" => kind = "alpaca" /\ x \in Order,
         Begins(c, s, x), UNCHANGED <<kind, submitted, given>>
  PROVE  Inv'
<1> DEFINE p == [stage |-> s, of |-> x]
<1>1. p \in Place /\ InAdapter(p) /\ p.stage \notin Claiming
  BY DEF Place, InAdapter, Claiming, Sending, Outcome
<1>2. at' = [at EXCEPT ![c] = p] /\ at[c].stage \notin Claiming
  BY DEF Begins, Idle, Claiming
<1>3. Types' /\ Claims'
  BY <1>1, <1>2, StepWithoutClaim DEF Inv, Types
<1> QED
  BY <1>3, SameIds DEF Inv

\* A call that ends, or goes on, outside Robinhood's submission.
LEMMA GoesElsewhere ==
  ASSUME Inv, NEW c \in Caller, at[c].stage \notin Claiming,
         NEW s \in {"lookup"} \cup Outcome,
         s = "lookup" => at[c].stage = "send",
         Goes(c, s), UNCHANGED <<kind, submitted, given>>
  PROVE  Inv'
<1> DEFINE p == [stage |-> s, of |-> at[c].of]
<1>1. at' = [at EXCEPT ![c] = p] /\ p \in Place
  BY GoesOn DEF Inv, Sending
<1>2. InAdapter(p) /\ p.stage \notin Claiming
  BY DEF InAdapter, Claiming, Sending, Outcome, Inv, Types
<1>3. Types' /\ Claims'
  BY <1>1, <1>2, StepWithoutClaim DEF Inv, Types
<1> QED
  BY <1>3, SameIds DEF Inv

\* An order's id at Alpaca is the one the server keeps for it.
LEMMA AlpacaGets ==
  ASSUME Inv, NEW c \in Caller, at[c].stage \in Sending, Gets(c, at[c].of),
         UNCHANGED <<kind, submitted>>
  PROVE  Inv'
<1> DEFINE o == at[c].of
           p == [stage |-> "got", of |-> o]
<1>0. o \in Order /\ kind = "alpaca" /\ at[c].stage \notin Claiming
  BY DEF Inv, Types, InAdapter, Sending, Claiming
<1>1. at' = [at EXCEPT ![c] = p] /\ p \in Place
  BY GoesOn DEF Inv, Outcome, Gets
<1>2. InAdapter(p) /\ p.stage \notin Claiming
  BY DEF InAdapter, Claiming, Sending
<1>3. given' = [given EXCEPT ![o] = @ \cup {o}]
  BY DEF Gets
<1>4. given' \in [Order -> SUBSET (Order \cup DryId)]
  BY <1>0, <1>3 DEF Inv, Types
<1>5. Types' /\ Claims'
  BY <1>0, <1>1, <1>2, <1>4, StepWithoutClaim DEF Inv
<1>6. Ids'
  BY <1>0, <1>3 DEF Inv, Types, Ids, IdsOf
<1> QED
  BY <1>5, <1>6 DEF Inv

\* Alpaca's submission, from the request to its outcome.
LEMMA AlpacaKeeps ==
  ASSUME Inv, NEW c \in Caller, AlpacaSend(c) \/ AlpacaLookup(c)
  PROVE  Inv'
<1>1. at[c].stage \in Sending /\ UNCHANGED <<kind, submitted>>
  BY DEF AlpacaSend, AlpacaLookup, Sending, tables
<1>2. at[c].stage \notin Claiming
  BY <1>1 DEF Sending, Claiming
<1>3. \/ Gets(c, at[c].of)
      \/ \E s \in {"lookup", "rejected", "unavailable"} :
           /\ Goes(c, s) /\ UNCHANGED given
           /\ s = "lookup" => at[c].stage = "send"
  BY DEF AlpacaSend, AlpacaLookup, history
<1> QED
  BY <1>1, <1>2, <1>3, AlpacaGets, GoesElsewhere DEF Outcome

\* The claim is taken under the lock, or its holder's id is given.
LEMMA ClaimKeeps ==
  ASSUME Inv, NEW c \in Caller, NEW o \in Order, Claim(c, o)
  PROVE  Inv'
<1>1. CASE submitted[o] = Inflight
  <2>1. Begins(c, "unavailable", o) /\ UNCHANGED <<kind, submitted, given>>
    BY <1>1 DEF Claim, Unset, Inflight
  <2>2. "unavailable" \in {"price", "send"} \cup Outcome
    BY DEF Outcome
  <2> QED
    BY <2>1, <2>2, BeginsElsewhere
<1>2. CASE submitted[o] = Unset
  <2> DEFINE p == [stage |-> IF kind = "dry" THEN "dry" ELSE "review", of |-> o]
  <2>1. /\ at' = [at EXCEPT ![c] = p] /\ at[c].stage \notin Claiming
        /\ submitted' = [submitted EXCEPT ![o] = Inflight]
        /\ submitted[o] # Inflight /\ kind \in {"live", "dry"}
        /\ UNCHANGED <<kind, given>>
    BY <1>2 DEF Claim, Begins, Idle, Claiming, Unset, Inflight
  <2>2. p \in Place /\ InAdapter(p) /\ p.stage \in Claiming /\ p.of = o
    BY <2>1 DEF Place, InAdapter, Claiming, Sending
  <2>3. Types' /\ Claims'
    BY <2>1, <2>2, StepTakesClaim DEF Inv
  <2>4. submitted[o] \notin DryId
    BY <1>2, NameAssumption
  <2>5. Ids'
    BY <2>1, <2>4 DEF Inv, Types, Ids, IdsOf
  <2> QED
    BY <2>3, <2>5 DEF Inv
<1>3. CASE submitted[o] \notin {Unset, Inflight}
  <2> DEFINE p == [stage |-> "got", of |-> o]
  <2>1. /\ at' = [at EXCEPT ![c] = p] /\ at[c].stage \notin Claiming
        /\ given' = [given EXCEPT ![o] = @ \cup {submitted[o]}]
        /\ UNCHANGED <<kind, submitted>>
    BY <1>3 DEF Claim, Begins, Idle, Claiming
  <2>2. p \in Place /\ InAdapter(p) /\ p.stage \notin Claiming
    BY DEF Place, InAdapter, Claiming, Sending, Outcome
  <2>3. submitted[o] \in Order \cup DryId
    BY <1>3 DEF Inv, Types
  <2>4. given' \in [Order -> SUBSET (Order \cup DryId)]
    BY <2>1, <2>3 DEF Inv, Types
  <2>5. Types' /\ Claims'
    BY <2>1, <2>2, <2>4, StepWithoutClaim DEF Inv
  <2>6. Ids'
    BY <1>3, <2>1 DEF Inv, Types, Ids, IdsOf
  <2> QED
    BY <2>5, <2>6 DEF Inv
<1> QED
  BY <1>1, <1>2, <1>3

\* A dry run replaces the claim by a fresh id.
LEMMA DryPlaceKeeps ==
  ASSUME Inv, NEW c \in Caller, DryPlace(c)
  PROVE  Inv'
<1> DEFINE o == at[c].of
           p == [stage |-> "got", of |-> o]
<1>1. PICK i \in DryId :
        /\ submitted' = [submitted EXCEPT ![o] = i]
        /\ Gets(c, i) /\ UNCHANGED kind
  <2> DEFINE i == CHOOSE i \in DryId : dryOrder[i] = Unset
  <2>1. i \in DryId
    BY DEF DryPlace
  <2> QED
    BY <2>1 DEF DryPlace
<1>2. /\ at[c].stage = "dry" /\ at[c].stage \in Claiming /\ kind = "dry"
      /\ o \in Order
  BY DEF DryPlace, Inv, Types, InAdapter, Claiming
<1>3. at' = [at EXCEPT ![c] = p] /\ p \in Place
  BY <1>1, GoesOn DEF Inv, Outcome, Gets
<1>4. InAdapter(p) /\ p.stage \notin Claiming
  BY DEF InAdapter, Claiming, Sending
<1>5. given' = [given EXCEPT ![o] = @ \cup {i}]
  BY <1>1 DEF Gets
<1>6. given' \in [Order -> SUBSET (Order \cup DryId)]
  BY <1>2, <1>5 DEF Inv, Types
<1>7. i # Inflight
  BY NameAssumption
<1>8. Types' /\ Claims'
  BY <1>1, <1>2, <1>3, <1>4, <1>6, <1>7, StepEndsClaim DEF Inv
<1>9. given[o] = {}
  <2>1. HasClaim(c, o)
    BY <1>2 DEF HasClaim
  <2>2. submitted[o] = Inflight /\ submitted[o] \notin DryId
    BY <1>2, <2>1, NameAssumption DEF Inv, Claims
  <2> QED
    BY <1>2, <2>2 DEF Inv, Ids, IdsOf
<1>10. Ids'
  BY <1>1, <1>2, <1>5, <1>9 DEF Inv, Types, Ids, IdsOf
<1> QED
  BY <1>8, <1>10 DEF Inv

\* On its way to the server the caller keeps its claim.
LEMMA PlacingKeeps ==
  ASSUME Inv, NEW c \in Caller, Review(c) \/ CallPlace(c) \/ ServerPlaces(c)
  PROVE  Inv'
<1>1. PICK s \in {"place", "calling", "answered"} : Goes(c, s)
  BY DEF Review, CallPlace, ServerPlaces
<1>2. /\ at[c].stage \in Claiming \ {"dry"}
      /\ UNCHANGED <<kind, submitted, given>>
  BY DEF Review, CallPlace, ServerPlaces, Claiming, tables, history
<1> DEFINE p == [stage |-> s, of |-> at[c].of]
<1>3. at' = [at EXCEPT ![c] = p] /\ p \in Place
  BY <1>1, GoesOn DEF Inv, Claiming
<1>4. InAdapter(p) /\ p.stage \in Claiming
  BY <1>2 DEF Inv, Types, InAdapter, Claiming, Sending
<1>5. Types' /\ Claims'
  BY <1>2, <1>3, <1>4, StepWithClaim DEF Inv
<1> QED
  BY <1>2, <1>5, SameIds DEF Inv

\* However the call ends, the claim is given back or replaced by the id.
LEMMA PlaceEndsKeeps ==
  ASSUME Inv, NEW c \in Caller, PlaceEnds(c)
  PROVE  Inv'
<1> DEFINE o == at[c].of
<1>1. /\ at[c].stage \in Claiming /\ kind = "live" /\ o \in Order
      /\ UNCHANGED kind
  BY DEF PlaceEnds, Inv, Types, InAdapter, Claiming
<1>2. \/ /\ \E s \in {"rejected", "unavailable"} : Goes(c, s)
         /\ submitted' = [submitted EXCEPT ![o] = Unset] /\ UNCHANGED given
      \/ submitted' = [submitted EXCEPT ![o] = o] /\ Gets(c, o)
  BY DEF PlaceEnds, Release
<1>3. PICK s \in Outcome, id \in {o, Unset} :
        /\ Goes(c, s) /\ submitted' = [submitted EXCEPT ![o] = id]
        /\ given' = given \/ given' = [given EXCEPT ![o] = @ \cup {o}]
  BY <1>2 DEF Gets, Outcome
<1> DEFINE p == [stage |-> s, of |-> o]
<1>4. at' = [at EXCEPT ![c] = p] /\ p \in Place
  BY <1>3, GoesOn DEF Inv
<1>5. InAdapter(p) /\ p.stage \notin Claiming
  BY DEF InAdapter, Claiming, Sending, Outcome
<1>6. given' \in [Order -> SUBSET (Order \cup DryId)]
  BY <1>1, <1>3 DEF Inv, Types
<1>7. id # Inflight /\ id \in Order \cup DryId \cup {Unset}
  BY <1>1, NameAssumption DEF Unset, Inflight
<1>8. Types' /\ Claims'
  BY <1>1, <1>3, <1>4, <1>5, <1>6, <1>7, StepEndsClaim DEF Inv
<1>9. Ids'
  BY <1>1, <1>3 DEF Inv, Types, Ids, IdsOf
<1> QED
  BY <1>8, <1>9 DEF Inv

\* A new process knows of no claim and has given no id.
LEMMA RestartKeeps == Inv /\ Restart => Inv'
<1> SUFFICES ASSUME Inv, Restart PROVE Inv'
  OBVIOUS
<1>1. /\ kind' = kind /\ at' = [c \in Caller |-> Idle]
      /\ submitted' = [o \in Order |-> Unset] /\ given' = [o \in Order |-> {}]
  BY DEF Restart
<1>2. Idle \in Place /\ Idle.stage = "idle"
  BY DEF Idle, Place
<1>3. Types'
  BY <1>1, <1>2 DEF Inv, Types, InAdapter, Claiming, Sending
<1>4. \A c \in Caller, o \in Order : ~HasClaim(c, o)'
  BY <1>1, <1>2 DEF HasClaim, Claiming
<1>5. Claims'
  BY <1>1, <1>4 DEF Claims, Unset, Inflight
<1>6. Ids'
  BY <1>1 DEF Ids, IdsOf
<1> QED
  BY <1>3, <1>5, <1>6 DEF Inv

\* Every step keeps the invariant.
LEMMA StepKeeps == Inv /\ [Next]_vars => Inv'
<1> SUFFICES ASSUME Inv, [Next]_vars PROVE Inv'
  OBVIOUS
<1>1. ASSUME NEW c \in Caller, NEW o \in Order,
             AlpacaSubmit(c, o) \/ Find(c, o) \/ AlpacaCancel(c, o)
             \/ RobinhoodCancel(c, o) \/ AlpacaGetOrder(c, o)
             \/ RobinhoodGetOrder(c, o)
      PROVE  Inv'
  <2>1. UNCHANGED <<kind, submitted, given>>
    BY <1>1 DEF AlpacaSubmit, Find, AlpacaCancel, RobinhoodCancel, AlpacaGetOrder,
                RobinhoodGetOrder, tables, history
  <2>2. \E s \in {"send"} \cup Outcome :
          Begins(c, s, o) /\ (s = "send" => kind = "alpaca")
    BY <1>1 DEF AlpacaSubmit, Find, AlpacaCancel, RobinhoodCancel, AlpacaGetOrder,
                RobinhoodGetOrder, Cancels, FindOutcomes, Outcome
  <2> QED
    BY <2>1, <2>2, BeginsElsewhere
<1>2. ASSUME NEW c \in Caller, NEW i \in DryId, Simulate(c, i)
      PROVE  Inv'
  <2>1. UNCHANGED <<kind, submitted, given>>
    BY <1>2 DEF Simulate, tables
  <2>2. \E s \in {"price"} \cup Outcome : Begins(c, s, i) /\ s # "send"
    BY <1>2 DEF Simulate, Outcome
  <2> QED
    BY <2>1, <2>2, BeginsElsewhere
<1>3. ASSUME NEW c \in Caller, Simulated(c)
      PROVE  Inv'
  BY <1>3, GoesElsewhere DEF Simulated, Claiming, Outcome
<1>4. ASSUME NEW c \in Caller, Return(c)
      PROVE  Inv'
  <2>1. /\ at' = [at EXCEPT ![c] = Idle] /\ at[c].stage \notin Claiming
        /\ UNCHANGED <<kind, submitted, given>>
    BY <1>4 DEF Return, Claiming, tables, history
  <2>2. Idle \in Place /\ InAdapter(Idle) /\ Idle.stage \notin Claiming
    BY DEF Idle, Place, InAdapter, Claiming, Sending
  <2>3. Types' /\ Claims'
    BY <2>1, <2>2, StepWithoutClaim DEF Inv, Types
  <2> QED
    BY <2>1, <2>3, SameIds DEF Inv
<1>5. ASSUME UNCHANGED <<kind, at, submitted, given>>
      PROVE  Inv'
  BY <1>5 DEF Inv, Types, InAdapter, Claims, HasClaim, Ids, IdsOf
<1>6. ASSUME NEW o \in Order, Fill(o) \/ Deliver(o) \/ LateCall(o)
      PROVE  Inv'
  BY <1>5, <1>6 DEF Fill, Deliver, LateCall, tables, history
<1>7. CASE StreamBreaks \/ UNCHANGED vars
  BY <1>5, <1>7 DEF StreamBreaks, vars, tables, history
<1> QED
  BY <1>1, <1>2, <1>3, <1>4, <1>6, <1>7, AlpacaKeeps, ClaimKeeps, DryPlaceKeeps,
     PlacingKeeps, PlaceEndsKeeps, RestartKeeps DEF Next

-----------------------------------------------------------------------------

\* At the start nobody has a claim.
LEMMA InitiallyInv == Init => Inv
<1> SUFFICES ASSUME Init PROVE Inv
  OBVIOUS
<1>1. Idle \in Place /\ Idle.stage = "idle"
  BY DEF Idle, Place
<1>2. Types
  BY <1>1 DEF Init, Types, InAdapter, Claiming, Sending
<1>3. Claims
  BY <1>1 DEF Init, Claims, HasClaim, Claiming, Unset, Inflight
<1>4. Ids
  BY DEF Init, Ids, IdsOf
<1> QED
  BY <1>2, <1>3, <1>4 DEF Inv

\* Whatever the callers, failures and restarts: a claim is held by exactly one
\* caller, and an order has one id (submit_order of either adapter).
THEOREM OneIdPerOrder == Spec => []SubmitIsIdempotent
<1>1. Init => Inv
  BY InitiallyInv
<1>2. Inv => SubmitIsIdempotent
  <2> SUFFICES ASSUME Inv, NEW o \in Order
               PROVE  /\ Cardinality(AtIt(o)) = IF submitted[o] = Inflight THEN 1 ELSE 0
                      /\ Cardinality(given[o]) <= 1
    BY DEF SubmitIsIdempotent
  <2>1. AtIt(o) = {c \in Caller : HasClaim(c, o)}
    BY DEF AtIt, HasClaim, Claiming
  <2>2. ASSUME submitted[o] = Inflight PROVE Cardinality(AtIt(o)) = 1
    <3>1. PICK c \in Caller : HasClaim(c, o)
      BY <2>2 DEF Inv, Claims
    <3>2. AtIt(o) = {c}
      BY <2>1, <3>1 DEF Inv, Claims
    <3> QED
      BY <3>2, FS_Singleton
  <2>3. ASSUME submitted[o] # Inflight PROVE Cardinality(AtIt(o)) = 0
    <3>1. AtIt(o) = {}
      BY <2>1, <2>3 DEF Inv, Claims
    <3> QED
      BY <3>1, FS_EmptySet
  <2>4. Cardinality(given[o]) \in {0, 1}
    <3>1. PICK x : given[o] \subseteq {x}
      BY DEF Inv, Ids, IdsOf
    <3>2. given[o] = {} \/ given[o] = {x}
      BY <3>1
    <3> QED
      BY <3>2, FS_EmptySet, FS_Singleton
  <2> QED
    BY <2>2, <2>3, <2>4
<1> QED
  BY <1>1, <1>2, StepKeeps, PTL DEF Spec

-----------------------------------------------------------------------------
(* What callers are told *)

\* What the server makes of an order.
Server == {"none", "working", "filled", "canceled"}

\* What the server has of Alpaca's, this process or an earlier one has
\* registered; a call nobody waits for has timed out.
Registered ==
  /\ server \in [Order -> Server]
  /\ late \subseteq overslept
  /\ kind # "live" => late = {}
  /\ kind = "alpaca" => \A o \in Order : server[o] # "none" => o \in meta \cup early
  /\ \A c \in Caller : at[c].stage \in Sending => at[c].of \in meta

\* At most one caller moves, and for whom it then is.
OneMoves(c, s, x) ==
  /\ at'[c].stage = s /\ at'[c].of = x
  /\ \A d \in Caller \ {c} : at'[d] = at[d]

\* A caller that begins.
LEMMA BeginMoves ==
  ASSUME Types, NEW c \in Caller, NEW s, NEW x, Begins(c, s, x)
  PROVE  OneMoves(c, s, x)
BY DEF Begins, Types, OneMoves

\* A caller that goes on.
LEMMA GoMoves ==
  ASSUME Types, NEW c \in Caller, NEW s, Goes(c, s)
  PROVE  OneMoves(c, s, at[c].of)
<1>1. at[c] \in Place /\ DOMAIN at = Caller
  BY DEF Types
<1>2. at' = [at EXCEPT ![c] = [at[c] EXCEPT !.stage = s]]
  BY DEF Goes
<1>3. /\ at'[c] = [at[c] EXCEPT !.stage = s]
      /\ \A d \in Caller \ {c} : at'[d] = at[d]
  BY <1>1, <1>2
<1>4. at'[c].stage = s /\ at'[c].of = at[c].of
  BY <1>1, <1>3 DEF Place
<1> QED
  BY <1>3, <1>4 DEF OneMoves

\* Steps that leave the server, the late calls and the registration alone, and
\* bring nobody to a request.
LEMMA QuietRegistered ==
  ASSUME Registered, UNCHANGED <<kind, server, late, overslept, meta, early>>,
         \A c \in Caller : at'[c] = at[c] \/ at'[c].stage \notin Sending
  PROVE  Registered'
BY DEF Registered

\* Alpaca's submission registers the order first.
LEMMA SubmitRegisters ==
  ASSUME Inv, Registered, NEW c \in Caller, NEW o \in Order, AlpacaSubmit(c, o)
  PROVE  Registered'
<1>1. /\ UNCHANGED <<kind, server, late, overslept, early>>
      /\ meta' = meta \cup {o}
  BY DEF AlpacaSubmit, outside, history
<1>2. OneMoves(c, "send", o)
  BY BeginMoves DEF AlpacaSubmit, Inv
<1> QED
  BY <1>1, <1>2 DEF Registered, OneMoves

\* The order a request takes to the server is registered.
LEMMA SendRegisters ==
  ASSUME Inv, Registered, NEW c \in Caller, AlpacaSend(c)
  PROVE  Registered'
<1> DEFINE o == at[c].of
<1>1. /\ UNCHANGED <<kind, late, overslept, meta, early>> /\ o \in meta /\ o \in Order
      /\ server' \in {server, [server EXCEPT ![o] = "working"]}
  BY DEF AlpacaSend, tables, Registered, Inv, Types, InAdapter, Sending
<1>2. \E s : OneMoves(c, s, o)
  BY GoMoves DEF AlpacaSend, Gets, Inv
<1>3. server' \in [Order -> Server] /\ \A x \in Order : server'[x] # "none" =>
         server[x] # "none" \/ x = o
  BY <1>1 DEF Registered, Server
<1> QED
  BY <1>1, <1>2, <1>3 DEF Registered, OneMoves

\* Robinhood's orders need no registration; a call that times out is on the
\* list of those that did.
LEMMA PlacingRegisters ==
  ASSUME Inv, Registered, NEW c \in Caller, ServerPlaces(c) \/ PlaceEnds(c)
  PROVE  Registered'
<1> DEFINE o == at[c].of
<1>1. /\ kind = "live" /\ UNCHANGED <<kind, meta, early>>
      /\ at[c].stage \in Claiming /\ o \in Order
  BY DEF ServerPlaces, PlaceEnds, tables, history, Inv, Types, InAdapter, Claiming
<1>2. \/ UNCHANGED <<late, overslept>>
      \/ late' = late \cup {o} /\ overslept' = overslept \cup {o}
  BY DEF ServerPlaces, PlaceEnds, history
<1>3. server' \in {server, [server EXCEPT ![o] = IF @ = "none" THEN "working" ELSE @]}
  BY DEF ServerPlaces, PlaceEnds
<1>4. server' \in [Order -> Server]
  BY <1>1, <1>3 DEF Registered, Server
<1>5. \E s : OneMoves(c, s, o) /\ s \notin Sending
  <2>1. \E s \in {"answered", "rejected", "unavailable", "got"} : Goes(c, s)
    BY DEF ServerPlaces, PlaceEnds, Gets
  <2> QED
    BY <2>1, GoMoves DEF Inv, Sending
<1> QED
  BY <1>1, <1>2, <1>4, <1>5 DEF Registered, OneMoves

\* A cancellation is of an order the server has.
LEMMA CancelRegisters ==
  ASSUME Inv, Registered, NEW c \in Caller, NEW o \in Order,
         AlpacaCancel(c, o) \/ RobinhoodCancel(c, o)
  PROVE  Registered'
<1>1. /\ UNCHANGED <<kind, late, overslept, meta, early>>
      /\ \/ server' = server
         \/ server[o] = "working" /\ server' = [server EXCEPT ![o] = "canceled"]
  BY DEF AlpacaCancel, RobinhoodCancel, Cancels, tables, history
<1>2. \E s : OneMoves(c, s, o) /\ s \notin Sending
  <2>1. \E s \in {"got", "unavailable", "refused"} : Begins(c, s, o)
    BY DEF AlpacaCancel, RobinhoodCancel, Cancels
  <2> QED
    BY <2>1, BeginMoves DEF Inv, Sending
<1>3. server' \in [Order -> Server] /\ \A x \in Order : server'[x] # "none" =>
         server[x] # "none"
  BY <1>1 DEF Registered, Server
<1> QED
  BY <1>1, <1>2, <1>3 DEF Registered, OneMoves

\* A fill is of an order the server has; a late call may place one of
\* Robinhood's.
LEMMA ServerRegisters ==
  ASSUME Inv, Registered, NEW o \in Order, Fill(o) \/ LateCall(o)
  PROVE  Registered'
<1>1. UNCHANGED <<kind, at, overslept, meta, early>>
  BY DEF Fill, LateCall, tables, history
<1>2. CASE Fill(o)
  <2>1. /\ late' = late /\ server[o] = "working"
        /\ server' \in {server, [server EXCEPT ![o] = "filled"]}
    BY <1>2 DEF Fill, Registered
  <2>2. server' \in [Order -> Server] /\ \A x \in Order : server'[x] # "none" =>
           server[x] # "none"
    BY <2>1 DEF Registered, Server
  <2> QED
    BY <1>1, <2>1, <2>2 DEF Registered
<1>3. CASE LateCall(o)
  <2>1. /\ late' = late \ {o} /\ o \in late
        /\ server' \in {server, [server EXCEPT ![o] = IF @ = "none" THEN "working" ELSE @]}
    BY <1>3 DEF LateCall
  <2>2. server' \in [Order -> Server] /\ kind = "live"
    BY <2>1 DEF Registered, Server
  <2> QED
    BY <1>1, <2>1, <2>2 DEF Registered
<1> QED
  BY <1>2, <1>3

\* Every step.
LEMMA RegisteredStep == Inv /\ Registered /\ [Next]_vars => Registered'
<1> SUFFICES ASSUME Inv, Registered, [Next]_vars PROVE Registered'
  OBVIOUS
<1>1. ASSUME NEW c \in Caller, NEW o \in Order,
             Claim(c, o) \/ Find(c, o) \/ AlpacaGetOrder(c, o) \/ RobinhoodGetOrder(c, o)
      PROVE  Registered'
  <2>1. UNCHANGED <<kind, server, late, overslept, meta, early>>
    BY <1>1 DEF Claim, Find, AlpacaGetOrder, RobinhoodGetOrder, outside, tables, history
  <2>2. \E s \in {"dry", "review"} \cup Outcome : Begins(c, s, o)
    BY <1>1 DEF Claim, Find, AlpacaGetOrder, RobinhoodGetOrder, FindOutcomes, Outcome,
                Unset, Inflight
  <2>3. \E s : OneMoves(c, s, o) /\ s \notin Sending
    BY <2>2, BeginMoves DEF Inv, Sending, Outcome
  <2> QED
    BY <2>1, <2>3, QuietRegistered DEF OneMoves
<1>2. ASSUME NEW c \in Caller, NEW i \in DryId, Simulate(c, i)
      PROVE  Registered'
  <2>1. UNCHANGED <<kind, server, late, overslept, meta, early>>
    BY <1>2 DEF Simulate, outside, tables
  <2>2. \E s \in {"unavailable", "got", "price"} : Begins(c, s, i)
    BY <1>2 DEF Simulate
  <2>3. \E s : OneMoves(c, s, i) /\ s \notin Sending
    BY <2>2, BeginMoves DEF Inv, Sending
  <2> QED
    BY <2>1, <2>3, QuietRegistered DEF OneMoves
<1>3. ASSUME NEW c \in Caller, AlpacaLookup(c) \/ DryPlace(c) \/ Review(c) \/ CallPlace(c)
                               \/ Simulated(c)
      PROVE  Registered'
  <2>1. UNCHANGED <<kind, server, late, overslept, meta, early>>
    BY <1>3 DEF AlpacaLookup, DryPlace, Review, CallPlace, Simulated, outside, tables, history
  <2>2. \E s \in {"got", "rejected", "unavailable", "place", "calling"} : Goes(c, s)
    BY <1>3 DEF AlpacaLookup, DryPlace, Review, CallPlace, Simulated, Gets
  <2>3. \E s : OneMoves(c, s, at[c].of) /\ s \notin Sending
    BY <2>2, GoMoves DEF Inv, Sending
  <2> QED
    BY <2>1, <2>3, QuietRegistered DEF OneMoves
<1>4. ASSUME NEW c \in Caller, Return(c) PROVE Registered'
  <2>1. UNCHANGED <<kind, server, late, overslept, meta, early>>
        /\ at' = [at EXCEPT ![c] = Idle]
    BY <1>4 DEF Return, outside, tables, history
  <2>2. \A d \in Caller : at'[d] = at[d] \/ at'[d].stage \notin Sending
    BY <2>1 DEF Inv, Types, Idle, Sending
  <2> QED
    BY <2>1, <2>2, QuietRegistered
<1>5. (\E o \in Order : Deliver(o)) \/ StreamBreaks \/ UNCHANGED vars
        => UNCHANGED <<kind, server, late, overslept, meta, early, at>>
  BY DEF Deliver, StreamBreaks, vars, tables, outside, history
<1>6. CASE Restart
  <2>1. /\ UNCHANGED <<kind, server, overslept>> /\ late' = {} /\ meta' = {}
        /\ early' = early \cup meta /\ at' = [c \in Caller |-> Idle]
    BY <1>6 DEF Restart
  <2>2. \A c \in Caller : at'[c].stage = "idle"
    BY <2>1 DEF Idle
  <2> QED
    BY <2>1, <2>2 DEF Registered, Sending
<1> QED
  BY <1>1, <1>2, <1>3, <1>4, <1>5, <1>6, QuietRegistered, SubmitRegisters, SendRegisters,
     PlacingRegisters, CancelRegisters, ServerRegisters DEF Next

\* A caller is told of a rejection by the server, or by a 422 about an order it
\* does not have; or its answer was enveloped.
LEMMA RejectionStep ==
  Inv /\ Registered /\ [Next]_vars => [\A c \in Caller : RejectionIsTrue(c)]_vars
<1> SUFFICES ASSUME Inv, Registered, Next,
                    NEW c \in Caller, at[c].stage # "rejected", at'[c].stage = "rejected"
             PROVE  \/ server[at[c].of] = "none" /\ at[c].of \notin late
                    \/ at[c].of \in enveloped' \cup overslept
  BY DEF RejectionIsTrue
<1> DEFINE o == at[c].of
<1>1. o \in late => o \in overslept
  BY DEF Registered
<1>2. CASE AlpacaSend(c) \/ AlpacaLookup(c)
  <2>1. server[o] = "none"
    <3>1. CASE ~Gets(c, o) /\ ~Goes(c, "rejected")
      <4>1. \E s \in {"unavailable", "lookup"} : Goes(c, s)
        BY <1>2, <3>1 DEF AlpacaSend, AlpacaLookup
      <4> QED
        BY <4>1, GoMoves DEF OneMoves, Inv
    <3>2. CASE Gets(c, o)
      <4>1. Goes(c, "got")
        BY <3>2 DEF Gets
      <4> QED
        BY <4>1, GoMoves DEF OneMoves, Inv
    <3>3. CASE Goes(c, "rejected")
      <4>1. at'[c].stage # "got" /\ at'[c].stage # "unavailable" /\ at'[c].stage # "lookup"
        OBVIOUS
      <4>2. ~Goes(c, "got") /\ ~Goes(c, "unavailable") /\ ~Goes(c, "lookup")
        BY <4>1, GoMoves DEF OneMoves, Inv
      <4> QED
        BY <1>2, <4>2 DEF AlpacaSend, AlpacaLookup, FindOutcomes, Gets
    <3> QED
      BY <3>1, <3>2, <3>3
  <2> QED
    BY <1>1, <2>1
<1>3. CASE PlaceEnds(c)
  <2>1. ~Goes(c, "got") /\ ~Goes(c, "unavailable")
    BY GoMoves DEF OneMoves, Inv
  <2>2. server[o] = "none" \/ enveloped' = enveloped \cup {o}
    BY <1>3, <2>1 DEF PlaceEnds, Gets
  <2> QED
    BY <1>1, <2>2
<1>4. ASSUME NEW d \in Caller, NEW s, NEW x, OneMoves(d, s, x), s # "rejected" PROVE FALSE
  BY <1>4 DEF OneMoves
<1>5. ASSUME NEW d \in Caller, d # c, NEW s, NEW x, OneMoves(d, s, x) PROVE FALSE
  BY <1>5 DEF OneMoves
<1>6. ASSUME NEW d \in Caller, NEW x \in Order,
             AlpacaSubmit(d, x) \/ Claim(d, x) \/ Find(d, x)
             \/ AlpacaCancel(d, x) \/ RobinhoodCancel(d, x)
             \/ AlpacaGetOrder(d, x) \/ RobinhoodGetOrder(d, x)
      PROVE  FALSE
  <2>1. \E s \in {"send", "dry", "review", "got", "unavailable", "absent", "refused"} :
          Begins(d, s, x)
    BY <1>6 DEF AlpacaSubmit, Claim, Find, AlpacaCancel, RobinhoodCancel, Cancels,
                AlpacaGetOrder, RobinhoodGetOrder, FindOutcomes, Unset, Inflight
  <2> QED
    BY <1>4, <2>1, BeginMoves DEF Inv
<1>7. ASSUME NEW d \in Caller, NEW i \in DryId, Simulate(d, i) PROVE FALSE
  <2>1. \E s \in {"unavailable", "got", "price"} : Begins(d, s, i)
    BY <1>7 DEF Simulate
  <2> QED
    BY <1>4, <2>1, BeginMoves DEF Inv
<1>8. ASSUME NEW d \in Caller,
             DryPlace(d) \/ Review(d) \/ CallPlace(d) \/ ServerPlaces(d) \/ Simulated(d)
      PROVE  FALSE
  <2>1. \E s \in {"place", "calling", "answered", "got"} : Goes(d, s)
    BY <1>8 DEF DryPlace, Review, CallPlace, ServerPlaces, Simulated, Gets
  <2> QED
    BY <1>4, <2>1, GoMoves DEF Inv
<1>9. ASSUME NEW d \in Caller, d # c, AlpacaSend(d) \/ AlpacaLookup(d) \/ PlaceEnds(d)
      PROVE  FALSE
  <2>1. \E s : Goes(d, s)
    BY <1>9 DEF AlpacaSend, AlpacaLookup, PlaceEnds, Gets
  <2> QED
    BY <1>5, <1>9, <2>1, GoMoves DEF Inv
<1>10. ASSUME NEW d \in Caller, Return(d) PROVE FALSE
  BY <1>10 DEF Return, Idle, Inv, Types
<1>11. (\E x \in Order : Fill(x) \/ Deliver(x) \/ LateCall(x)) \/ StreamBreaks => at' = at
  BY DEF Fill, Deliver, LateCall, StreamBreaks
<1>12. ~Restart
  BY DEF Restart, Idle
<1> QED
  BY <1>2, <1>3, <1>6, <1>7, <1>8, <1>9, <1>10, <1>11, <1>12 DEF Next

-----------------------------------------------------------------------------
(* Quantities *)

\* What the units of an order's fills come to: those handed on, those on the
\* stream and those it lost.
OrderBalances(o) ==
  /\ handed[o] \subseteq {SideOf[o]}
  /\ kind = "alpaca" =>
       counted[o] + Net(wire[o] + missed[o], SideOf[o]) = Net(filled[o], SideOf[o])

Carried ==
  /\ filled \in [Order -> Nat] /\ wire \in [Order -> Nat] /\ missed \in [Order -> Nat]
  /\ counted \in [Order -> Int] /\ handed = [o \in Order |-> handed[o]]
  /\ \A o \in Order : wire[o] > 0 => kind = "alpaca" /\ server[o] # "none"
  /\ \A o \in Order \ early : OrderBalances(o)

\* Units add up, whatever one of them counts.
LEMMA ProductAdds ==
  ASSUME NEW u \in Int, NEW m \in Int, NEW n \in Int
  PROVE  m * u \in Int /\ (m + n) * u = m * u + n * u /\ 1 * u = u /\ 0 * u = 0
OBVIOUS

\* What units count adds up, on either side and for crypto too.
LEMMA NetAdds ==
  ASSUME NEW s, NEW m \in Int, NEW n \in Int
  PROVE  Net(m, s) \in Int /\ Net(m + n, s) = Net(m, s) + Net(n, s)
<1> DEFINE u == IF Crypto /\ s = "BUY" THEN Lot - Fee ELSE Lot
<1>1. u \in Int
  BY AdaptersAssumption
<1>2. \A k : Net(k, s) = k * u
  BY DEF Net
<1> HIDE DEF u
<1> QED
  BY <1>1, <1>2, ProductAdds

\* Steps that leave the fills alone.
LEMMA QuietCarried ==
  ASSUME Inv, Registered, Carried, UNCHANGED <<kind, filled, wire, missed, counted, handed>>,
         early \subseteq early', \A o \in Order : server[o] # "none" => server'[o] # "none"
  PROVE  Carried'
BY DEF Carried, OrderBalances, Net

\* A fill goes to the stream.
LEMMA FillCarries ==
  ASSUME Inv, Registered, Carried, NEW o \in Order, Fill(o)
  PROVE  Carried'
<1>1. /\ UNCHANGED <<kind, missed, counted, handed, early>>
      /\ filled' = [filled EXCEPT ![o] = @ + 1]
      /\ server[o] = "working" /\ server' \in {server, [server EXCEPT ![o] = "filled"]}
      /\ wire' = IF kind = "alpaca" THEN [wire EXCEPT ![o] = @ + 1] ELSE wire
  BY DEF Fill, history, delivered, Registered
<1>2. /\ filled \in [Order -> Nat] /\ wire \in [Order -> Nat] /\ missed \in [Order -> Nat]
      /\ counted \in [Order -> Int] /\ handed = [x \in Order |-> handed[x]]
      /\ \A x \in Order : wire[x] > 0 => kind = "alpaca" /\ server[x] # "none"
      /\ \A x \in Order \ early : OrderBalances(x)
  BY DEF Carried
<1>3. \A x \in Order : wire'[x] > 0 => kind' = "alpaca" /\ server'[x] # "none"
  BY <1>1, <1>2 DEF Registered, Server
<1>4. ASSUME NEW x \in Order \ early' PROVE OrderBalances(x)'
  <2>1. x \in Order \ early /\ OrderBalances(x)
    BY <1>1, <1>2
  <2>2. CASE x # o \/ kind # "alpaca"
    <3>1. kind = "alpaca" => filled'[x] = filled[x] /\ wire'[x] = wire[x]
      BY <1>1, <1>2, <2>2
    <3> QED
      BY <1>1, <2>1, <3>1 DEF OrderBalances, Net
  <2>3. CASE x = o /\ kind = "alpaca"
    <3> DEFINE s == SideOf[x]
               a == wire[x] + missed[x]
    <3>1. filled'[x] = filled[x] + 1 /\ wire'[x] + missed'[x] = a + 1
          /\ a \in Int /\ filled[x] \in Int /\ 1 \in Int /\ counted[x] \in Int
      BY <1>1, <1>2, <2>3
    <3>2. counted[x] + Net(a, s) = Net(filled[x], s)
      BY <2>1, <2>3 DEF OrderBalances
    <3> HIDE DEF a, s
    <3>3. /\ Net(a + 1, s) = Net(a, s) + Net(1, s)
          /\ Net(filled[x] + 1, s) = Net(filled[x], s) + Net(1, s)
          /\ Net(a, s) \in Int /\ Net(1, s) \in Int /\ Net(filled[x], s) \in Int
      BY <3>1, NetAdds
    <3>4. counted[x] + Net(a + 1, s) = Net(filled[x] + 1, s)
      BY <3>1, <3>2, <3>3
    <3>5. counted'[x] + Net(wire'[x] + missed'[x], s) = Net(filled'[x], s)
      BY <1>1, <3>1, <3>4
    <3>6. s = SideOf[x]
      BY DEF s
    <3> QED
      BY <1>1, <2>1, <3>5, <3>6 DEF OrderBalances, Net
  <2> QED
    BY <2>2, <2>3
<1>5. filled' \in [Order -> Nat] /\ wire' \in [Order -> Nat]
  BY <1>1, <1>2
<1> QED
  BY <1>1, <1>2, <1>3, <1>4, <1>5 DEF Carried

\* A fill that arrives is of a registered order, or of an earlier life's: its
\* side is known.
LEMMA DeliverCarries ==
  ASSUME Inv, Registered, Carried, NEW o \in Order, Deliver(o)
  PROVE  Carried'
<1>1. /\ UNCHANGED <<kind, missed, filled, early, server>>
      /\ wire[o] > 0 /\ wire' = [wire EXCEPT ![o] = @ - 1]
      /\ handed' = [handed EXCEPT ![o] = @ \cup {StreamSide(o)}]
      /\ counted' = [counted EXCEPT ![o] = @ + Net(1, StreamSide(o))]
  BY DEF Deliver
<1>2. /\ filled \in [Order -> Nat] /\ wire \in [Order -> Nat] /\ missed \in [Order -> Nat]
      /\ counted \in [Order -> Int] /\ handed = [x \in Order |-> handed[x]]
      /\ \A x \in Order : wire[x] > 0 => kind = "alpaca" /\ server[x] # "none"
      /\ \A x \in Order \ early : OrderBalances(x)
  BY DEF Carried
<1>3. Net(1, StreamSide(o)) \in Int
  BY NetAdds
<1>4. /\ wire' \in [Order -> Nat] /\ counted' \in [Order -> Int]
      /\ handed' = [x \in Order |-> handed'[x]]
  <2>1. wire' \in [Order -> Nat]
    BY <1>1, <1>2
  <2>2. counted' \in [Order -> Int]
    <3> DEFINE n == Net(1, StreamSide(o))
    <3>1. n \in Int /\ counted' = [counted EXCEPT ![o] = @ + n]
      BY <1>1, <1>3
    <3> HIDE DEF n
    <3> QED
      BY <1>2, <3>1
  <2>3. handed' = [x \in Order |-> handed'[x]]
    BY <1>1, <1>2
  <2> QED
    BY <2>1, <2>2, <2>3
<1>5. o \notin early => StreamSide(o) = SideOf[o]
  BY <1>1, <1>2 DEF Registered, StreamSide
<1>6. ASSUME NEW x \in Order \ early' PROVE OrderBalances(x)'
  <2>1. x \in Order \ early /\ OrderBalances(x)
    BY <1>1, <1>2
  <2>2. CASE x # o
    <3>1. wire'[x] = wire[x] /\ counted'[x] = counted[x] /\ handed'[x] = handed[x]
      BY <1>1, <1>2, <2>2
    <3> QED
      BY <1>1, <2>1, <3>1 DEF OrderBalances, Net
  <2>3. CASE x = o
    <3> DEFINE s == SideOf[x]
               a == wire'[x] + missed[x]
    <3>1. /\ wire[x] + missed[x] = a + 1 /\ a \in Int /\ 1 \in Int /\ counted[x] \in Int
          /\ counted'[x] = counted[x] + Net(1, s)
          /\ handed'[x] \subseteq {s}
      BY <1>1, <1>2, <1>4, <1>5, <2>1, <2>3 DEF OrderBalances
    <3>2. kind = "alpaca" => counted[x] + Net(a + 1, s) = Net(filled[x], s)
      BY <2>1, <3>1 DEF OrderBalances
    <3>6. a = wire'[x] + missed'[x] /\ filled'[x] = filled[x] /\ kind' = kind
      BY <1>1
    <3>7. s = SideOf[x]
      OBVIOUS
    <3> HIDE DEF a, s
    <3>3. Net(a + 1, s) = Net(a, s) + Net(1, s) /\ Net(a, s) \in Int /\ Net(1, s) \in Int
      BY <3>1, NetAdds
    <3>4. kind = "alpaca" => counted'[x] + Net(a, s) = Net(filled[x], s)
      BY <3>1, <3>2, <3>3
    <3> QED
      BY <3>1, <3>4, <3>6, <3>7 DEF OrderBalances, Net
  <2> QED
    BY <2>2, <2>3
<1>7. \A x \in Order : wire'[x] > 0 => kind' = "alpaca" /\ server'[x] # "none"
  <2> SUFFICES ASSUME NEW x \in Order, wire'[x] > 0
               PROVE  kind' = "alpaca" /\ server'[x] # "none"
    OBVIOUS
  <2>1. wire[x] > 0
    BY <1>1, <1>2
  <2> QED
    BY <1>1, <1>2, <2>1
<1> QED
  BY <1>1, <1>2, <1>4, <1>6, <1>7 DEF Carried

\* What the stream carried is missed.
LEMMA BreakCarries ==
  ASSUME Inv, Registered, Carried, UNCHANGED <<kind, filled, counted, handed, server>>,
         early \subseteq early',
         missed' = [o \in Order |-> missed[o] + wire[o]], wire' = [o \in Order |-> 0]
  PROVE  Carried'
<1>1. /\ filled \in [Order -> Nat] /\ wire \in [Order -> Nat] /\ missed \in [Order -> Nat]
      /\ counted \in [Order -> Int] /\ handed = [x \in Order |-> handed[x]]
      /\ \A x \in Order \ early : OrderBalances(x)
  BY DEF Carried
<1>2. \A x \in Order : wire'[x] = 0 /\ missed'[x] = missed[x] + wire[x]
  OBVIOUS
<1>3. ASSUME NEW x \in Order \ early' PROVE OrderBalances(x)'
  <2>1. OrderBalances(x) /\ wire'[x] + missed'[x] = wire[x] + missed[x]
    BY <1>1, <1>2
  <2> QED
    BY <2>1 DEF OrderBalances, Net
<1>4. missed' \in [Order -> Nat] /\ wire' \in [Order -> Nat]
  BY <1>1
<1> QED
  BY <1>1, <1>2, <1>3, <1>4 DEF Carried

\* Every step.
LEMMA CarriedStep == Inv /\ Registered /\ Carried /\ [Next]_vars => Carried'
<1> SUFFICES ASSUME Inv, Registered, Carried, [Next]_vars PROVE Carried'
  OBVIOUS
<1>1. ASSUME NEW c \in Caller, NEW o \in Order,
             AlpacaSubmit(c, o) \/ Claim(c, o) \/ Find(c, o)
             \/ AlpacaGetOrder(c, o) \/ RobinhoodGetOrder(c, o)
      PROVE  UNCHANGED <<kind, filled, wire, missed, counted, handed, early, server>>
  BY <1>1 DEF AlpacaSubmit, Claim, Find, AlpacaGetOrder, RobinhoodGetOrder, outside,
              history, delivered
<1>2. ASSUME NEW c \in Caller, NEW o \in Order, AlpacaCancel(c, o) \/ RobinhoodCancel(c, o)
      PROVE  Carried'
  <2>1. /\ UNCHANGED <<kind, filled, wire, missed, counted, handed, early>>
        /\ server' \in {server, [server EXCEPT ![o] = "canceled"]}
    BY <1>2 DEF AlpacaCancel, RobinhoodCancel, Cancels, history, delivered
  <2> QED
    BY <2>1, QuietCarried DEF Registered
<1>3. ASSUME NEW c \in Caller,
             AlpacaLookup(c) \/ DryPlace(c) \/ Review(c) \/ CallPlace(c) \/ PlaceEnds(c)
             \/ Simulated(c) \/ Return(c)
      PROVE  UNCHANGED <<kind, filled, wire, missed, counted, handed, early, server>>
  BY <1>3 DEF AlpacaLookup, DryPlace, Review, CallPlace, PlaceEnds, Simulated, Return,
              outside, history, delivered
<1>4. ASSUME NEW c \in Caller, AlpacaSend(c) \/ ServerPlaces(c) PROVE Carried'
  <2>1. /\ UNCHANGED <<kind, filled, wire, missed, counted, handed, early>>
        /\ server' \in {server, [server EXCEPT ![at[c].of] = "working"],
                        [server EXCEPT ![at[c].of] = IF @ = "none" THEN "working" ELSE @]}
    BY <1>4 DEF AlpacaSend, ServerPlaces, history, delivered
  <2> QED
    BY <2>1, QuietCarried DEF Registered
<1>5. ASSUME NEW c \in Caller, NEW i \in DryId, Simulate(c, i)
      PROVE  UNCHANGED <<kind, filled, wire, missed, counted, handed, early, server>>
  BY <1>5 DEF Simulate, outside, delivered
<1>6. ASSUME NEW o \in Order, LateCall(o) PROVE Carried'
  <2>1. /\ UNCHANGED <<kind, filled, wire, missed, counted, handed, early>>
        /\ server' \in {server, [server EXCEPT ![o] = IF @ = "none" THEN "working" ELSE @]}
    BY <1>6 DEF LateCall, history, delivered
  <2> QED
    BY <2>1, QuietCarried DEF Registered
<1>7. StreamBreaks => Carried'
  BY BreakCarries DEF StreamBreaks
<1>8. Restart => Carried'
  BY BreakCarries DEF Restart
<1>9. UNCHANGED vars =>
        UNCHANGED <<kind, filled, wire, missed, counted, handed, early, server>>
  BY DEF vars, outside, history, delivered
<1> QED
  BY <1>1, <1>2, <1>3, <1>4, <1>5, <1>6, <1>7, <1>8, <1>9, QuietCarried, FillCarries,
     DeliverCarries DEF Next

AtPrice(c, i) == at[c].stage = "price" /\ at[c].of = i

\* The price of a dry-run id is looked up by one caller at most, before it is
\* known; shown is what is known.
StableId(i) ==
  i \notin raced =>
    /\ \A p, q \in shown[i] : p = q
    /\ dryOrder[i] # Lost =>
         shown[i] = IF dryFill[i] = Unset THEN {} ELSE {dryFill[i]}
    /\ dryOrder[i] \in {Unset, Lost} => dryFill[i] = Unset
    /\ \A c \in Caller : AtPrice(c, i) =>
         /\ dryFill[i] = Unset /\ dryOrder[i] \notin {Unset, Lost}
         /\ \A d \in Caller : AtPrice(d, i) => c = d

Stable ==
  /\ dryOrder = [i \in DryId |-> dryOrder[i]] /\ dryFill = [i \in DryId |-> dryFill[i]]
  /\ shown = [i \in DryId |-> shown[i]]
  /\ \A i \in DryId : StableId(i)
  /\ \A c \in Caller : at[c].stage = "price" => at[c].of \in DryId

\* An id nothing happens to.
LEMMA SameId ==
  ASSUME NEW j \in DryId, StableId(j), j \in raced => j \in raced',
         j \notin raced => shown'[j] = shown[j],
         dryOrder'[j] = dryOrder[j], dryFill'[j] = dryFill[j],
         \A d \in Caller : AtPrice(d, j)' => AtPrice(d, j)
  PROVE  StableId(j)'
<1> SUFFICES ASSUME j \notin raced' PROVE StableId(j)'
  BY DEF StableId
<1>1. j \notin raced /\ shown'[j] = shown[j]
  OBVIOUS
<1> QED
  BY <1>1 DEF StableId

\* Steps that leave the tables alone, and bring nobody to a lookup.
LEMMA QuietStable ==
  ASSUME Stable, UNCHANGED <<dryOrder, dryFill, shown, raced>>,
         \A c \in Caller : at'[c] = at[c] \/ at'[c].stage # "price"
  PROVE  Stable'
<1>1. ASSUME NEW i \in DryId PROVE StableId(i)'
  <2>1. \A c \in Caller : AtPrice(c, i)' => AtPrice(c, i)
    BY DEF AtPrice
  <2> QED
    BY <2>1 DEF Stable, StableId
<1>2. \A c \in Caller : at'[c].stage = "price" => at'[c].of \in DryId
  BY DEF Stable
<1> QED
  BY <1>1, <1>2 DEF Stable

\* A fresh id has no price yet.
LEMMA DryPlaceStable ==
  ASSUME Inv, Stable, NEW c \in Caller, DryPlace(c)
  PROVE  Stable'
<1> DEFINE i == CHOOSE i \in DryId : dryOrder[i] = Unset
<1>1. i \in DryId /\ dryOrder[i] = Unset
  BY DEF DryPlace
<1>2. /\ dryOrder' = [dryOrder EXCEPT ![i] = at[c].of]
      /\ UNCHANGED <<dryFill, shown, raced>>
  BY DEF DryPlace
<1>3. OneMoves(c, "got", at[c].of)
  BY GoMoves DEF DryPlace, Gets, Inv
<1>4. at[c].of \in Order
  BY DEF DryPlace, Inv, Types, InAdapter, Claiming
<1>5. at[c].of \notin {Unset, Lost}
  BY <1>4, NameAssumption
<1> HIDE DEF i
<1>6. ASSUME NEW j \in DryId PROVE StableId(j)'
  <2>1. \A d \in Caller : AtPrice(d, j)' => AtPrice(d, j)
    BY <1>3 DEF AtPrice, OneMoves
  <2>2. CASE j = i
    <3>1. dryOrder'[j] = at[c].of
      BY <1>1, <1>2, <2>2 DEF Stable
    <3>2. Unset # Lost
      BY DEF Unset, Lost
    <3> QED
      BY <1>1, <1>2, <1>5, <2>1, <2>2, <3>1, <3>2 DEF Stable, StableId
  <2>3. CASE j # i
    <3>1. dryOrder'[j] = dryOrder[j]
      BY <1>1, <1>2, <2>3 DEF Stable
    <3> QED
      BY <1>2, <2>1, <3>1 DEF Stable, StableId
  <2> QED
    BY <2>2, <2>3
<1>7. \A d \in Caller : at'[d].stage = "price" => at'[d].of \in DryId
  BY <1>3 DEF Stable, OneMoves
<1>8. dryOrder' = [j \in DryId |-> dryOrder'[j]]
  BY <1>2 DEF Stable
<1> QED
  BY <1>2, <1>6, <1>7, <1>8 DEF Stable

\* Polling shows the price that is known, or looks it up: alone, or in a race.
LEMMA SimulateStable ==
  ASSUME Inv, Stable, NEW c \in Caller, NEW i \in DryId, Simulate(c, i)
  PROVE  Stable'
<1>1. UNCHANGED <<dryOrder, dryFill>> /\ dryOrder[i] # Unset
  BY DEF Simulate, tables
<1>2. CASE dryOrder[i] = Lost
  <2>1. Begins(c, "unavailable", i) /\ UNCHANGED <<shown, raced>>
    BY <1>2 DEF Simulate
  <2> QED
    BY <1>1, <2>1, BeginMoves, QuietStable DEF OneMoves, Inv
<1>3. CASE dryOrder[i] # Lost /\ dryFill[i] # Unset
  <2>1. /\ Begins(c, "got", i) /\ UNCHANGED raced
        /\ shown' = [shown EXCEPT ![i] = @ \cup {dryFill[i]}]
    BY <1>3 DEF Simulate
  <2>2. OneMoves(c, "got", i)
    BY <2>1, BeginMoves DEF Inv
  <2>3. i \notin raced => shown'[i] = shown[i]
    BY <1>3, <2>1 DEF Stable, StableId
  <2>4. /\ shown' = [j \in DryId |-> shown'[j]]
        /\ \A j \in DryId \ {i} : shown'[j] = shown[j]
    BY <2>1 DEF Stable
  <2>5. ASSUME NEW j \in DryId PROVE StableId(j)'
    <3>1. \A d \in Caller : AtPrice(d, j)' => AtPrice(d, j)
      BY <2>2 DEF AtPrice, OneMoves
    <3>2. j \notin raced => shown'[j] = shown[j]
      BY <2>3, <2>4
    <3>3. StableId(j) /\ dryOrder'[j] = dryOrder[j] /\ dryFill'[j] = dryFill[j]
          /\ (j \in raced => j \in raced')
      BY <1>1, <2>1 DEF Stable
    <3> QED
      BY <3>1, <3>2, <3>3, SameId
  <2>6. \A d \in Caller : at'[d].stage = "price" => at'[d].of \in DryId
    BY <2>2 DEF Stable, OneMoves
  <2> QED
    BY <1>1, <2>4, <2>5, <2>6 DEF Stable
<1>4. CASE dryOrder[i] # Lost /\ dryFill[i] = Unset
  <2>1. /\ Begins(c, "price", i) /\ UNCHANGED shown
        /\ raced' = IF \E d \in Caller : at[d] = [stage |-> "price", of |-> i]
                    THEN raced \cup {i} ELSE raced
    BY <1>4 DEF Simulate
  <2>2. OneMoves(c, "price", i)
    BY <2>1, BeginMoves DEF Inv
  <2>3. i \notin raced' => \A d \in Caller : ~AtPrice(d, i)
    <3>1. ASSUME NEW d \in Caller, AtPrice(d, i)
          PROVE  at[d] = [stage |-> "price", of |-> i]
      BY <3>1 DEF Inv, Types, Place, AtPrice
    <3> QED
      BY <2>1, <3>1
  <2>4. ASSUME NEW j \in DryId PROVE StableId(j)'
    <3>1. \A d \in Caller : AtPrice(d, j)' <=> IF d = c THEN j = i ELSE AtPrice(d, j)
      BY <2>2 DEF AtPrice, OneMoves
    <3>2. ~AtPrice(c, j)
      BY <2>1 DEF Begins, Idle, AtPrice
    <3>3. j \notin raced' => j \notin raced
      BY <2>1
    <3>4. CASE j = i
      BY <1>1, <1>4, <2>1, <2>3, <3>1, <3>3, <3>4 DEF Stable, StableId
    <3>5. CASE j # i
      BY <1>1, <2>1, <3>1, <3>2, <3>3, <3>5 DEF Stable, StableId
    <3> QED
      BY <3>4, <3>5
  <2>5. \A d \in Caller : at'[d].stage = "price" => at'[d].of \in DryId
    BY <2>2 DEF Stable, OneMoves
  <2> QED
    BY <1>1, <2>1, <2>4, <2>5 DEF Stable
<1> QED
  BY <1>2, <1>3, <1>4

\* A lookup ends: the price is known and shown.
LEMMA SimulatedStable ==
  ASSUME Inv, Stable, NEW c \in Caller, Simulated(c)
  PROVE  Stable'
<1> DEFINE i == at[c].of
<1>1. PICK p \in Price \cup {NoPrice} :
        /\ dryFill' = [dryFill EXCEPT ![i] = p]
        /\ shown' = [shown EXCEPT ![i] = @ \cup {p}]
  BY DEF Simulated
<1>2. UNCHANGED <<dryOrder, raced>> /\ Goes(c, "got") /\ AtPrice(c, i)
  BY DEF Simulated, AtPrice
<1>3. OneMoves(c, "got", i)
  BY <1>2, GoMoves DEF Inv
<1>4. i \in DryId
  BY <1>2 DEF Stable, AtPrice
<1>5. p # Unset
  BY NameAssumption DEF NoPrice, Unset
<1>6. /\ dryFill' = [j \in DryId |-> dryFill'[j]] /\ shown' = [j \in DryId |-> shown'[j]]
      /\ dryFill'[i] = p /\ shown'[i] = shown[i] \cup {p}
      /\ \A j \in DryId \ {i} : dryFill'[j] = dryFill[j] /\ shown'[j] = shown[j]
  BY <1>1, <1>4 DEF Stable
<1> HIDE DEF i
<1>7. ASSUME NEW j \in DryId PROVE StableId(j)'
  <2>1. \A d \in Caller : AtPrice(d, j)' => AtPrice(d, j) /\ d # c
    BY <1>3 DEF AtPrice, OneMoves
  <2>2. CASE j = i
    <3> SUFFICES ASSUME j \notin raced' PROVE StableId(j)'
      BY DEF StableId
    <3>1. /\ dryFill[j] = Unset /\ dryOrder[j] \notin {Unset, Lost}
          /\ \A d \in Caller : AtPrice(d, j) => c = d
      BY <1>2, <2>2 DEF Stable, StableId
    <3>2. shown[j] = {}
      BY <1>2, <3>1 DEF Stable, StableId
    <3>3. shown'[j] = {p} /\ dryFill'[j] = p
      BY <1>6, <2>2, <3>2
    <3>4. \A d \in Caller : ~AtPrice(d, j)'
      BY <1>2, <2>1, <2>2, <3>1
    <3> QED
      BY <1>2, <1>5, <3>1, <3>3, <3>4 DEF StableId
  <2>3. CASE j # i
    BY <1>2, <1>6, <2>1, <2>3 DEF Stable, StableId
  <2> QED
    BY <2>2, <2>3
<1>8. \A d \in Caller : at'[d].stage = "price" => at'[d].of \in DryId
  BY <1>3 DEF Stable, OneMoves
<1> QED
  BY <1>2, <1>6, <1>7, <1>8 DEF Stable

\* A new process forgets the prices, and knows no id.
LEMMA RestartStable ==
  ASSUME Inv, Stable, Restart
  PROVE  Stable'
<1>1. /\ dryOrder' = [i \in DryId |-> IF dryOrder[i] = Unset THEN Unset ELSE Lost]
      /\ dryFill' = [i \in DryId |-> Unset] /\ UNCHANGED <<shown, raced>>
      /\ at' = [c \in Caller |-> Idle]
  BY DEF Restart
<1>2. \A c \in Caller : at'[c].stage # "price"
  BY <1>1 DEF Idle
<1>3. Unset # Lost
  BY DEF Unset, Lost
<1>4. ASSUME NEW i \in DryId PROVE StableId(i)'
  <2>1. dryFill'[i] = Unset /\ dryOrder'[i] = IF dryOrder[i] = Unset THEN Unset ELSE Lost
    BY <1>1
  <2>2. \A c \in Caller : ~AtPrice(c, i)'
    BY <1>2 DEF AtPrice
  <2> QED
    BY <1>1, <1>3, <2>1, <2>2 DEF Stable, StableId
<1> QED
  BY <1>1, <1>2, <1>4 DEF Stable

\* Every step.
LEMMA StableStep == Inv /\ Stable /\ [Next]_vars => Stable'
<1> SUFFICES ASSUME Inv, Stable, [Next]_vars PROVE Stable'
  OBVIOUS
<1>1. ASSUME NEW c \in Caller, NEW o \in Order,
             AlpacaSubmit(c, o) \/ Claim(c, o) \/ Find(c, o)
             \/ AlpacaCancel(c, o) \/ RobinhoodCancel(c, o)
             \/ AlpacaGetOrder(c, o) \/ RobinhoodGetOrder(c, o)
      PROVE  Stable'
  <2>1. UNCHANGED <<dryOrder, dryFill, shown, raced>>
    BY <1>1 DEF AlpacaSubmit, Claim, Find, AlpacaCancel, RobinhoodCancel, AlpacaGetOrder,
                RobinhoodGetOrder, tables, history
  <2>2. \E s \in {"send", "dry", "review", "got", "unavailable", "absent", "refused"} :
          Begins(c, s, o)
    BY <1>1 DEF AlpacaSubmit, Claim, Find, AlpacaCancel, RobinhoodCancel, Cancels,
                AlpacaGetOrder, RobinhoodGetOrder, FindOutcomes, Unset, Inflight
  <2> QED
    BY <2>1, <2>2, BeginMoves, QuietStable DEF OneMoves, Inv
<1>2. ASSUME NEW c \in Caller,
             AlpacaSend(c) \/ AlpacaLookup(c) \/ Review(c) \/ CallPlace(c)
             \/ ServerPlaces(c) \/ PlaceEnds(c)
      PROVE  Stable'
  <2>1. UNCHANGED <<dryOrder, dryFill, shown, raced>>
    BY <1>2 DEF AlpacaSend, AlpacaLookup, Review, CallPlace, ServerPlaces, PlaceEnds,
                tables, history
  <2>2. \E s \in {"got", "rejected", "unavailable", "lookup", "place", "calling",
                  "answered"} : Goes(c, s)
    BY <1>2 DEF AlpacaSend, AlpacaLookup, Review, CallPlace, ServerPlaces, PlaceEnds, Gets
  <2> QED
    BY <2>1, <2>2, GoMoves, QuietStable DEF OneMoves, Inv
<1>3. ASSUME NEW c \in Caller, Return(c) PROVE Stable'
  <2>1. UNCHANGED <<dryOrder, dryFill, shown, raced>> /\ at' = [at EXCEPT ![c] = Idle]
    BY <1>3 DEF Return, tables, history
  <2>2. \A d \in Caller : at'[d] = at[d] \/ at'[d].stage # "price"
    BY <2>1 DEF Inv, Types, Idle
  <2> QED
    BY <2>1, <2>2, QuietStable
<1>4. (\E o \in Order : Fill(o) \/ Deliver(o) \/ LateCall(o)) \/ StreamBreaks \/ UNCHANGED vars
        => UNCHANGED <<dryOrder, dryFill, shown, raced, at>>
  BY DEF Fill, Deliver, LateCall, StreamBreaks, vars, tables, history
<1> QED
  BY <1>1, <1>2, <1>3, <1>4, QuietStable, DryPlaceStable, SimulateStable,
     SimulatedStable, RestartStable DEF Next

-----------------------------------------------------------------------------

\* The first state.
LEMMA InitiallyTrue == Init => Inv /\ Registered /\ Carried /\ Stable
<1> SUFFICES ASSUME Init PROVE Inv /\ Registered /\ Carried /\ Stable
  OBVIOUS
<1>1. Inv
  BY InitiallyInv
<1>2. /\ \A c \in Caller : at[c].stage = "idle"
      /\ server = [o \in Order |-> "none"] /\ late = {}
      /\ filled = [o \in Order |-> 0] /\ wire = [o \in Order |-> 0]
      /\ missed = [o \in Order |-> 0] /\ counted = [o \in Order |-> 0]
      /\ handed = [o \in Order |-> {}]
      /\ dryOrder = [i \in DryId |-> Unset] /\ dryFill = [i \in DryId |-> Unset]
      /\ shown = [i \in DryId |-> {}]
  BY DEF Init, Idle
<1>3. Registered
  BY <1>2 DEF Registered, Server, Sending
<1>4. Carried
  <2>1. ASSUME NEW o \in Order PROVE OrderBalances(o)
    <3>1. wire[o] + missed[o] = 0 /\ counted[o] = 0 /\ filled[o] = 0 /\ handed[o] = {}
      BY <1>2
    <3>2. Net(0, SideOf[o]) \in Int
      BY NetAdds
    <3> QED
      BY <3>1, <3>2 DEF OrderBalances
  <2> QED
    BY <1>2, <2>1 DEF Carried
<1>5. Stable
  <2>1. Unset # Lost /\ \A c \in Caller, i \in DryId : ~AtPrice(c, i)
    BY <1>2 DEF Unset, Lost, AtPrice
  <2> QED
    BY <1>2, <2>1 DEF Stable, StableId
<1> QED
  BY <1>1, <1>3, <1>4, <1>5

\* A number of either sign and its amount with a side.
LEMMA PositionIsItsSum ==
  ASSUME SignedSum([o \in Order |-> Net(filled[o], SideOf[o])]) \in Int
  PROVE  TranslatePosition(Position) = SignedSum([o \in Order |-> Net(filled[o], SideOf[o])])
<1> DEFINE sum == SignedSum([o \in Order |-> Net(filled[o], SideOf[o])])
<1>1. Position = IF sum < 0 THEN [qty |-> 0 - sum, side |-> "short"]
                 ELSE [qty |-> sum, side |-> "long"]
  BY DEF Position
<1>2. sum \in Int
  OBVIOUS
<1> HIDE DEF sum
<1>3. TranslatePosition(Position) = sum
  <2>1. CASE sum < 0
    <3>1. Position.side = "short" /\ Position.qty = 0 - sum
      BY <1>1, <2>1
    <3> QED
      BY <1>2, <3>1 DEF TranslatePosition
  <2>2. CASE ~(sum < 0)
    <3>1. Position.side = "long" /\ Position.qty = sum
      BY <1>1, <2>2
    <3> QED
      BY <3>1 DEF TranslatePosition
  <2> QED
    BY <2>1, <2>2
<1> QED
  BY <1>3 DEF sum

\* The sum of integers is one.
LEMMA SignedSumIsInt ==
  ASSUME NEW q, \A o \in Order : q[o] \in Int
  PROVE  SignedSum(q) \in Int
<1> DEFINE f == [o \in Order |-> IF SideOf[o] = "BUY" THEN q[o] ELSE 0 - q[o]]
<1>1. \A o \in Order : f[o] \in Int
  OBVIOUS
<1>2. SignedSum(q) = MapThenSumSet(LAMBDA x : f[x], Order)
  BY DEF SignedSum
<1>3. SignedSum(q) = SumOver(f, Order)
  BY <1>2 DEF SumOver
<1> HIDE DEF f
<1> QED
  BY <1>1, <1>3, AdaptersAssumption, SumIsInt

\* For any orders, callers, prices, fees, failures and restarts, what a caller
\* is told of a rejection and of a fill is true (submit_order, get_order,
\* _on_update, list_positions and _simulate_fill).
THEOREM AnswersStayTrue == Spec => AnswersAreTrue
<1>1. Inv /\ Registered /\ [Next]_vars => [\A c \in Caller : RejectionIsTrue(c)]_vars
  BY RejectionStep
<1>2. Carried => FillsAreTrue
  BY DEF Carried, OrderBalances, FillsAreTrue, TranslateOrder, AlpacaTranslateOrder,
         RobinhoodTranslateOrder
<1>3. Carried => PositionIsTrue
  <2> SUFFICES ASSUME Carried, kind = "alpaca" PROVE PositionIsTrue
    BY DEF PositionIsTrue
  <2> DEFINE f == [o \in Order |-> Net(filled[o], SideOf[o])]
  <2>1. [o \in Order |-> TranslateOrder(o).filled] = f
    BY DEF TranslateOrder, AlpacaTranslateOrder
  <2>2. \A o \in Order : f[o] \in Int
    BY NetAdds DEF Carried
  <2>3. SignedSum(f) \in Int
    <3> HIDE DEF f
    <3> QED
      BY <2>2, SignedSumIsInt
  <2>4. TranslatePosition(Position) = SignedSum(f)
    BY <2>3, PositionIsItsSum
  <2> QED
    BY <2>1, <2>4 DEF PositionIsTrue
<1>4. Stable => PricesAreStable
  <2> SUFFICES ASSUME Stable, NEW i \in DryId, i \notin raced
               PROVE  Cardinality(shown[i]) <= 1
    BY DEF PricesAreStable
  <2>1. \A p, q \in shown[i] : p = q
    BY DEF Stable, StableId
  <2>2. shown[i] = {} \/ \E p : shown[i] = {p}
    BY <2>1
  <2>3. Cardinality(shown[i]) \in {0, 1}
    BY <2>2, FS_EmptySet, FS_Singleton
  <2> QED
    BY <2>3
<1> QED
  BY <1>1, <1>2, <1>3, <1>4, InitiallyTrue, StepKeeps, RegisteredStep, CarriedStep,
     StableStep, PTL DEF Spec, AnswersAreTrue
=============================================================================
