----------------------------- MODULE OMS_proofs -----------------------------
(***************************************************************************)
(* Theorems about the order management system and the reconciler beside    *)
(* it, for every set of orders, order size and fee.  Types,                *)
(* NeverOverfilled, CrashLosesNothing and IntentBeforeBroker hold with any *)
(* number of retries and every fault, the latter two beside the reconciler *)
(* and the maintenance scripts too; the ledger of fills, PositionIsSound,  *)
(* EndIsFinal, ReconciledOrderAgrees and PolledFillIsMissing under the     *)
(* assumptions their theorems state.  The reconciler's liveness properties *)
(* follow at the end from what its thread comes to again and again         *)
(* (PassesCompare, OpenOrdersAreAsked) and, for DifferenceIsNoticed, with  *)
(* finitely many orders, from TradingEnds.                                 *)
(***************************************************************************)
EXTENDS Reconciler, SumTheorems, TLAPS

-----------------------------------------------------------------------------
(* What the handlers return and what they do to the quantities *)

\* Triggering the lifecycle FSM, with or without an arc, gives a state.
LEMMA TriggerType ==
  ASSUME NEW s \in OrderState, NEW e
  PROVE  Trigger(s, e) \in OrderState
<1>1. CASE CanTrigger(s, e)
  <2>1. \E to \in OrderState : <<s, e, to>> \in Arcs
    BY <1>1 DEF CanTrigger
  <2>2. (CHOOSE to \in OrderState : <<s, e, to>> \in Arcs) \in OrderState
    BY <2>1
  <2>. QED  BY <1>1, <2>2 DEF Trigger
<1>2. CASE ~CanTrigger(s, e)
  BY <1>2 DEF Trigger
<1>. QED  BY <1>1, <1>2

\* Forcing a replayed state keeps the record's type and its quantities.
LEMMA ForceType ==
  ASSUME NEW r \in OrderRec, NEW e, NEW s \in OrderState
  PROVE  /\ ForceState(r, e, s) \in OrderRec
         /\ ForceState(r, e, s).filled = r.filled
         /\ ForceState(r, e, s).fills = r.fills
         /\ ForceState(r, e, s).bid = r.bid
         /\ ForceState(r, e, s).fsm = Trigger(r.fsm, e)
         /\ ForceState(r, e, s).state = s
<1>1. Trigger(r.fsm, e) \in OrderState
  BY TriggerType DEF OrderRec
<1>. QED  BY <1>1 DEF ForceState, OrderRec

\* Replaying an intent: a new snapshot, except for the fills already listed.
LEMMA ApplyIntent ==
  ASSUME NEW r \in OrderRec
  PROVE  LET d == ApplyLoggedEvent(r, "SUBMIT_INTENT", 0)
         IN  /\ d \in OrderRec /\ d.state = "SUBMITTED"
             /\ d.fsm = Trigger("PENDING", "SUBMIT") /\ d.bid = FALSE
             /\ d.filled = 0 /\ d.fills = r.fills
<1>. DEFINE d == ApplyLoggedEvent(r, "SUBMIT_INTENT", 0)
<1>1. Trigger("PENDING", "SUBMIT") \in OrderState
  BY TriggerType DEF OrderState
<1>2. d = [state |-> "SUBMITTED", fsm |-> Trigger("PENDING", "SUBMIT"),
           bid |-> FALSE, mapped |-> r.mapped, filled |-> 0, fills |-> r.fills]
  BY DEF ApplyLoggedEvent, OrderRec
<1>. HIDE DEF d
<1>3. d \in OrderRec
  <2>1. "SUBMITTED" \in OrderState \cup {"NONE"}
    BY DEF OrderState
  <2>. QED  BY <1>1, <1>2, <2>1 DEF OrderRec
<1>4. /\ d.filled = 0 /\ d.fills = r.fills /\ d.state = "SUBMITTED"
      /\ d.bid = FALSE /\ d.fsm = Trigger("PENDING", "SUBMIT")
  BY <1>2
<1>. QED  BY <1>3, <1>4 DEF d

\* Replaying an acceptance: the broker id, and no quantity.
LEMMA ApplyAccepted ==
  ASSUME NEW r \in OrderRec
  PROVE  LET d == ApplyLoggedEvent(r, "ACCEPTED", 0)
         IN  /\ d \in OrderRec /\ d.state # "NONE"
             /\ d.fsm = Trigger(r.fsm, "ACCEPT") /\ d.bid = TRUE
             /\ d.filled = r.filled /\ d.fills = r.fills
<1>. DEFINE b == [r EXCEPT !.bid = TRUE, !.mapped = TRUE]
            d == ApplyLoggedEvent(r, "ACCEPTED", 0)
<1>1. /\ b \in OrderRec /\ b.filled = r.filled /\ b.fills = r.fills
      /\ b.bid = TRUE /\ b.fsm = r.fsm
  BY DEF OrderRec
<1>2. d = ForceState(b, "ACCEPT", "ACCEPTED")
  BY DEF ApplyLoggedEvent
<1>. HIDE DEF b, d
<1>3. /\ d \in OrderRec /\ d.state # "NONE"
      /\ d.fsm = Trigger(r.fsm, "ACCEPT") /\ d.bid = TRUE
      /\ d.filled = r.filled /\ d.fills = r.fills
  BY <1>1, <1>2, ForceType DEF OrderState
<1>. QED  BY <1>3 DEF d

\* Replaying an end without a quantity changes state and FSM only.
LEMMA ApplyEnd ==
  ASSUME NEW r \in OrderRec, NEW k, NEW e,
         \/ k = "CANCELLED" /\ e = "CANCEL"
         \/ k = "REJECTED" /\ e = "REJECT"
         \/ k = "EXPIRED" /\ e = "EXPIRE"
  PROVE  LET d == ApplyLoggedEvent(r, k, 0)
         IN  /\ d \in OrderRec /\ d.state # "NONE"
             /\ d.fsm = Trigger(r.fsm, e) /\ d.bid = r.bid
             /\ d.filled = r.filled /\ d.fills = r.fills
<1>. DEFINE d == ApplyLoggedEvent(r, k, 0)
<1>1. \E s \in OrderState : d = ForceState(r, e, s)
  BY DEF ApplyLoggedEvent, OrderState
<1>2. "NONE" \notin OrderState
  BY DEF OrderState
<1>. HIDE DEF d
<1>3. /\ d \in OrderRec /\ d.state # "NONE"
      /\ d.fsm = Trigger(r.fsm, e) /\ d.bid = r.bid
      /\ d.filled = r.filled /\ d.fills = r.fills
  BY <1>1, <1>2, ForceType
<1>. QED  BY <1>3 DEF d

\* The FSM event of a fill, once the order's filled_qty is m.
FillEvent(m) == IF IsFullyFilled(m) THEN "FULL_FILL" ELSE "PARTIAL_FILL"

\* Replaying a fill adds its quantity to filled_qty and to the fills.
LEMMA ApplyFill ==
  ASSUME NEW r \in OrderRec, NEW n \in Nat
  PROVE  LET d == ApplyLoggedEvent(r, "FILL_RECEIVED", n)
         IN  /\ d \in OrderRec /\ d.state # "NONE"
             /\ d.fsm = Trigger(r.fsm, FillEvent(r.filled + n))
             /\ d.bid = r.bid
             /\ d.filled = r.filled + n /\ d.fills = r.fills + n
<1>. DEFINE f == [r EXCEPT !.filled = @ + n, !.fills = @ + n]
            d == ApplyLoggedEvent(r, "FILL_RECEIVED", n)
<1>1. /\ f \in OrderRec /\ f.filled = r.filled + n /\ f.fills = r.fills + n
      /\ f.bid = r.bid /\ f.fsm = r.fsm
  <2>1. r.filled \in Nat /\ r.fills \in Nat
    BY DEF OrderRec
  <2>2. r.filled + n \in Nat /\ r.fills + n \in Nat
    BY <2>1
  <2>3. f.filled = r.filled + n
    BY DEF OrderRec
  <2>4. f.fills = r.fills + n
    BY DEF OrderRec
  <2>5. f \in OrderRec
    BY <2>2 DEF OrderRec
  <2>6. f.bid = r.bid /\ f.fsm = r.fsm
    BY DEF OrderRec
  <2>. QED  BY <2>3, <2>4, <2>5, <2>6
<1>2. d = IF IsFullyFilled(f.filled) THEN ForceState(f, "FULL_FILL", "FILLED")
                                     ELSE ForceState(f, "PARTIAL_FILL", "PARTIAL")
  BY DEF ApplyLoggedEvent
<1>. HIDE DEF f, d
<1>3. /\ d \in OrderRec /\ d.state # "NONE"
      /\ d.fsm = Trigger(r.fsm, FillEvent(r.filled + n))
      /\ d.bid = r.bid
      /\ d.filled = r.filled + n /\ d.fills = r.fills + n
  BY <1>1, <1>2, ForceType DEF OrderState, FillEvent
<1>. QED  BY <1>3 DEF d

\* A live transition changes state and FSM only.
LEMMA TransitionType ==
  ASSUME NEW p \in Book, NEW e
  PROVE  /\ Transition(p, e) \in Book
         /\ Transition(p, e).dur = p.dur
         /\ Transition(p, e).live.filled = p.live.filled
         /\ Transition(p, e).live.fills = p.live.fills
         /\ Transition(p, e).live.bid = p.live.bid
         /\ Transition(p, e).live.fsm = Trigger(p.live.fsm, e)
         /\ p.live.state # "NONE" => Transition(p, e).live.state # "NONE"
<1>1. Trigger(p.live.fsm, e) \in OrderState
  BY TriggerType DEF Book, OrderRec
<1>2. CASE CanTrigger(p.live.fsm, e)
  <2>. DEFINE s == Trigger(p.live.fsm, e)
              r == [p.live EXCEPT !.fsm = s, !.state = s]
  <2>1. p.live \in OrderRec /\ p.dur \in OrderRec
    BY DEF Book
  <2>2. Transition(p, e) = [p EXCEPT !.live = r]
    BY <1>2 DEF Transition, Book, OrderRec
  <2>3. r \in OrderRec
    BY <1>1, <2>1 DEF OrderRec
  <2>4. /\ r.filled = p.live.filled /\ r.fills = p.live.fills
        /\ r.bid = p.live.bid /\ r.fsm = s /\ r.state = s
    BY <2>1 DEF OrderRec
  <2>5. s # "NONE"
    BY <1>1 DEF OrderState
  <2>. HIDE DEF r
  <2>. QED  BY <2>2, <2>3, <2>4, <2>5 DEF Book
<1>3. CASE ~CanTrigger(p.live.fsm, e)
  BY <1>3 DEF Transition, Trigger
<1>. QED  BY <1>2, <1>3

\* An append changes the durable record only.
LEMMA AppendType ==
  ASSUME NEW p \in Book, NEW k, NEW n,
         ApplyLoggedEvent(p.dur, k, n) \in OrderRec
  PROVE  /\ Append1(p, k, n) \in Book
         /\ Append1(p, k, n).live = p.live
         /\ Append1(p, k, n).dur = ApplyLoggedEvent(p.dur, k, n)
BY DEF Append1, Book

\* FILLED has no outgoing arc.
LEMMA FilledIsStuck == \A e : Trigger("FILLED", e) = "FILLED"
BY DEF Trigger, CanTrigger, Arcs

\* The only arcs of FULL_FILL lead to FILLED.
LEMMA FullFillArc ==
  ASSUME NEW s \in OrderState, CanTrigger(s, "FULL_FILL")
  PROVE  Trigger(s, "FULL_FILL") = "FILLED"
<1>1. \E to \in OrderState : <<s, "FULL_FILL", to>> \in Arcs
  BY DEF CanTrigger
<1>2. \A to \in OrderState : <<s, "FULL_FILL", to>> \in Arcs => to = "FILLED"
  BY DEF Arcs
<1>3. (CHOOSE to \in OrderState : <<s, "FULL_FILL", to>> \in Arcs) = "FILLED"
  BY <1>1, <1>2
<1>. QED  BY <1>3 DEF Trigger

-----------------------------------------------------------------------------
(* What the handlers do to the pair of records *)

\* A handler books n units, n = 0 where there is no fill, in the live record
\* and in the log alike, keeps their agreement, and forgets no order in either.
Books(p, q, n) ==
  /\ q \in Book
  /\ q.live.filled = p.live.filled + n /\ q.live.fills = p.live.fills + n
  /\ q.dur.filled = p.dur.filled + n /\ q.dur.fills = p.dur.fills + n
  /\ Agree(p) => Agree(q)
  /\ q.dur = p.dur \/ q.dur.state # "NONE"
  /\ p.live.state # "NONE" => q.live.state # "NONE"

\* A handler that does nothing books nothing.
LEMMA BooksNothing == ASSUME NEW p \in Book PROVE Books(p, p, 0)
BY DEF Books, Book, OrderRec

\* The quantities two handlers book one after the other add up.
LEMMA BooksTwice ==
  ASSUME NEW p \in Book, NEW q, NEW r, NEW n \in Nat, NEW m \in Nat,
         Books(p, q, n), Books(q, r, m)
  PROVE  Books(p, r, n + m)
<1>1. /\ p.live.filled \in Nat /\ p.live.fills \in Nat
      /\ p.dur.filled \in Nat /\ p.dur.fills \in Nat
  BY DEF Book, OrderRec
<1>2. /\ r.live.filled = p.live.filled + (n + m)
      /\ r.live.fills = p.live.fills + (n + m)
      /\ r.dur.filled = p.dur.filled + (n + m)
      /\ r.dur.fills = p.dur.fills + (n + m)
  BY <1>1 DEF Books
<1>. QED  BY <1>2 DEF Books

\* An append followed by the FSM event its replay triggers, for the three
\* ends of an order that carry no quantity.
LEMMA EndBooks ==
  ASSUME NEW p \in Book, NEW k, NEW e,
         \/ k = "CANCELLED" /\ e = "CANCEL"
         \/ k = "REJECTED" /\ e = "REJECT"
         \/ k = "EXPIRED" /\ e = "EXPIRE"
  PROVE  Books(p, Transition(Append1(p, k, 0), e), 0)
<1>. DEFINE d == ApplyLoggedEvent(p.dur, k, 0)
            a == Append1(p, k, 0)
            q == Transition(a, e)
<1>1. p.dur \in OrderRec /\ p.live \in OrderRec
  BY DEF Book
<1>2. /\ d \in OrderRec /\ d.state # "NONE"
      /\ d.filled = p.dur.filled /\ d.fills = p.dur.fills
      /\ d.bid = p.dur.bid /\ d.fsm = Trigger(p.dur.fsm, e)
  BY <1>1, ApplyEnd
<1>3. a \in Book /\ a.live = p.live /\ a.dur = d
  BY <1>2, AppendType
<1>. HIDE DEF d, a
<1>4. /\ q \in Book /\ q.dur = d
      /\ q.live.filled = p.live.filled /\ q.live.fills = p.live.fills
      /\ q.live.bid = p.live.bid /\ q.live.fsm = Trigger(p.live.fsm, e)
      /\ p.live.state # "NONE" => q.live.state # "NONE"
  BY <1>3, TransitionType
<1>. HIDE DEF q
<1>5. Agree(p) => Agree(q)
  BY <1>2, <1>4, FilledIsStuck DEF Agree
<1>6. /\ p.live.filled \in Nat /\ p.live.fills \in Nat
      /\ p.dur.filled \in Nat /\ p.dur.fills \in Nat
  BY <1>1 DEF OrderRec
<1>. QED  BY <1>2, <1>4, <1>5, <1>6 DEF Books, q, a

\* A cancellation, rejection or expiry books nothing.
LEMMA EndHandlersBook ==
  ASSUME NEW p \in Book
  PROVE  /\ Books(p, HandleCancellation(p), 0)
         /\ Books(p, HandleRejection(p), 0)
         /\ Books(p, HandleExpiry(p), 0)
BY EndBooks, BooksNothing
   DEF HandleCancellation, HandleRejection, HandleExpiry

\* Recording the broker id books nothing.
LEMMA RecordAcceptedBooks ==
  ASSUME NEW p \in Book
  PROVE  Books(p, RecordAccepted(p), 0)
<1>1. CASE p.live.bid
  BY <1>1, BooksNothing DEF RecordAccepted
<1>2. CASE ~p.live.bid
  <2>. DEFINE d == ApplyLoggedEvent(p.dur, "ACCEPTED", 0)
              a == Append1(p, "ACCEPTED", 0)
              b == [a EXCEPT !.live.bid = TRUE, !.live.mapped = TRUE]
              q == Transition(b, "ACCEPT")
  <2>1. p.dur \in OrderRec /\ p.live \in OrderRec
    BY DEF Book
  <2>2. /\ d \in OrderRec /\ d.state # "NONE"
        /\ d.filled = p.dur.filled /\ d.fills = p.dur.fills
        /\ d.bid = TRUE /\ d.fsm = Trigger(p.dur.fsm, "ACCEPT")
    BY <2>1, ApplyAccepted
  <2>3. a \in Book /\ a.live = p.live /\ a.dur = d
    BY <2>2, AppendType
  <2>4. RecordAccepted(p) = q
    BY <1>2 DEF RecordAccepted
  <2>. HIDE DEF d, a
  <2>5. /\ b \in Book /\ b.dur = d
        /\ b.live.filled = p.live.filled /\ b.live.fills = p.live.fills
        /\ b.live.bid = TRUE /\ b.live.fsm = p.live.fsm
        /\ b.live.state = p.live.state
    BY <2>3 DEF Book, OrderRec
  <2>. HIDE DEF b
  <2>6. /\ q \in Book /\ q.dur = d
        /\ q.live.filled = p.live.filled /\ q.live.fills = p.live.fills
        /\ q.live.bid = TRUE /\ q.live.fsm = Trigger(p.live.fsm, "ACCEPT")
        /\ p.live.state # "NONE" => q.live.state # "NONE"
    BY <2>5, TransitionType
  <2>. HIDE DEF q
  <2>7. Agree(p) => Agree(q)
    BY <2>2, <2>6, FilledIsStuck DEF Agree
  <2>8. /\ p.live.filled \in Nat /\ p.live.fills \in Nat
        /\ p.dur.filled \in Nat /\ p.dur.fills \in Nat
    BY <2>1 DEF OrderRec
  <2>9. Books(p, q, 0)
    BY <2>2, <2>6, <2>7, <2>8 DEF Books
  <2>. QED  BY <2>4, <2>9
<1>. QED  BY <1>1, <1>2

\* A fill of n units books n units.
LEMMA HandleFillBooks ==
  ASSUME NEW p \in Book, NEW n \in Nat
  PROVE  Books(p, HandleFill(p, n), n)
<1>. DEFINE d == ApplyLoggedEvent(p.dur, "FILL_RECEIVED", n)
            a == Append1(p, "FILL_RECEIVED", n)
            r == [a EXCEPT !.live.filled = @ + n, !.live.fills = @ + n]
            e == FillEvent(r.live.filled)
            q == Transition(r, e)
<1>1. /\ p.dur \in OrderRec /\ p.live \in OrderRec
      /\ p.live.filled \in Nat /\ p.live.fills \in Nat
      /\ p.live.filled + n \in Nat /\ p.live.fills + n \in Nat
  BY DEF Book, OrderRec
<1>2. /\ d \in OrderRec /\ d.state # "NONE"
      /\ d.filled = p.dur.filled + n /\ d.fills = p.dur.fills + n
      /\ d.bid = p.dur.bid
      /\ d.fsm = Trigger(p.dur.fsm, FillEvent(p.dur.filled + n))
  BY <1>1, ApplyFill
<1>3. a \in Book /\ a.live = p.live /\ a.dur = d
  BY <1>2, AppendType
<1>4. HandleFill(p, n) = q
  BY DEF HandleFill, FillEvent
<1>. HIDE DEF d, a
<1>5. /\ r.live.filled = p.live.filled + n
      /\ r.live.fills = p.live.fills + n
      /\ r.live.bid = p.live.bid /\ r.live.fsm = p.live.fsm /\ r.dur = d
      /\ r.live.state = p.live.state
  BY <1>1, <1>3 DEF Book, OrderRec
<1>6. r \in Book
  <2>. DEFINE l == [p.live EXCEPT !.filled = @ + n, !.fills = @ + n]
  <2>1. l \in OrderRec
    BY <1>1 DEF OrderRec
  <2>2. r = [a EXCEPT !.live = l]
    BY <1>3 DEF Book, OrderRec
  <2>. QED  BY <1>3, <2>1, <2>2 DEF Book
<1>. HIDE DEF r
<1>7. /\ q \in Book /\ q.dur = d
      /\ q.live.filled = p.live.filled + n /\ q.live.fills = p.live.fills + n
      /\ q.live.bid = p.live.bid /\ q.live.fsm = Trigger(p.live.fsm, e)
      /\ p.live.state # "NONE" => q.live.state # "NONE"
  BY <1>5, <1>6, TransitionType
<1>8. Agree(p) => Agree(q)
  BY <1>2, <1>5, <1>7, FilledIsStuck DEF Agree
<1>. HIDE DEF q
<1>9. Books(p, q, n)
  BY <1>2, <1>7, <1>8 DEF Books
<1>. QED  BY <1>4, <1>9

\* force_close_filled books nothing: it only moves the live FSM, to FILLED.
LEMMA ForceCloseBooks ==
  ASSUME NEW p \in Book
  PROVE  Books(p, ForceCloseFilled(p), 0)
<1>. DEFINE q == Transition(p, "FULL_FILL")
<1>1. CASE p.live.state \in TerminalStates \/ ~CanTrigger(p.live.fsm, "FULL_FILL")
  BY <1>1, BooksNothing DEF ForceCloseFilled, Transition
<1>2. CASE ~(p.live.state \in TerminalStates) /\ CanTrigger(p.live.fsm, "FULL_FILL")
  <2>1. ForceCloseFilled(p) = q
    BY <1>2 DEF ForceCloseFilled
  <2>2. p.live.fsm \in OrderState
    BY DEF Book, OrderRec
  <2>3. Trigger(p.live.fsm, "FULL_FILL") = "FILLED"
    BY <1>2, <2>2, FullFillArc
  <2>4. /\ q \in Book /\ q.dur = p.dur
        /\ q.live.filled = p.live.filled /\ q.live.fills = p.live.fills
        /\ q.live.bid = p.live.bid /\ q.live.fsm = "FILLED"
        /\ p.live.state # "NONE" => q.live.state # "NONE"
    BY <2>3, TransitionType
  <2>. HIDE DEF q
  <2>5. Agree(p) => Agree(q)
    BY <2>4 DEF Agree
  <2>6. /\ p.live.filled \in Nat /\ p.live.fills \in Nat
        /\ p.dur.filled \in Nat /\ p.dur.fills \in Nat
    BY DEF Book, OrderRec
  <2>7. Books(p, q, 0)
    BY <2>4, <2>5, <2>6 DEF Books
  <2>. QED  BY <2>1, <2>7
<1>. QED  BY <1>1, <1>2

\* A broker event books its quantity or nothing.
LEMMA OnBrokerEventBooks ==
  ASSUME NEW p \in Book, NEW e \in BrokerEvent, Qty \in Nat
  PROVE  \E n \in {0, e.qty} : Books(p, OnBrokerEvent(p, e), n)
<1>1. e.qty \in Nat /\ e.state \in BrokerState \ {"NONE"}
  BY DEF BrokerEvent
<1>2. CASE p.live.state = "NONE"
  BY <1>2, BooksNothing DEF OnBrokerEvent
<1>3. CASE p.live.state # "NONE" /\ e.state = "ACCEPTED"
  BY <1>3, BooksNothing, RecordAcceptedBooks DEF OnBrokerEvent
<1>4. CASE p.live.state # "NONE" /\ e.state \in {"PARTIALLY_FILLED", "FILLED"}
  BY <1>1, <1>4, HandleFillBooks DEF OnBrokerEvent
<1>5. CASE p.live.state # "NONE" /\ e.state = "CANCELED"
  BY <1>5, EndHandlersBook DEF OnBrokerEvent
<1>6. CASE p.live.state # "NONE" /\ e.state = "REJECTED"
  BY <1>6, EndHandlersBook DEF OnBrokerEvent
<1>7. CASE p.live.state # "NONE" /\ e.state = "EXPIRED"
  BY <1>7, EndHandlersBook DEF OnBrokerEvent
<1>. QED  BY <1>1, <1>2, <1>3, <1>4, <1>5, <1>6, <1>7 DEF BrokerState

\* The fill stage of a catch-up closes the gap to the broker's quantity.
LEMMA CatchUpFillBooks ==
  ASSUME NEW p \in Book, NEW b \in BrokerRec, Qty \in Nat
  PROVE  \E n \in Nat : /\ Books(p, CatchUpFill(p, b), n)
                        /\ p.live.filled <= b.filled
                             => n = b.filled - p.live.filled
<1>. DEFINE q == RecordAccepted(p)
            m == b.filled - q.live.filled
<1>1. p.live.filled \in Nat /\ b.filled \in Nat
  BY DEF Book, OrderRec, BrokerRec
<1>2. Books(p, q, 0) /\ q \in Book /\ q.live.filled = p.live.filled
  BY <1>1, RecordAcceptedBooks DEF Books
<1>. HIDE DEF q
<1>3. CASE b.filled > q.live.filled
  <2>1. m \in Nat /\ 0 + m = m
    BY <1>1, <1>2, <1>3
  <2>2. CatchUpFill(p, b) = HandleFill(q, m)
    BY <1>3 DEF CatchUpFill, q
  <2>. HIDE DEF m
  <2>3. Books(q, HandleFill(q, m), m)
    BY <1>2, <2>1, HandleFillBooks
  <2>4. Books(p, HandleFill(q, m), 0 + m)
    BY <1>2, <2>1, <2>3, BooksTwice
  <2>. QED  BY <1>2, <2>1, <2>2, <2>4 DEF m
<1>4. CASE ~(b.filled > q.live.filled)
  <2>1. CatchUpFill(p, b) = q
    BY <1>4 DEF CatchUpFill, q
  <2>. QED  BY <1>1, <1>2, <1>4, <2>1
<1>. QED  BY <1>3, <1>4

\* So does the whole catch-up: its last stage books nothing.
LEMMA CatchUpBooks ==
  ASSUME NEW p \in Book, NEW b \in BrokerRec, Qty \in Nat,
         b.state # "NONE"
  PROVE  \E n \in Nat : /\ Books(p, CatchUpFromBroker(p, b), n)
                        /\ p.live.filled <= b.filled
                             => n = b.filled - p.live.filled
<1>. DEFINE q == CatchUpFill(p, b)
            r == CatchUpFromBroker(p, b)
<1>1. PICK n \in Nat : /\ Books(p, q, n)
                       /\ p.live.filled <= b.filled
                            => n = b.filled - p.live.filled
  BY CatchUpFillBooks
<1>2. q \in Book
  BY <1>1 DEF Books
<1>3. b.state \in BrokerState \ {"NONE"}
  BY DEF BrokerRec
<1>4. \/ r = HandleCancellation(q) \/ r = HandleRejection(q)
      \/ r = HandleExpiry(q) \/ r = ForceCloseFilled(q) \/ r = q
  BY <1>3 DEF CatchUpFromBroker, BrokerState
<1>. HIDE DEF q
<1>5. Books(q, r, 0)
  BY <1>2, <1>4, EndHandlersBook, ForceCloseBooks, BooksNothing
<1>6. Books(p, r, n + 0)
  BY <1>1, <1>5, BooksTwice
<1>7. n + 0 = n
  OBVIOUS
<1>. QED  BY <1>1, <1>6, <1>7

-----------------------------------------------------------------------------
(* The invariant: its parts about the event stream *)

\* What the parts below need of the types.
LEMMA StreamTypes ==
  ASSUME TypeOK, NEW o \in Order
  PROVE  /\ stream[o] \in Seq(BrokerEvent)
         /\ durable[o] \in OrderRec /\ mem[o] \in OrderRec
         /\ durable[o].filled \in Nat
         /\ broker[o] \in BrokerRec /\ broker[o].filled \in Nat
         /\ Pair(o) \in Book
<1>1. Qty \in Nat
  BY QtyAssumption
<1>2. broker[o] \in BrokerRec /\ mem[o] \in OrderRec /\ durable[o] \in OrderRec
  BY DEF TypeOK
<1>3. broker[o].filled \in Nat
  BY <1>1, <1>2 DEF BrokerRec
<1>4. durable[o].filled \in Nat
  BY <1>2 DEF OrderRec
<1>. QED  BY <1>2, <1>3, <1>4 DEF TypeOK, Pair, Book

\* The quantities of an event are numbers.
LEMMA EventTypes ==
  ASSUME NEW s \in Seq(BrokerEvent), NEW i \in DOMAIN s
  PROVE  s[i] \in BrokerEvent /\ s[i].upto \in Nat /\ s[i].qty \in Nat
<1>1. s[i] \in BrokerEvent
  OBVIOUS
<1>2. s[i].upto \in 0..Qty /\ s[i].qty \in 0..Qty
  BY <1>1 DEF BrokerEvent
<1>. QED  BY <1>1, <1>2

\* No event, nothing to show.
LEMMA StreamEmpty ==
  ASSUME NEW o \in Order, stream'[o] = <<>>
  PROVE  StreamIsAhead(o)'
BY DEF StreamIsAhead

\* The stream stays ahead when the broker executes more or the log counts less.
LEMMA StreamKept ==
  ASSUME TypeOK, TypeOK', NEW o \in Order, StreamIsAhead(o),
         stream'[o] = stream[o], broker'[o].filled >= broker[o].filled,
         durable'[o].filled <= durable[o].filled
  PROVE  StreamIsAhead(o)'
<1>1. /\ stream[o] \in Seq(BrokerEvent)
      /\ durable[o].filled \in Nat /\ broker[o].filled \in Nat
  BY StreamTypes
<1>2. durable'[o].filled \in Nat /\ broker'[o].filled \in Nat
  BY QtyAssumption DEF TypeOK, OrderRec, BrokerRec
<1>3. ASSUME NEW i \in DOMAIN stream[o]
      PROVE  /\ stream[o][i].upto <= broker'[o].filled
             /\ durable'[o].filled + stream[o][i].qty <= stream[o][i].upto
             /\ \A j \in 1..(i - 1) :
                  stream[o][j].upto + stream[o][i].qty <= stream[o][i].upto
  <2>1. stream[o][i].upto \in Nat /\ stream[o][i].qty \in Nat
    BY <1>1, EventTypes
  <2>2. /\ stream[o][i].upto <= broker[o].filled
        /\ durable[o].filled + stream[o][i].qty <= stream[o][i].upto
        /\ \A j \in 1..(i - 1) :
             stream[o][j].upto + stream[o][i].qty <= stream[o][i].upto
    BY DEF StreamIsAhead
  <2>3. stream[o][i].upto <= broker'[o].filled
    BY <1>1, <1>2, <2>1, <2>2
  <2>4. durable'[o].filled + stream[o][i].qty <= stream[o][i].upto
    BY <1>1, <1>2, <2>1, <2>2
  <2>. QED  BY <2>2, <2>3, <2>4
<1>. QED  BY <1>3 DEF StreamIsAhead

\* It stays ahead when its first event is taken off and at most that event's
\* quantity is counted.
LEMMA StreamTail ==
  ASSUME TypeOK, TypeOK', NEW o \in Order, StreamIsAhead(o),
         stream[o] # <<>>, stream'[o] = Tail(stream[o]),
         broker'[o].filled = broker[o].filled,
         durable'[o].filled <= durable[o].filled + Head(stream[o]).qty
  PROVE  StreamIsAhead(o)'
<1>. DEFINE s == stream[o]
<1>1. /\ s \in Seq(BrokerEvent)
      /\ durable[o].filled \in Nat /\ broker[o].filled \in Nat
  BY StreamTypes
<1>2. durable'[o].filled \in Nat
  BY DEF TypeOK, OrderRec
<1>3. \A i \in DOMAIN s : s[i].upto \in Nat /\ s[i].qty \in Nat
  BY <1>1, EventTypes
<1>4. /\ 1 \in DOMAIN s /\ Head(s) = s[1]
      /\ \A i \in DOMAIN Tail(s) : i \in Nat \ {0} /\ i + 1 \in DOMAIN s
                                   /\ Tail(s)[i] = s[i + 1]
  BY <1>1
<1>5. \A i \in DOMAIN s :
        /\ s[i].upto <= broker[o].filled
        /\ durable[o].filled + s[i].qty <= s[i].upto
        /\ \A j \in 1..(i - 1) : s[j].upto + s[i].qty <= s[i].upto
  BY DEF StreamIsAhead
<1>. HIDE DEF s
<1>6. durable'[o].filled <= s[1].upto
  BY <1>1, <1>2, <1>3, <1>4, <1>5 DEF s
<1>7. ASSUME NEW i \in DOMAIN Tail(s)
      PROVE  /\ Tail(s)[i].upto <= broker'[o].filled
             /\ durable'[o].filled + Tail(s)[i].qty <= Tail(s)[i].upto
             /\ \A j \in 1..(i - 1) :
                  Tail(s)[j].upto + Tail(s)[i].qty <= Tail(s)[i].upto
  <2>1. /\ i \in Nat \ {0} /\ i + 1 \in DOMAIN s /\ Tail(s)[i] = s[i + 1]
        /\ 1 \in 1..((i + 1) - 1)
    BY <1>4
  <2>2. s[1].upto + s[i + 1].qty <= s[i + 1].upto
    BY <1>5, <2>1
  <2>3. durable'[o].filled + s[i + 1].qty <= s[i + 1].upto
    BY <1>2, <1>3, <1>4, <1>6, <2>1, <2>2
  <2>4. ASSUME NEW j \in 1..(i - 1)
        PROVE  Tail(s)[j].upto + Tail(s)[i].qty <= Tail(s)[i].upto
    <3>1. i \in 1..Len(Tail(s)) /\ j \in DOMAIN Tail(s)
      BY <1>1 DEF s
    <3>2. j + 1 \in 1..((i + 1) - 1) /\ Tail(s)[j] = s[j + 1]
      BY <1>4, <2>1, <3>1
    <3>. QED  BY <1>5, <2>1, <3>2
  <2>. QED  BY <1>5, <2>1, <2>3, <2>4
<1>. QED  BY <1>7 DEF StreamIsAhead, s

\* Publishing an event concerns one stream, and only while somebody listens.
LEMMA EmitType ==
  ASSUME TypeOK, NEW o \in Order, NEW st \in BrokerState \ {"NONE"},
         NEW qty \in 0..Qty, NEW upto \in 0..Qty,
         Emit(o, st, qty, upto)
  PROVE  /\ stream' \in [Order -> Seq(BrokerEvent)]
         /\ \A x \in Order \ {o} : stream'[x] = stream[x]
         /\ mode # "up" => stream' = stream
         /\ mode = "up" =>
              stream'[o] = Append(stream[o], [state |-> st, qty |-> qty,
                                              upto |-> upto])
<1>. DEFINE e == [state |-> st, qty |-> qty, upto |-> upto]
<1>1. e \in BrokerEvent
  BY DEF BrokerEvent
<1>. HIDE DEF e
<1>2. stream' = IF mode = "up"
                THEN [stream EXCEPT ![o] = Append(stream[o], e)] ELSE stream
  BY DEF Emit, e
<1>3. stream \in [Order -> Seq(BrokerEvent)]
  BY DEF TypeOK
<1>4. Append(stream[o], e) \in Seq(BrokerEvent)
  BY <1>1, <1>3
<1>. QED  BY <1>2, <1>3, <1>4 DEF e

\* The stream stays ahead when the broker publishes what it has just executed.
LEMMA StreamEmit ==
  ASSUME TypeOK, TypeOK', NEW o \in Order, StreamIsAhead(o),
         NEW st \in BrokerState \ {"NONE"},
         NEW qty \in 0..Qty, NEW upto \in 0..Qty,
         Emit(o, st, qty, upto), broker[o].filled + qty <= upto,
         upto <= broker'[o].filled, broker'[o].filled >= broker[o].filled,
         durable'[o] = durable[o], durable[o].filled <= broker[o].filled
  PROVE  StreamIsAhead(o)'
<1>1. CASE mode # "up"
  <2>1. stream'[o] = stream[o]
    BY <1>1, EmitType
  <2>2. durable'[o].filled <= durable[o].filled
    BY StreamTypes
  <2>. QED  BY <2>1, <2>2, StreamKept
<1>2. CASE mode = "up"
  <2>. DEFINE s == stream[o]
              e == [state |-> st, qty |-> qty, upto |-> upto]
  <2>1. /\ s \in Seq(BrokerEvent)
        /\ durable[o].filled \in Nat /\ broker[o].filled \in Nat
    BY StreamTypes
  <2>2. broker'[o].filled \in Nat
    BY QtyAssumption DEF TypeOK, BrokerRec
  <2>3. stream'[o] = Append(s, e)
    BY <1>2, EmitType
  <2>4. /\ DOMAIN Append(s, e) = 1..(Len(s) + 1)
        /\ \A i \in 1..Len(s) : Append(s, e)[i] = s[i]
        /\ Append(s, e)[Len(s) + 1] = e
        /\ Len(s) \in Nat /\ DOMAIN s = 1..Len(s)
    BY <2>1
  <2>5. \A i \in DOMAIN s : s[i].upto \in Nat /\ s[i].qty \in Nat
    BY <2>1, EventTypes
  <2>6. \A i \in DOMAIN s :
          /\ s[i].upto <= broker[o].filled
          /\ durable[o].filled + s[i].qty <= s[i].upto
          /\ \A j \in 1..(i - 1) : s[j].upto + s[i].qty <= s[i].upto
    BY DEF StreamIsAhead
  <2>7. e.qty = qty /\ e.upto = upto /\ qty \in Nat /\ upto \in Nat
    OBVIOUS
  <2>. DEFINE t == Append(s, e)
  <2>. HIDE DEF s, e, t
  <2>8. ASSUME NEW i \in 1..Len(s)
        PROVE  /\ t[i].upto <= broker'[o].filled
               /\ durable'[o].filled + t[i].qty <= t[i].upto
               /\ \A j \in 1..(i - 1) : t[j].upto + t[i].qty <= t[i].upto
    <3>1. t[i] = s[i] /\ i \in DOMAIN s /\ \A j \in 1..(i - 1) : t[j] = s[j]
      BY <2>4 DEF t
    <3>2. s[i].upto \in Nat
      BY <2>5, <3>1
    <3>3. s[i].upto <= broker'[o].filled
      BY <2>1, <2>2, <2>6, <3>1, <3>2
    <3>. QED  BY <2>6, <3>1, <3>3
  <2>9. /\ t[Len(s) + 1].upto <= broker'[o].filled
        /\ durable'[o].filled + t[Len(s) + 1].qty <= t[Len(s) + 1].upto
        /\ \A j \in 1..(Len(s) + 1 - 1) :
             t[j].upto + t[Len(s) + 1].qty <= t[Len(s) + 1].upto
    <3>1. t[Len(s) + 1] = e /\ \A j \in 1..(Len(s) + 1 - 1) :
                                  t[j] = s[j] /\ j \in DOMAIN s
      BY <2>4 DEF t
    <3>2. durable'[o].filled + qty <= upto
      BY <2>1, <2>7
    <3>3. ASSUME NEW j \in DOMAIN s PROVE s[j].upto + qty <= upto
      <4>1. s[j].upto <= broker[o].filled /\ s[j].upto \in Nat
        BY <2>5, <2>6
      <4>. QED  BY <2>1, <2>7, <4>1
    <3>. QED  BY <2>7, <3>1, <3>2, <3>3
  <2>10. DOMAIN t = 1..Len(s) \cup {Len(s) + 1}
    BY <2>4 DEF t
  <2>. QED  BY <2>3, <2>8, <2>9, <2>10 DEF StreamIsAhead, t
<1>. QED  BY <1>1, <1>2

-----------------------------------------------------------------------------
(* The invariant: what a step leaves alone *)

\* An order none of whose variables changes keeps its part of the invariant.
LEMMA Untouched ==
  ASSUME TypeOK, TypeOK', NEW x \in Order, OrderInv(x),
         mode' = mode, mem'[x] = mem[x], durable'[x] = durable[x],
         tries'[x] = 0 => tries[x] = 0, broker'[x] = broker[x],
         stream'[x] = stream[x], x \in wire' => x \in wire,
         x = call' => x = call, x \in pending' => x \in pending
  PROVE  OrderInv(x)'
<1>1. StreamIsAhead(x)'
  BY StreamKept, StreamTypes DEF OrderInv
<1>2. Pair(x)' = Pair(x) /\ Agree(Pair(x))' = Agree(Pair(x))
  BY DEF Pair, Agree
<1>. QED  BY <1>1, <1>2 DEF OrderInv

\* Writing back a pair a handler produced.
LEMMA UpdateType ==
  ASSUME TypeOK, NEW o \in Order, NEW q \in Book, Update(o, q)
  PROVE  /\ mem' \in [Order -> OrderRec] /\ durable' \in [Order -> OrderRec]
         /\ mem'[o] = q.live /\ durable'[o] = q.dur /\ Pair(o)' = q
         /\ \A x \in Order \ {o} : /\ mem'[x] = mem[x]
                                   /\ durable'[x] = durable[x]
<1>1. q.live \in OrderRec /\ q.dur \in OrderRec
      /\ q = [live |-> q.live, dur |-> q.dur]
  BY DEF Book
<1>. QED  BY <1>1 DEF Update, TypeOK, Pair

\* submit_order starts the order over, in memory and in the log, and leaves
\* the fills that the log lists.
LEMMA SubmitWrites ==
  ASSUME TypeOK, NEW o \in Order, SubmitOrder(o)
  PROVE  \E q \in Book : /\ Update(o, q)
                         /\ Agree(q)
                         /\ q.dur.filled = 0 /\ q.dur.fills = durable[o].fills
                         /\ q.dur.state # "NONE" /\ q.live.fills = 0
<1>. DEFINE d == ApplyLoggedEvent(durable[o], "SUBMIT_INTENT", 0)
            p == Append1(Pair(o), "SUBMIT_INTENT", 0)
            u == Pending(mem[o].mapped)
            f == [p EXCEPT !.live = u]
            q == Transition(f, "SUBMIT")
<1>1. Pair(o) \in Book /\ mem[o] \in OrderRec /\ durable[o] \in OrderRec
  BY StreamTypes
<1>2. Pair(o).dur = durable[o]
  BY DEF Pair
<1>3. /\ d \in OrderRec /\ d.state = "SUBMITTED" /\ d.bid = FALSE
      /\ d.fsm = Trigger("PENDING", "SUBMIT")
      /\ d.filled = 0 /\ d.fills = durable[o].fills
  BY <1>1, ApplyIntent
<1>4. p \in Book /\ p.dur = d
  BY <1>1, <1>2, <1>3, AppendType
<1>5. /\ u \in OrderRec /\ u.fsm = "PENDING" /\ u.bid = FALSE
      /\ u.filled = 0 /\ u.fills = 0
  <2>1. u = [state |-> "PENDING", fsm |-> "PENDING", bid |-> FALSE,
             mapped |-> mem[o].mapped, filled |-> 0, fills |-> 0]
    BY DEF Pending
  <2>2. "PENDING" \in OrderState /\ mem[o].mapped \in BOOLEAN
    BY <1>1 DEF OrderState, OrderRec
  <2>. HIDE DEF u
  <2>. QED  BY <2>1, <2>2 DEF OrderRec
<1>6. Update(o, q)
  BY DEF SubmitOrder
<1>. HIDE DEF d, p, u
<1>7. f \in Book /\ f.dur = d /\ f.live = u
  BY <1>4, <1>5 DEF Book
<1>. HIDE DEF f
<1>8. /\ q \in Book /\ q.dur = d /\ q.live.filled = 0 /\ q.live.bid = FALSE
      /\ q.live.fsm = Trigger("PENDING", "SUBMIT") /\ q.live.fills = 0
  BY <1>5, <1>7, TransitionType
<1>. HIDE DEF q
<1>. QED  BY <1>3, <1>6, <1>8 DEF Agree

-----------------------------------------------------------------------------
(* Every step preserves the types *)

\* Writing a handler's result for one order keeps memory and log well typed.
LEMMA BooksUpdateType ==
  ASSUME TypeOK, NEW o \in Order, NEW n, NEW q, Books(Pair(o), q, n),
         Update(o, q)
  PROVE  mem' \in [Order -> OrderRec] /\ durable' \in [Order -> OrderRec]
BY UpdateType DEF Books

\* The empty OMS is well typed.
LEMMA TypeInit == ASSUME Init PROVE TypeOK
<1>1. Unknown \in OrderRec
  BY DEF Unknown, OrderRec, OrderState
<1>2. [state |-> "NONE", filled |-> 0] \in BrokerRec
  BY QtyAssumption DEF BrokerRec, BrokerState
<1>3. 0 \in 0..MaxTries /\ <<>> \in Seq(BrokerEvent)
  BY TriesAssumption
<1>. QED  BY <1>1, <1>2, <1>3 DEF Init, TypeOK

\* Every step of the OMS, the broker and the environment keeps the types.
LEMMA TypeStep == ASSUME TypeOK, [Next]_vars PROVE TypeOK'
<1>1. ASSUME NEW o \in Order, SubmitOrder(o) PROVE TypeOK'
  <2>1. mem' \in [Order -> OrderRec] /\ durable' \in [Order -> OrderRec]
    BY <1>1, SubmitWrites, UpdateType
  <2>2. tries' \in [Order -> 0..MaxTries]
    <3>1. tries[o] + 1 \in 0..MaxTries
      BY <1>1, TriesAssumption DEF SubmitOrder, TypeOK
    <3>. QED  BY <1>1, <3>1 DEF SubmitOrder, TypeOK
  <2>. QED  BY <1>1, <2>1, <2>2 DEF SubmitOrder, TypeOK
<1>2. ASSUME NEW o \in Order, SubmitAccepted(o) PROVE TypeOK'
  <2>1. mem' \in [Order -> OrderRec] /\ durable' \in [Order -> OrderRec]
    <3>1. CASE mem[o].mapped
      BY <1>2, <3>1 DEF SubmitAccepted, TypeOK
    <3>2. CASE ~mem[o].mapped
      BY <1>2, <3>2, StreamTypes, RecordAcceptedBooks, BooksUpdateType
         DEF SubmitAccepted
    <3>. QED  BY <3>1, <3>2
  <2>2. MaxTries \in 0..MaxTries
    BY TriesAssumption
  <2>. QED  BY <1>2, <2>1, <2>2 DEF SubmitAccepted, TypeOK
<1>3. ASSUME NEW o \in Order, SubmitRejected(o) PROVE TypeOK'
  <2>1. mem' \in [Order -> OrderRec] /\ durable' \in [Order -> OrderRec]
    BY <1>3, StreamTypes, EndHandlersBook, BooksUpdateType DEF SubmitRejected
  <2>2. MaxTries \in 0..MaxTries
    BY TriesAssumption
  <2>. QED  BY <1>3, <2>1, <2>2 DEF SubmitRejected, TypeOK
<1>4. ASSUME NEW o \in Order, SubmitUnavailable(o) PROVE TypeOK'
  BY <1>4 DEF SubmitUnavailable, TypeOK
<1>5. ASSUME NEW o \in Order, CancelOrder(o) PROVE TypeOK'
  <2>1. CASE ~mem[o].bid
    <3>1. mem' \in [Order -> OrderRec] /\ durable' \in [Order -> OrderRec]
      BY <1>5, <2>1, StreamTypes, EndBooks, BooksUpdateType DEF CancelOrder
    <3>. QED  BY <1>5, <2>1, <3>1 DEF CancelOrder, TypeOK
  <2>2. CASE mem[o].bid
    <3>1. broker[o].filled \in 0..Qty /\ broker[o] \in BrokerRec
          /\ 0 \in 0..Qty /\ "CANCELED" \in BrokerState \ {"NONE"}
      BY QtyAssumption DEF TypeOK, BrokerRec, BrokerState
    <3>2. stream' \in [Order -> Seq(BrokerEvent)]
      BY <1>5, <2>2, <3>1, EmitType DEF CancelOrder
    <3>3. [broker[o] EXCEPT !.state = "CANCELED"] \in BrokerRec
      BY <3>1 DEF BrokerRec
    <3>4. broker' \in [Order -> BrokerRec]
      BY <1>5, <2>2, <3>3 DEF CancelOrder, TypeOK
    <3>. QED  BY <1>5, <2>2, <3>2, <3>4 DEF CancelOrder, TypeOK
  <2>. QED  BY <2>1, <2>2
<1>6. ASSUME NEW o \in Order, DeliverEvent(o) PROVE TypeOK'
  <2>1. stream[o] \in Seq(BrokerEvent) /\ stream[o] # <<>>
    BY <1>6, StreamTypes DEF DeliverEvent
  <2>2. Head(stream[o]) \in BrokerEvent /\ Tail(stream[o]) \in Seq(BrokerEvent)
    BY <2>1
  <2>3. mem' \in [Order -> OrderRec] /\ durable' \in [Order -> OrderRec]
    BY <1>6, <2>2, StreamTypes, OnBrokerEventBooks, BooksUpdateType,
       QtyAssumption DEF DeliverEvent
  <2>4. stream' \in [Order -> Seq(BrokerEvent)]
    BY <1>6, <2>2 DEF DeliverEvent, TypeOK
  <2>. QED  BY <1>6, <2>3, <2>4 DEF DeliverEvent, TypeOK
<1>7. ASSUME NEW o \in Order, ReconcileOpenOrder(o) PROVE TypeOK'
  <2>1. mem' \in [Order -> OrderRec] /\ durable' \in [Order -> OrderRec]
    <3>1. broker[o] \in BrokerRec /\ Pair(o) \in Book /\ Qty \in Nat
      BY StreamTypes, QtyAssumption
    <3>2. CASE Update(o, HandleRejection(Pair(o)))
      BY <3>1, <3>2, EndHandlersBook, BooksUpdateType
    <3>3. CASE UNCHANGED <<mem, durable>>
      BY <3>3 DEF TypeOK
    <3>4. CASE /\ broker[o].state # "NONE"
               /\ Update(o, CatchUpFromBroker(Pair(o), broker[o]))
      BY <3>1, <3>4, CatchUpBooks, BooksUpdateType
    <3>. QED  BY <1>7, <3>2, <3>3, <3>4 DEF ReconcileOpenOrder
  <2>. QED  BY <1>7, <2>1 DEF ReconcileOpenOrder, TypeOK
<1>8. Unknown \in OrderRec
  BY DEF Unknown, OrderRec, OrderState
<1>9. ASSUME Stop, durable' \in [Order -> OrderRec] PROVE TypeOK'
  <2>1. MaxTries \in 0..MaxTries /\ 0 \in 0..MaxTries
    BY TriesAssumption
  <2>2. <<>> \in Seq(BrokerEvent)
    OBVIOUS
  <2>3. mem' \in [Order -> OrderRec]
    BY <1>8, <1>9 DEF Stop
  <2>4. tries' \in [Order -> 0..MaxTries]
    BY <1>9, <2>1 DEF Stop
  <2>5. stream' \in [Order -> Seq(BrokerEvent)]
    BY <1>9, <2>2 DEF Stop
  <2>6. wire' \subseteq Order
    BY <1>9 DEF Stop, TypeOK
  <2>. QED  BY <1>9, <2>3, <2>4, <2>5, <2>6 DEF Stop, TypeOK
<1>10. ASSUME NEW o \in Order, CrashInCatchUp(o) PROVE TypeOK'
  <2>1. broker[o] \in BrokerRec /\ Pair(o) \in Book /\ Qty \in Nat
        /\ durable \in [Order -> OrderRec]
    BY StreamTypes, QtyAssumption DEF TypeOK
  <2>2. RecordAccepted(Pair(o)) \in Book
    BY <2>1, RecordAcceptedBooks DEF Books
  <2>3. CatchUpFill(Pair(o), broker[o]) \in Book
    BY <2>1, CatchUpFillBooks DEF Books
  <2>4. durable' \in [Order -> OrderRec]
    BY <1>10, <2>1, <2>2, <2>3 DEF CrashInCatchUp, Book
  <2>. QED  BY <1>9, <1>10, <2>4 DEF CrashInCatchUp
<1>11. CASE Crash
  BY <1>9, <1>11 DEF Crash, TypeOK
<1>12. CASE Recover
  <2>1. mem' \in [Order -> OrderRec]
    <3>1. ASSUME NEW o \in Order
          PROVE  [durable[o] EXCEPT !.fills = mem[o].fills + @] \in OrderRec
      <4>1. durable[o] \in OrderRec /\ mem[o].fills + durable[o].fills \in Nat
        BY DEF TypeOK, OrderRec
      <4>. QED  BY <4>1 DEF OrderRec
    <3>. QED  BY <1>12, <3>1 DEF Recover, ReplayLog, TypeOK
  <2>2. stream' \in [Order -> Seq(BrokerEvent)]
    <3>1. <<>> \in Seq(BrokerEvent)
      OBVIOUS
    <3>. QED  BY <1>12, <3>1 DEF Recover
  <2>3. pending' \subseteq Order /\ mode' = "recovering"
    BY <1>12 DEF Recover
  <2>. QED  BY <1>12, <2>1, <2>2, <2>3 DEF Recover, TypeOK
<1>13. CASE RecoverReturns
  BY <1>13 DEF RecoverReturns, TypeOK
<1>14. ASSUME NEW o \in Order, BrokerReceives(o) PROVE TypeOK'
  <2>1. CASE broker[o].state = "NONE"
    <3>1. broker[o] \in BrokerRec /\ 0 \in 0..Qty
          /\ "ACCEPTED" \in BrokerState \ {"NONE"}
      BY QtyAssumption DEF TypeOK, BrokerState
    <3>2. stream' \in [Order -> Seq(BrokerEvent)]
      BY <1>14, <2>1, <3>1, EmitType DEF BrokerReceives
    <3>3. [broker[o] EXCEPT !.state = "ACCEPTED"] \in BrokerRec
      BY <3>1 DEF BrokerRec
    <3>4. broker' \in [Order -> BrokerRec]
      BY <1>14, <2>1, <3>3 DEF BrokerReceives, TypeOK
    <3>. QED  BY <1>14, <3>2, <3>4 DEF BrokerReceives, TypeOK
  <2>2. CASE broker[o].state # "NONE"
    BY <1>14, <2>2 DEF BrokerReceives, TypeOK
  <2>. QED  BY <2>1, <2>2
<1>15. ASSUME NEW o \in Order, BrokerFills(o) PROVE TypeOK'
  <2>1. PICK k \in 1..(Qty - broker[o].filled),
             state \in {"PARTIALLY_FILLED", "FILLED"} :
          LET total == broker[o].filled + k
          IN  /\ broker' = [broker EXCEPT ![o] = [state |-> state,
                                                  filled |-> total]]
              /\ Emit(o, state, k, total)
    BY <1>15 DEF BrokerFills
  <2>. DEFINE total == broker[o].filled + k
  <2>2. total \in 0..Qty /\ k \in 0..Qty
    <3>1. broker[o].filled \in 0..Qty /\ Qty \in Nat
      BY QtyAssumption DEF TypeOK, BrokerRec
    <3>. QED  BY <3>1
  <2>3. state \in BrokerState \ {"NONE"}
    BY DEF BrokerState
  <2>. HIDE DEF total
  <2>4. /\ broker' = [broker EXCEPT ![o] = [state |-> state, filled |-> total]]
        /\ Emit(o, state, k, total)
    BY <2>1 DEF total
  <2>5. [state |-> state, filled |-> total] \in BrokerRec
    BY <2>2, <2>3 DEF BrokerRec
  <2>6. broker' \in [Order -> BrokerRec]
    BY <2>4, <2>5 DEF TypeOK
  <2>7. stream' \in [Order -> Seq(BrokerEvent)]
    BY <2>2, <2>3, <2>4, EmitType
  <2>. QED  BY <1>15, <2>6, <2>7 DEF BrokerFills, TypeOK
<1>16. ASSUME NEW o \in Order, BrokerEnds(o) PROVE TypeOK'
  <2>1. PICK state \in {"CANCELED", "REJECTED", "EXPIRED"} :
          /\ broker' = [broker EXCEPT ![o].state = state]
          /\ Emit(o, state, 0, broker[o].filled)
    BY <1>16 DEF BrokerEnds
  <2>2. broker[o] \in BrokerRec /\ broker[o].filled \in 0..Qty
        /\ 0 \in 0..Qty /\ state \in BrokerState \ {"NONE"}
    BY QtyAssumption DEF TypeOK, BrokerRec, BrokerState
  <2>3. stream' \in [Order -> Seq(BrokerEvent)]
    BY <2>1, <2>2, EmitType
  <2>4. [broker[o] EXCEPT !.state = state] \in BrokerRec
    BY <2>2 DEF BrokerRec
  <2>5. broker' \in [Order -> BrokerRec]
    BY <2>1, <2>4 DEF TypeOK
  <2>. QED  BY <1>16, <2>3, <2>5 DEF BrokerEnds, TypeOK
<1>17. ASSUME NEW o \in Order, LoseEvent(o) PROVE TypeOK'
  <2>1. stream[o] \in Seq(BrokerEvent) /\ stream[o] # <<>>
    BY <1>17, StreamTypes DEF LoseEvent
  <2>2. Tail(stream[o]) \in Seq(BrokerEvent)
    BY <2>1
  <2>3. stream' \in [Order -> Seq(BrokerEvent)]
    BY <1>17, <2>2 DEF LoseEvent, TypeOK
  <2>. QED  BY <1>17, <2>3 DEF LoseEvent, TypeOK
<1>18. CASE UNCHANGED vars
  BY <1>18 DEF vars, TypeOK
<1>. QED
  BY <1>1, <1>2, <1>3, <1>4, <1>5, <1>6, <1>7, <1>10, <1>11, <1>12, <1>13,
     <1>14, <1>15, <1>16, <1>17, <1>18 DEF Next, OmsStep, BrokerStep

\* Every reachable state is well typed: TypeOK, for every set of orders, order
\* size, number of retries and set of faults.
THEOREM TypeCorrect == Spec => []TypeOK
BY TypeInit, TypeStep, PTL DEF Spec

-----------------------------------------------------------------------------
(* Every step preserves the invariant *)

\* The empty OMS satisfies the invariant.
LEMMA InvInit == ASSUME Init PROVE IInv
<1>1. /\ Unknown.filled = 0 /\ Unknown.bid = FALSE /\ Unknown.fsm = "PENDING"
      /\ Unknown.state = "NONE"
  BY DEF Unknown
<1>2. ASSUME NEW o \in Order PROVE OrderInv(o)
  <2>1. mem[o] = Unknown /\ durable[o] = Unknown /\ stream[o] = <<>>
        /\ broker[o].state = "NONE" /\ broker[o].filled = 0 /\ tries[o] = 0
        /\ o # call /\ o \notin pending /\ o \notin wire /\ mode = "up"
    BY NoOrderAssumption DEF Init
  <2>2. Agree(Pair(o))
    BY <1>1, <2>1 DEF Agree, Pair
  <2>3. StreamIsAhead(o)
    BY <2>1 DEF StreamIsAhead
  <2>. QED  BY <1>1, <2>1, <2>2, <2>3 DEF OrderInv
<1>. QED  BY <1>2 DEF IInv, Init

\* A step of one order, short of a crash, leaves the other orders alone.
LEMMA OthersUntouched ==
  ASSUME TypeOK, TypeOK', IInv, NEW o \in Order,
         OmsStep(o) \/ BrokerStep(o), ~CrashInCatchUp(o),
         NEW x \in Order, x # o
  PROVE  OrderInv(x)'
<1>1. OrderInv(x)
  BY DEF IInv
<1>. DEFINE Same == /\ mode' = mode /\ mem'[x] = mem[x]
                    /\ durable'[x] = durable[x] /\ tries'[x] = tries[x]
                    /\ broker'[x] = broker[x] /\ stream'[x] = stream[x]
                    /\ x \in wire' => x \in wire
                    /\ x = call' => x = call
                    /\ x \in pending' => x \in pending
<1>2. SubmitOrder(o) \/ SubmitUnavailable(o) => Same
  BY NoOrderAssumption DEF TypeOK, SubmitOrder, SubmitUnavailable, Update
<1>3. SubmitAccepted(o) \/ SubmitRejected(o) => Same
  BY NoOrderAssumption DEF TypeOK, SubmitAccepted, SubmitRejected, Update
<1>4. CancelOrder(o) => Same
  BY DEF TypeOK, CancelOrder, Update, Emit
<1>5. DeliverEvent(o) \/ ReconcileOpenOrder(o) \/ LoseEvent(o) => Same
  BY DEF TypeOK, DeliverEvent, ReconcileOpenOrder, LoseEvent, Update
<1>6. BrokerReceives(o) \/ BrokerFills(o) \/ BrokerEnds(o) => Same
  BY DEF TypeOK, BrokerReceives, BrokerFills, BrokerEnds, Emit
<1>7. Same
  BY <1>2, <1>3, <1>4, <1>5, <1>6 DEF OmsStep, BrokerStep
<1>. QED  BY <1>1, <1>7, Untouched

\* A handler's result, written back, keeps the order's part of the invariant
\* when it books no more than the broker has executed beyond the log.
LEMMA BookedInv ==
  ASSUME TypeOK, TypeOK', NEW o \in Order, OrderInv(o),
         NEW n \in Nat, NEW q, Books(Pair(o), q, n), Update(o, q),
         durable[o].state # "NONE", mode' = mode, mode # "down",
         broker'[o] = broker[o], tries'[o] = 0 => tries[o] = 0,
         mode # "up" => stream'[o] = <<>>, StreamIsAhead(o)',
         durable[o].filled + n <= broker[o].filled
  PROVE  OrderInv(o)'
<1>1. q \in Book
  BY DEF Books
<1>2. mem'[o] = q.live /\ durable'[o] = q.dur /\ Pair(o)' = q
  BY <1>1, UpdateType
<1>3. Pair(o).dur = durable[o]
  BY DEF Pair
<1>4. /\ Agree(q) /\ q.dur.filled = durable[o].filled + n
      /\ q.dur.state # "NONE"
  BY <1>3 DEF Books, OrderInv
<1>5. Agree(Pair(o))'
  BY <1>2, <1>4 DEF Agree
<1>6. broker[o].state # "NONE" \/ broker[o].filled = 0
  BY DEF OrderInv
<1>. QED  BY <1>2, <1>4, <1>5, <1>6 DEF OrderInv

\* The steps of submit_order, on the order submitted.
LEMMA SubmitInv ==
  ASSUME TypeOK, TypeOK', NEW o \in Order, OrderInv(o),
         \/ SubmitOrder(o) \/ SubmitAccepted(o)
         \/ SubmitRejected(o) \/ SubmitUnavailable(o)
  PROVE  OrderInv(o)'
<1>1. MaxTries # 0 /\ tries[o] \in Nat /\ tries[o] + 1 # 0
  BY TriesAssumption DEF TypeOK
<1>2. CASE SubmitOrder(o)
  <2>1. PICK q \in Book : /\ Update(o, q) /\ Agree(q) /\ q.dur.filled = 0
                          /\ q.dur.state # "NONE"
    BY <1>2, SubmitWrites
  <2>2. mem'[o] = q.live /\ durable'[o] = q.dur /\ Pair(o)' = q
    BY <2>1, UpdateType
  <2>3. /\ mode = "up" /\ mode' = mode /\ broker'[o] = broker[o]
        /\ stream'[o] = stream[o] /\ tries'[o] # 0
    BY <1>1, <1>2 DEF SubmitOrder, LockFree, TypeOK
  <2>4. durable[o].filled \in Nat /\ broker[o].filled \in Nat
    BY StreamTypes
  <2>5. /\ broker'[o].filled >= broker[o].filled
        /\ durable'[o].filled <= durable[o].filled
        /\ durable'[o].filled <= broker'[o].filled
    BY <2>1, <2>2, <2>3, <2>4
  <2>6. StreamIsAhead(o)'
    BY <2>3, <2>5, StreamKept DEF OrderInv
  <2>7. Agree(Pair(o))'
    BY <2>1, <2>2 DEF Agree
  <2>. QED  BY <2>1, <2>2, <2>3, <2>5, <2>6, <2>7 DEF OrderInv
<1>3. CASE SubmitUnavailable(o)
  BY <1>3, NoOrderAssumption, Untouched DEF SubmitUnavailable
<1>4. ASSUME SubmitAccepted(o) \/ SubmitRejected(o)
      PROVE  /\ mode = "up" /\ mode' = mode /\ broker'[o] = broker[o]
             /\ stream'[o] = stream[o] /\ tries'[o] # 0
             /\ durable[o].state # "NONE"
             /\ o \notin wire' /\ o # call'
             /\ pending' = pending
  BY <1>1, <1>4, NoOrderAssumption
     DEF SubmitAccepted, SubmitRejected, TypeOK, OrderInv
<1>5. CASE SubmitAccepted(o) /\ mem[o].mapped
  <2>1. mem' = mem /\ durable' = durable
    BY <1>5 DEF SubmitAccepted
  <2>. QED  BY <1>4, <1>5, <2>1, Untouched
<1>6. CASE (SubmitAccepted(o) /\ ~mem[o].mapped) \/ SubmitRejected(o)
  <2>1. \E q : Books(Pair(o), q, 0) /\ Update(o, q)
    BY <1>6, StreamTypes, RecordAcceptedBooks, EndHandlersBook
       DEF SubmitAccepted, SubmitRejected
  <2>2. PICK q : Books(Pair(o), q, 0) /\ Update(o, q)
    BY <2>1
  <2>3. /\ durable[o].filled + 0 <= broker[o].filled
        /\ durable'[o].filled <= durable[o].filled
        /\ broker'[o].filled >= broker[o].filled
    <3>1. durable[o].filled \in Nat /\ broker[o].filled \in Nat
      BY StreamTypes
    <3>2. durable'[o].filled = durable[o].filled + 0
      BY <2>2, StreamTypes, UpdateType DEF Books, Pair
    <3>. QED  BY <1>4, <1>6, <3>1, <3>2 DEF OrderInv
  <2>4. StreamIsAhead(o)'
    BY <1>4, <1>6, <2>3, StreamKept DEF OrderInv
  <2>. QED  BY <1>4, <1>6, <2>2, <2>3, <2>4, BookedInv
<1>. QED  BY <1>2, <1>3, <1>5, <1>6

\* The delivery of an order's next event.
LEMMA DeliverInv ==
  ASSUME TypeOK, TypeOK', NEW o \in Order, OrderInv(o), DeliverEvent(o)
  PROVE  OrderInv(o)'
<1>. DEFINE e == Head(stream[o])
            q == OnBrokerEvent(Pair(o), e)
<1>1. /\ mode = "up" /\ mode' = mode /\ broker'[o] = broker[o]
      /\ stream[o] # <<>> /\ stream'[o] = Tail(stream[o])
      /\ tries' = tries /\ wire' = wire /\ call' = call /\ pending' = pending
      /\ Update(o, q)
  BY DEF DeliverEvent, TypeOK
<1>2. /\ stream[o] \in Seq(BrokerEvent) /\ Pair(o) \in Book
      /\ durable[o].filled \in Nat /\ broker[o].filled \in Nat
      /\ Pair(o).dur = durable[o] /\ Pair(o).live = mem[o]
  BY StreamTypes DEF Pair
<1>3. /\ 1 \in DOMAIN stream[o] /\ e = stream[o][1]
  BY <1>1, <1>2
<1>4. e \in BrokerEvent /\ e.qty \in Nat /\ e.upto \in Nat
  BY <1>2, <1>3, EventTypes
<1>5. durable[o].filled + e.qty <= broker[o].filled
  <2>1. e.upto <= broker[o].filled /\ durable[o].filled + e.qty <= e.upto
    BY <1>3 DEF OrderInv, StreamIsAhead
  <2>. QED  BY <1>2, <1>4, <2>1
<1>6. PICK n \in {0, e.qty} : Books(Pair(o), q, n)
  BY <1>2, <1>4, OnBrokerEventBooks, QtyAssumption
<1>7. durable'[o].filled = durable[o].filled + n
  BY <1>1, <1>2, <1>6, UpdateType DEF Books
<1>8. StreamIsAhead(o)'
  <2>1. durable'[o].filled <= durable[o].filled + e.qty
        /\ broker'[o].filled = broker[o].filled
    BY <1>1, <1>2, <1>4, <1>6, <1>7
  <2>. QED  BY <1>1, <2>1, StreamTail DEF OrderInv
<1>9. CASE mem[o].state = "NONE"
  <2>1. q = Pair(o)
    BY <1>2, <1>9 DEF OnBrokerEvent
  <2>2. mem'[o] = mem[o] /\ durable'[o] = durable[o] /\ Pair(o)' = Pair(o)
    BY <1>1, <1>2, <2>1, UpdateType
  <2>3. Agree(Pair(o))' = Agree(Pair(o))
    BY <2>2 DEF Agree
  <2>. QED  BY <1>1, <1>8, <2>2, <2>3 DEF OrderInv
<1>10. CASE mem[o].state # "NONE"
  <2>1. durable[o].state # "NONE"
    BY <1>10 DEF OrderInv, Unknown
  <2>2. n \in Nat /\ durable[o].filled + n <= broker[o].filled
    BY <1>2, <1>4, <1>5, <1>6
  <2>. HIDE DEF q
  <2>. QED  BY <1>1, <1>6, <1>8, <2>1, <2>2, BookedInv
<1>. QED  BY <1>9, <1>10

\* A cancel, settled locally or handed to the broker.
LEMMA CancelInv ==
  ASSUME TypeOK, TypeOK', NEW o \in Order, OrderInv(o), CancelOrder(o)
  PROVE  OrderInv(o)'
<1>1. /\ mode = "up" /\ mode' = mode /\ tries' = tries /\ wire' = wire
      /\ call' = call /\ pending' = pending
  BY DEF CancelOrder, LockFree
<1>2. durable[o].state # "NONE"
  BY DEF CancelOrder, IsOpen, OrderInv, Unknown
<1>3. /\ durable[o].filled \in Nat /\ broker[o].filled \in Nat
      /\ Pair(o) \in Book /\ Pair(o).dur = durable[o]
  BY StreamTypes DEF Pair
<1>4. CASE ~mem[o].bid
  <2>. DEFINE q == Transition(Append1(Pair(o), "CANCELLED", 0), "CANCEL")
  <2>1. Update(o, q) /\ broker' = broker /\ stream' = stream
    BY <1>4 DEF CancelOrder
  <2>2. Books(Pair(o), q, 0)
    BY <1>3, EndBooks
  <2>. HIDE DEF q
  <2>3. durable'[o].filled = durable[o].filled + 0
    BY <1>3, <2>1, <2>2, UpdateType DEF Books
  <2>4. /\ durable'[o].filled <= durable[o].filled
        /\ durable[o].filled + 0 <= broker[o].filled
        /\ broker'[o].filled >= broker[o].filled
    BY <1>3, <2>1, <2>3 DEF OrderInv
  <2>5. StreamIsAhead(o)'
    BY <2>1, <2>4, StreamKept DEF OrderInv
  <2>. QED  BY <1>1, <1>2, <2>1, <2>2, <2>4, <2>5, BookedInv
<1>5. CASE mem[o].bid
  <2>1. /\ mem' = mem /\ durable' = durable
        /\ broker' = [broker EXCEPT ![o].state = "CANCELED"]
        /\ Emit(o, "CANCELED", 0, broker[o].filled)
        /\ broker[o].state # "NONE"
    BY <1>5 DEF CancelOrder, LiveAtBroker
  <2>2. broker'[o].filled = broker[o].filled /\ broker'[o].state = "CANCELED"
    BY <2>1 DEF TypeOK, BrokerRec
  <2>3. /\ broker[o].filled \in 0..Qty /\ 0 \in 0..Qty
        /\ "CANCELED" \in BrokerState \ {"NONE"}
    BY QtyAssumption DEF TypeOK, BrokerRec, BrokerState
  <2>4. /\ broker[o].filled + 0 <= broker[o].filled
        /\ broker[o].filled <= broker'[o].filled
        /\ broker'[o].filled >= broker[o].filled
    BY <1>3, <2>2
  <2>5. StreamIsAhead(o)'
    BY <2>1, <2>3, <2>4, StreamEmit DEF OrderInv
  <2>6. Pair(o)' = Pair(o) /\ Agree(Pair(o))' = Agree(Pair(o))
    BY <2>1 DEF Pair, Agree
  <2>. QED  BY <1>1, <1>2, <2>1, <2>2, <2>5, <2>6 DEF OrderInv
<1>. QED  BY <1>4, <1>5

\* One turn of recover(): no event is on its way, so that the gap to the
\* broker's quantity is booked here and nowhere else.
LEMMA ReconcileInv ==
  ASSUME TypeOK, TypeOK', NEW o \in Order, OrderInv(o), ReconcileOpenOrder(o)
  PROVE  OrderInv(o)'
<1>1. /\ mode = "recovering" /\ mode' = mode /\ tries' = tries
      /\ wire' = wire /\ call' = call /\ broker' = broker
      /\ stream' = stream /\ stream[o] = <<>>
      /\ o \notin pending' /\ durable[o].state # "NONE"
  BY DEF ReconcileOpenOrder, OrderInv
<1>2. /\ mem[o].filled \in Nat /\ durable[o].filled \in Nat
      /\ broker[o].filled \in Nat /\ Qty \in Nat
      /\ Pair(o) \in Book /\ broker[o] \in BrokerRec
      /\ Pair(o).dur = durable[o] /\ Pair(o).live = mem[o]
  BY StreamTypes, QtyAssumption DEF Pair, OrderRec
<1>3. mem[o].filled = durable[o].filled /\ durable[o].filled <= broker[o].filled
  BY <1>1, <1>2 DEF OrderInv, Agree
<1>4. StreamIsAhead(o)'
  BY <1>1, StreamEmpty
<1>5. CASE Update(o, HandleRejection(Pair(o)))
  <2>1. Books(Pair(o), HandleRejection(Pair(o)), 0)
    BY <1>2, EndHandlersBook
  <2>2. durable[o].filled + 0 <= broker[o].filled
    BY <1>2, <1>3
  <2>. QED  BY <1>1, <1>4, <1>5, <2>1, <2>2, BookedInv
<1>6. CASE UNCHANGED <<mem, durable>>
  BY <1>1, <1>6, Untouched
<1>7. CASE /\ broker[o].state # "NONE"
           /\ Update(o, CatchUpFromBroker(Pair(o), broker[o]))
  <2>1. PICK n \in Nat :
          /\ Books(Pair(o), CatchUpFromBroker(Pair(o), broker[o]), n)
          /\ Pair(o).live.filled <= broker[o].filled
               => n = broker[o].filled - Pair(o).live.filled
    BY <1>2, <1>7, CatchUpBooks
  <2>2. durable[o].filled + n <= broker[o].filled
    BY <1>2, <1>3, <2>1
  <2>. QED  BY <1>1, <1>4, <1>7, <2>1, <2>2, BookedInv
<1>. QED  BY <1>5, <1>6, <1>7 DEF ReconcileOpenOrder

\* What a crash leaves of an order whose log entry is as it was.
LEMMA StopInv ==
  ASSUME TypeOK, NEW o \in Order, OrderInv(o), Stop,
         durable'[o].filled <= broker[o].filled,
         durable'[o] = durable[o]
           \/ (durable[o].state # "NONE" /\ durable'[o].state # "NONE")
  PROVE  OrderInv(o)'
<1>1. /\ mode' = "down" /\ mem'[o] = Unknown /\ call' = NoOrder
      /\ pending' = {} /\ stream'[o] = <<>> /\ broker' = broker
      /\ o \in wire' => o \in wire
  BY DEF Stop
<1>2. tries'[o] = 0 => tries[o] = 0
  BY TriesAssumption DEF Stop
<1>3. StreamIsAhead(o)'
  BY <1>1, StreamEmpty
<1>. QED  BY <1>1, <1>2, <1>3, NoOrderAssumption DEF OrderInv

\* A crash at rest, or between two appends of one catch-up.
LEMMA CrashInv ==
  ASSUME TypeOK, IInv, Crash \/ \E o \in Order : CrashInCatchUp(o)
  PROVE  IInv'
<1>1. \A x \in Order : durable[x].filled <= broker[x].filled
  BY DEF IInv, OrderInv
<1>2. CASE Crash
  BY <1>1, <1>2, StopInv DEF Crash, Stop, IInv
<1>3. ASSUME NEW o \in Order, CrashInCatchUp(o) PROVE IInv'
  <2>1. /\ Stop /\ mode = "recovering" /\ o \in pending /\ OrderInv(o)
    BY <1>3 DEF CrashInCatchUp, IInv
  <2>2. /\ mem[o].filled \in Nat /\ durable[o].filled \in Nat
        /\ broker[o].filled \in Nat /\ Qty \in Nat
        /\ Pair(o) \in Book /\ broker[o] \in BrokerRec
        /\ Pair(o).dur = durable[o] /\ Pair(o).live = mem[o]
    BY StreamTypes, QtyAssumption DEF Pair, OrderRec
  <2>3. /\ mem[o].filled = durable[o].filled /\ durable[o].state # "NONE"
        /\ durable[o].filled <= broker[o].filled
    BY <2>1, <2>2 DEF OrderInv, Agree
  <2>4. PICK p \in {RecordAccepted(Pair(o)), CatchUpFill(Pair(o), broker[o])} :
          durable' = [durable EXCEPT ![o] = p.dur]
    BY <1>3 DEF CrashInCatchUp
  <2>5. PICK n \in Nat : /\ Books(Pair(o), p, n)
                         /\ durable[o].filled + n <= broker[o].filled
    <3>1. CASE p = RecordAccepted(Pair(o))
      <4>1. Books(Pair(o), p, 0) /\ durable[o].filled + 0 <= broker[o].filled
        BY <2>2, <2>3, <3>1, RecordAcceptedBooks
      <4>. QED  BY <4>1
    <3>2. CASE p = CatchUpFill(Pair(o), broker[o])
      <4>1. PICK n \in Nat : /\ Books(Pair(o), p, n)
                             /\ Pair(o).live.filled <= broker[o].filled
                                  => n = broker[o].filled - Pair(o).live.filled
        BY <2>2, <3>2, CatchUpFillBooks
      <4>. QED  BY <2>2, <2>3, <4>1
    <3>. QED  BY <3>1, <3>2
  <2>6. durable'[o] = p.dur /\ \A x \in Order \ {o} : durable'[x] = durable[x]
    BY <2>4 DEF TypeOK
  <2>7. /\ durable'[o].filled <= broker[o].filled
        /\ durable'[o].state # "NONE"
    BY <2>2, <2>3, <2>5, <2>6 DEF Books
  <2>8. ASSUME NEW x \in Order PROVE OrderInv(x)'
    <3>1. OrderInv(x)
      BY DEF IInv
    <3>. QED  BY <1>1, <2>1, <2>3, <2>6, <2>7, <3>1, StopInv
  <2>. QED  BY <2>1, <2>8 DEF IInv, Stop
<1>. QED  BY <1>2, <1>3

\* Replaying the log makes memory agree with it.
LEMMA RecoverInv == ASSUME TypeOK, TypeOK', IInv, Recover PROVE IInv'
<1>1. /\ mode' = "recovering" /\ call = NoOrder /\ call' = call
      /\ durable' = durable /\ tries' = tries /\ wire' = wire
      /\ broker' = broker /\ stream' = [o \in Order |-> <<>>]
      /\ pending' = {o \in Order : IsOpen(mem'[o])}
  BY DEF Recover, LockFree, IInv
<1>2. ASSUME NEW o \in Order PROVE OrderInv(o)'
  <2>1. OrderInv(o)
    BY <1>2 DEF IInv
  <2>2. StreamIsAhead(o)'
    BY <1>1, StreamEmpty
  <2>3. mem'[o] = IF durable[o].state = "NONE" THEN mem[o]
                  ELSE [durable[o] EXCEPT !.fills = mem[o].fills + @]
    BY DEF Recover, ReplayLog
  <2>4. CASE durable[o].state = "NONE"
    <3>1. mem'[o] = Unknown /\ durable'[o] = Unknown /\ durable[o] = Unknown
      BY <1>1, <2>1, <2>3, <2>4 DEF OrderInv
    <3>2. Agree(Pair(o))' /\ o \notin pending'
      BY <1>1, <3>1 DEF Agree, Pair, IsOpen, Unknown
    <3>3. o # call'
      BY <1>1, NoOrderAssumption
    <3>. QED  BY <1>1, <2>1, <2>2, <3>1, <3>2, <3>3 DEF OrderInv
  <2>5. CASE durable[o].state # "NONE"
    <3>1. durable[o] \in OrderRec
      BY DEF TypeOK
    <3>2. /\ mem'[o].filled = durable[o].filled
          /\ mem'[o].bid = durable[o].bid /\ mem'[o].fsm = durable[o].fsm
      BY <2>3, <2>5, <3>1 DEF OrderRec
    <3>3. Agree(Pair(o))'
      BY <1>1, <3>2 DEF Agree, Pair
    <3>. QED  BY <1>1, <2>1, <2>2, <2>5, <3>3 DEF OrderInv
  <2>. QED  BY <2>4, <2>5
<1>. QED  BY <1>1, <1>2 DEF IInv

\* recover() is over, however it ended.
LEMMA RecoverReturnsInv ==
  ASSUME TypeOK, TypeOK', IInv, RecoverReturns
  PROVE  IInv'
<1>1. ASSUME NEW o \in Order PROVE OrderInv(o)'
  <2>1. OrderInv(o) /\ stream'[o] = <<>> /\ mode' = "up" /\ mode = "recovering"
    BY DEF IInv, OrderInv, RecoverReturns
  <2>2. StreamIsAhead(o)'
    BY <2>1, StreamEmpty
  <2>3. Pair(o)' = Pair(o) /\ Agree(Pair(o))' = Agree(Pair(o))
    BY DEF RecoverReturns, Pair, Agree
  <2>. QED  BY <2>1, <2>2, <2>3 DEF RecoverReturns, OrderInv
<1>. QED  BY <1>1 DEF IInv, RecoverReturns

\* The broker's steps, on the order concerned.
LEMMA BrokerInv ==
  ASSUME TypeOK, TypeOK', NEW o \in Order, OrderInv(o), BrokerStep(o)
  PROVE  OrderInv(o)'
<1>1. /\ mode' = mode /\ mem' = mem /\ durable' = durable /\ call' = call
      /\ tries' = tries /\ pending' = pending /\ (o \in wire' => o \in wire)
  BY DEF BrokerStep, BrokerReceives, BrokerFills, BrokerEnds, LoseEvent
<1>2. Pair(o)' = Pair(o) /\ Agree(Pair(o))' = Agree(Pair(o))
  BY <1>1 DEF Pair, Agree
<1>3. /\ durable[o].filled \in Nat /\ broker[o].filled \in 0..Qty
      /\ Qty \in Nat /\ 0 \in 0..Qty /\ broker[o].filled \in Nat
      /\ broker[o] \in BrokerRec /\ durable[o].filled <= broker[o].filled
      /\ stream[o] \in Seq(BrokerEvent)
  BY QtyAssumption, StreamTypes DEF TypeOK, BrokerRec, OrderInv
<1>4. ASSUME StreamIsAhead(o)', broker'[o].filled >= broker[o].filled,
             broker'[o].filled \in Nat,
             mode # "up" => stream'[o] = <<>>,
             broker'[o].state # "NONE" => broker[o].state # "NONE" \/ o \in wire,
             broker'[o].state = "NONE" => broker'[o] = broker[o]
      PROVE  OrderInv(o)'
  <2>1. durable'[o].filled <= broker'[o].filled
    BY <1>1, <1>3, <1>4
  <2>. QED  BY <1>1, <1>2, <1>4, <2>1 DEF OrderInv
<1>5. CASE BrokerReceives(o)
  <2>1. CASE broker[o].state = "NONE"
    <3>1. /\ o \in wire /\ Emit(o, "ACCEPTED", 0, 0)
          /\ broker' = [broker EXCEPT ![o].state = "ACCEPTED"]
          /\ broker[o].filled = 0
      BY <1>5, <2>1 DEF BrokerReceives, OrderInv
    <3>2. broker'[o].filled = broker[o].filled /\ broker'[o].state = "ACCEPTED"
      BY <3>1 DEF TypeOK, BrokerRec
    <3>3. "ACCEPTED" \in BrokerState \ {"NONE"}
      BY DEF BrokerState
    <3>4. StreamIsAhead(o)'
      BY <1>1, <1>3, <3>1, <3>2, <3>3, StreamEmit DEF OrderInv
    <3>5. mode # "up" => stream'[o] = <<>>
      BY <3>1 DEF Emit, OrderInv
    <3>. QED  BY <1>3, <1>4, <3>1, <3>2, <3>4, <3>5
  <2>2. CASE broker[o].state # "NONE"
    BY <1>1, <1>5, <2>2, Untouched DEF BrokerReceives
  <2>. QED  BY <2>1, <2>2
<1>6. CASE BrokerFills(o)
  <2>1. PICK k \in 1..(Qty - broker[o].filled),
             state \in {"PARTIALLY_FILLED", "FILLED"} :
          LET total == broker[o].filled + k
          IN  /\ broker' = [broker EXCEPT ![o] = [state |-> state,
                                                  filled |-> total]]
              /\ Emit(o, state, k, total)
    BY <1>6 DEF BrokerFills
  <2>. DEFINE total == broker[o].filled + k
  <2>2. /\ total \in 0..Qty /\ k \in 0..Qty
        /\ total >= broker[o].filled /\ broker[o].filled + k <= total
        /\ total <= total /\ total \in Nat
    BY <1>3
  <2>3. state \in BrokerState \ {"NONE"}
    BY DEF BrokerState
  <2>. HIDE DEF total
  <2>4. /\ broker' = [broker EXCEPT ![o] = [state |-> state, filled |-> total]]
        /\ Emit(o, state, k, total) /\ broker[o].state # "NONE"
    BY <1>6, <2>1 DEF total, BrokerFills, LiveAtBroker
  <2>5. broker'[o].filled = total /\ broker'[o].state = state
    BY <2>4 DEF TypeOK
  <2>6. StreamIsAhead(o)'
    BY <1>1, <1>3, <2>2, <2>3, <2>4, <2>5, StreamEmit DEF OrderInv
  <2>7. mode # "up" => stream'[o] = <<>>
    BY <2>4 DEF Emit, OrderInv
  <2>. QED  BY <1>4, <2>2, <2>3, <2>4, <2>5, <2>6, <2>7
<1>7. CASE BrokerEnds(o)
  <2>1. PICK state \in {"CANCELED", "REJECTED", "EXPIRED"} :
          /\ broker' = [broker EXCEPT ![o].state = state]
          /\ Emit(o, state, 0, broker[o].filled)
    BY <1>7 DEF BrokerEnds
  <2>2. state \in BrokerState \ {"NONE"} /\ broker[o].state # "NONE"
    BY <1>7 DEF BrokerState, BrokerEnds, LiveAtBroker
  <2>3. broker'[o].filled = broker[o].filled /\ broker'[o].state = state
    BY <2>1 DEF TypeOK, BrokerRec
  <2>4. /\ broker[o].filled + 0 <= broker[o].filled
        /\ broker[o].filled <= broker'[o].filled
        /\ broker'[o].filled >= broker[o].filled
    BY <1>3, <2>3
  <2>5. StreamIsAhead(o)'
    BY <1>1, <1>3, <2>1, <2>2, <2>4, StreamEmit DEF OrderInv
  <2>6. mode # "up" => stream'[o] = <<>>
    BY <2>1 DEF Emit, OrderInv
  <2>. QED  BY <1>3, <1>4, <2>2, <2>3, <2>4, <2>5, <2>6
<1>8. CASE LoseEvent(o)
  <2>1. /\ stream[o] # <<>> /\ stream'[o] = Tail(stream[o])
        /\ broker' = broker
    BY <1>8 DEF LoseEvent, TypeOK
  <2>2. Head(stream[o]) = stream[o][1] /\ 1 \in DOMAIN stream[o]
    BY <1>3, <2>1
  <2>3. Head(stream[o]).qty \in Nat
    BY <1>3, <2>2, EventTypes
  <2>4. /\ durable'[o].filled <= durable[o].filled + Head(stream[o]).qty
        /\ broker'[o].filled = broker[o].filled
        /\ broker'[o].filled >= broker[o].filled
    BY <1>1, <1>3, <2>1, <2>3
  <2>5. StreamIsAhead(o)'
    BY <2>1, <2>4, StreamTail DEF OrderInv
  <2>6. mode = "up"
    BY <2>1 DEF OrderInv
  <2>. QED  BY <1>3, <1>4, <2>1, <2>4, <2>5, <2>6
<1>. QED  BY <1>5, <1>6, <1>7, <1>8 DEF BrokerStep

\* Every step of the OMS, the broker and the environment keeps the invariant.
LEMMA InvStep == ASSUME TypeOK, TypeOK', IInv, [Next]_vars PROVE IInv'
<1>1. ASSUME NEW o \in Order, OmsStep(o) \/ BrokerStep(o), ~CrashInCatchUp(o)
      PROVE  IInv'
  <2>1. OrderInv(o)
    BY DEF IInv
  <2>2. OrderInv(o)'
    BY <1>1, <2>1, SubmitInv, DeliverInv, CancelInv, ReconcileInv, BrokerInv
       DEF OmsStep
  <2>3. \A x \in Order \ {o} : OrderInv(x)'
    BY <1>1, OthersUntouched
  <2>4. (mode # "up" => call = NoOrder)'
    <3>1. mode' = mode /\ (mode # "up" => call' = call)
      BY <1>1 DEF OmsStep, BrokerStep, SubmitOrder, SubmitAccepted,
         SubmitRejected, SubmitUnavailable, CancelOrder, DeliverEvent,
         ReconcileOpenOrder, BrokerReceives, BrokerFills, BrokerEnds,
         LoseEvent, LockFree
    <3>. QED  BY <3>1 DEF IInv
  <2>. QED  BY <2>2, <2>3, <2>4 DEF IInv
<1>2. CASE UNCHANGED vars
  <2>1. ASSUME NEW o \in Order PROVE OrderInv(o)'
    BY <1>2, Untouched DEF vars, IInv
  <2>. QED  BY <1>2, <2>1 DEF vars, IInv
<1>. QED
  BY <1>1, <1>2, CrashInv, RecoverInv, RecoverReturnsInv DEF Next

\* The invariant holds of every reachable state.
LEMMA Invariant == Spec => [](TypeOK /\ IInv)
<1>1. Init => TypeOK /\ IInv
  BY TypeInit, InvInit
<1>2. TypeOK /\ IInv /\ [Next]_vars => (TypeOK /\ IInv)'
  BY TypeStep, InvStep
<1>. QED  BY <1>1, <1>2, PTL DEF Spec

-----------------------------------------------------------------------------
(* The theorems *)

\* No quantity is counted twice in filled_qty: NeverOverfilled, with every
\* fault, any number of retries and any number of recoveries.
THEOREM NoDoubleCount == Spec => []NeverOverfilled
<1>1. TypeOK /\ IInv => NeverOverfilled
  <2>. SUFFICES ASSUME TypeOK, IInv, NEW o \in Order
                PROVE  /\ mem[o].filled <= broker[o].filled
                       /\ durable[o].filled <= broker[o].filled
    BY DEF NeverOverfilled
  <2>1. /\ OrderInv(o) /\ broker[o].filled \in Nat
        /\ mem[o].filled = durable[o].filled \/ mem[o] = Unknown
    BY StreamTypes DEF IInv, OrderInv, Agree, Pair, TypeOK
  <2>2. Unknown.filled = 0
    BY DEF Unknown
  <2>. QED  BY <2>1, <2>2 DEF OrderInv
<1>. QED  BY <1>1, Invariant, PTL

\* A crash at any moment loses nothing the process knew: CrashLosesNothing.
THEOREM NothingLost == Spec => []CrashLosesNothing
<1>1. TypeOK /\ IInv => CrashLosesNothing
  BY DEF IInv, OrderInv, Agree, Pair, CrashLosesNothing
<1>. QED  BY <1>1, Invariant, PTL

\* An order the broker has, or is being sent, is in the log:
\* IntentBeforeBroker.
THEOREM WriteAhead == Spec => []IntentBeforeBroker
<1>1. TypeOK /\ IInv => IntentBeforeBroker
  BY DEF IInv, OrderInv, IntentBeforeBroker
<1>. QED  BY <1>1, Invariant, PTL

-----------------------------------------------------------------------------
(* Without retries the OMS implements the ledger of fills *)

\* What a step of the OMS on one order does to the fills in the log.
LEMMA StepBooks ==
  ASSUME TypeOK, IInv, NEW o \in Order, OmsStep(o)
  PROVE  \E n \in Nat :
           /\ durable'[o].fills = durable[o].fills + n
           /\ durable[o].filled + n <= broker[o].filled
           /\ SubmitOrder(o) \/ durable'[o].filled = durable[o].filled + n
<1>1. /\ mem[o].filled \in Nat /\ durable[o].filled \in Nat
      /\ broker[o].filled \in Nat /\ Qty \in Nat
      /\ Pair(o) \in Book /\ broker[o] \in BrokerRec
      /\ Pair(o).dur = durable[o] /\ Pair(o).live = mem[o]
      /\ stream[o] \in Seq(BrokerEvent) /\ durable[o].fills \in Nat
      /\ durable \in [Order -> OrderRec]
  BY StreamTypes, QtyAssumption DEF Pair, OrderRec, TypeOK
<1>2. OrderInv(o) /\ durable[o].filled <= broker[o].filled
  BY DEF IInv, OrderInv
<1>3. ASSUME NEW n \in Nat, NEW q, Books(Pair(o), q, n), durable'[o] = q.dur,
             durable[o].filled + n <= broker[o].filled
      PROVE  \E m \in Nat :
               /\ durable'[o].fills = durable[o].fills + m
               /\ durable[o].filled + m <= broker[o].filled
               /\ SubmitOrder(o) \/ durable'[o].filled = durable[o].filled + m
  BY <1>1, <1>3 DEF Books
<1>4. durable[o].filled + 0 <= broker[o].filled
  BY <1>1, <1>2
<1>5. ASSUME NEW q, Update(o, q) PROVE durable'[o] = q.dur
  BY <1>1, <1>5 DEF Update
<1>6. CASE durable' = durable
  BY <1>1, <1>3, <1>4, <1>6, BooksNothing
<1>7. CASE SubmitOrder(o)
  <2>1. PICK q \in Book : Update(o, q) /\ q.dur.fills = durable[o].fills
    BY <1>7, SubmitWrites
  <2>2. durable'[o].fills = durable[o].fills + 0
    BY <1>1, <1>5, <2>1
  <2>. QED  BY <1>4, <1>7, <2>2
<1>8. CASE SubmitAccepted(o) \/ SubmitRejected(o) \/ SubmitUnavailable(o)
  BY <1>1, <1>3, <1>4, <1>5, <1>6, <1>8, RecordAcceptedBooks, EndHandlersBook
     DEF SubmitAccepted, SubmitRejected, SubmitUnavailable
<1>9. CASE CancelOrder(o)
  BY <1>1, <1>3, <1>4, <1>5, <1>6, <1>9, EndBooks DEF CancelOrder
<1>10. CASE DeliverEvent(o)
  <2>1. /\ stream[o] # <<>>
        /\ Update(o, OnBrokerEvent(Pair(o), Head(stream[o])))
    BY <1>10 DEF DeliverEvent
  <2>2. 1 \in DOMAIN stream[o] /\ Head(stream[o]) = stream[o][1]
    BY <1>1, <2>1
  <2>3. /\ Head(stream[o]) \in BrokerEvent /\ Head(stream[o]).qty \in Nat
        /\ Head(stream[o]).upto \in Nat
    BY <1>1, <2>2, EventTypes
  <2>4. durable[o].filled + Head(stream[o]).qty <= broker[o].filled
    BY <1>1, <1>2, <2>2, <2>3 DEF OrderInv, StreamIsAhead
  <2>5. PICK n \in {0, Head(stream[o]).qty} :
          Books(Pair(o), OnBrokerEvent(Pair(o), Head(stream[o])), n)
    BY <1>1, <2>3, OnBrokerEventBooks
  <2>6. n \in Nat /\ durable[o].filled + n <= broker[o].filled
    BY <1>4, <2>3, <2>4, <2>5
  <2>. QED  BY <1>3, <1>5, <2>1, <2>5, <2>6
<1>11. ASSUME o \in pending, mode = "recovering"
       PROVE  mem[o].filled = durable[o].filled
  BY <1>1, <1>2, <1>11 DEF OrderInv, Agree
<1>12. CASE ReconcileOpenOrder(o)
  <2>1. CASE Update(o, HandleRejection(Pair(o)))
    BY <1>1, <1>3, <1>4, <1>5, <2>1, EndHandlersBook
  <2>2. CASE /\ broker[o].state # "NONE"
             /\ Update(o, CatchUpFromBroker(Pair(o), broker[o]))
    <3>1. PICK n \in Nat :
            /\ Books(Pair(o), CatchUpFromBroker(Pair(o), broker[o]), n)
            /\ Pair(o).live.filled <= broker[o].filled
                 => n = broker[o].filled - Pair(o).live.filled
      BY <1>1, <2>2, CatchUpBooks
    <3>2. mem[o].filled = durable[o].filled
      BY <1>11, <1>12 DEF ReconcileOpenOrder
    <3>3. durable[o].filled + n <= broker[o].filled
      BY <1>1, <1>2, <3>1, <3>2
    <3>. QED  BY <1>3, <1>5, <2>2, <3>1, <3>3
  <2>. QED  BY <1>6, <1>12, <2>1, <2>2 DEF ReconcileOpenOrder
<1>13. CASE CrashInCatchUp(o)
  <2>1. mem[o].filled = durable[o].filled
    BY <1>11, <1>13 DEF CrashInCatchUp
  <2>2. PICK p \in {RecordAccepted(Pair(o)), CatchUpFill(Pair(o), broker[o])} :
          durable' = [durable EXCEPT ![o] = p.dur]
    BY <1>13 DEF CrashInCatchUp
  <2>3. durable'[o] = p.dur
    BY <1>1, <2>2
  <2>4. CASE p = RecordAccepted(Pair(o))
    BY <1>1, <1>3, <1>4, <2>3, <2>4, RecordAcceptedBooks
  <2>5. CASE p = CatchUpFill(Pair(o), broker[o])
    <3>1. PICK n \in Nat : /\ Books(Pair(o), p, n)
                           /\ Pair(o).live.filled <= broker[o].filled
                                => n = broker[o].filled - Pair(o).live.filled
      BY <1>1, <2>5, CatchUpFillBooks
    <3>2. durable[o].filled + n <= broker[o].filled
      BY <1>1, <1>2, <2>1, <3>1
    <3>. QED  BY <1>3, <2>3, <3>1, <3>2
  <2>. QED  BY <2>2, <2>4, <2>5
<1>. QED  BY <1>7, <1>8, <1>9, <1>10, <1>12, <1>13 DEF OmsStep

\* Without retries the log lists exactly the fills that filled_qty adds up.
FillsMatch == \A o \in Order : durable[o].fills = durable[o].filled

\* What a step leaves alone in the log and at the broker.
LEMMA StepFrame ==
  ASSUME TypeOK, NEW o \in Order
  PROVE  /\ OmsStep(o) =>
              /\ \A x \in Order \ {o} : durable'[x] = durable[x]
              /\ \A x \in Order : broker'[x].filled = broker[x].filled
         /\ BrokerStep(o) =>
              /\ durable' = durable
              /\ \A x \in Order \ {o} : broker'[x] = broker[x]
         /\ Crash \/ Recover \/ RecoverReturns \/ UNCHANGED vars =>
              durable' = durable /\ broker' = broker
<1>1. ASSUME OmsStep(o)
      PROVE  /\ \A x \in Order \ {o} : durable'[x] = durable[x]
             /\ \A x \in Order : broker'[x].filled = broker[x].filled
  <2>1. CASE SubmitOrder(o) \/ SubmitAccepted(o) \/ SubmitRejected(o)
    BY <2>1 DEF SubmitOrder, SubmitAccepted, SubmitRejected, Update, TypeOK
  <2>2. CASE SubmitUnavailable(o) \/ DeliverEvent(o) \/ ReconcileOpenOrder(o)
    BY <2>2 DEF SubmitUnavailable, DeliverEvent, ReconcileOpenOrder, Update,
                TypeOK
  <2>3. CASE CancelOrder(o)
    <3>1. \A x \in Order \ {o} : durable'[x] = durable[x]
      BY <2>3 DEF CancelOrder, Update, TypeOK
    <3>2. \/ broker' = broker
          \/ broker' = [broker EXCEPT ![o].state = "CANCELED"]
      BY <2>3 DEF CancelOrder
    <3>3. \A x \in Order : broker'[x].filled = broker[x].filled
      <4>1. ASSUME broker' = [broker EXCEPT ![o].state = "CANCELED"], NEW x \in Order
            PROVE  broker'[x].filled = broker[x].filled
        <5>1. broker[x] \in [state : BrokerState, filled : 0..Qty]
          BY DEF TypeOK, BrokerRec
        <5>2. x \in DOMAIN broker
          BY DEF TypeOK
        <5>3. CASE x = o
          <6>1. broker'[x] = [broker[x] EXCEPT !.state = "CANCELED"]
            BY <4>1, <5>2, <5>3
          <6>. QED  BY <5>1, <6>1
        <5>4. CASE x # o
          BY <4>1, <5>2, <5>4
        <5>. QED  BY <5>3, <5>4
      <4>. QED  BY <3>2, <4>1
    <3>. QED  BY <3>1, <3>3
  <2>4. CASE CrashInCatchUp(o)
    BY <2>4 DEF CrashInCatchUp, Stop, TypeOK
  <2>. QED  BY <1>1, <2>1, <2>2, <2>3, <2>4 DEF OmsStep
<1>2. ASSUME BrokerStep(o)
      PROVE  durable' = durable /\ \A x \in Order \ {o} : broker'[x] = broker[x]
  BY <1>2 DEF BrokerStep, BrokerReceives, BrokerFills, BrokerEnds, LoseEvent,
              TypeOK
<1>3. ASSUME Crash \/ Recover \/ RecoverReturns \/ UNCHANGED vars
      PROVE  durable' = durable /\ broker' = broker
  BY <1>3 DEF Crash, Stop, Recover, RecoverReturns, vars
<1>. QED  BY <1>1, <1>2, <1>3

\* Every step keeps the listed fills equal to the quantity counted.
LEMMA FillsMatchStep ==
  ASSUME MaxTries = 1, TypeOK, IInv, FillsMatch, [Next]_vars
  PROVE  FillsMatch'
<1>1. \A o \in Order : durable[o].fills \in Nat /\ durable[o].filled \in Nat
  BY DEF TypeOK, OrderRec
<1>2. ASSUME NEW o \in Order, OmsStep(o) PROVE FillsMatch'
  <2>1. durable'[o].fills = durable'[o].filled
    <3>1. CASE SubmitOrder(o)
      <4>1. tries[o] \in 0..1 /\ tries[o] < 1
        BY <3>1 DEF SubmitOrder, TypeOK
      <4>2. durable[o] = Unknown
        BY <4>1 DEF IInv, OrderInv
      <4>3. PICK q \in Book : /\ Update(o, q) /\ q.dur.filled = 0
                              /\ q.dur.fills = durable[o].fills
        BY <3>1, SubmitWrites
      <4>4. durable'[o] = q.dur
        BY <4>3, UpdateType
      <4>. QED  BY <4>2, <4>3, <4>4 DEF Unknown
    <3>2. CASE ~SubmitOrder(o)
      BY <1>2, <3>2, StepBooks DEF FillsMatch
    <3>. QED  BY <3>1, <3>2
  <2>. QED  BY <1>2, <2>1, StepFrame DEF FillsMatch
<1>3. ASSUME durable' = durable PROVE FillsMatch'
  BY <1>3 DEF FillsMatch
<1>4. CASE Crash \/ Recover \/ RecoverReturns \/ UNCHANGED vars
  <2>1. durable' = durable
    BY <1>4 DEF Crash, Recover, RecoverReturns, vars
  <2>. QED  BY <1>3, <2>1
<1>. QED  BY <1>2, <1>3, <1>4, StepFrame DEF Next

\* A step of the OMS or of the broker is a step of the ledger, or none.
LEMMA LedgerStep ==
  ASSUME TypeOK, TypeOK', IInv, IInv', FillsMatch, FillsMatch', [Next]_vars
  PROVE  [Ledger!Next]_<<[o \in Order |-> broker[o].filled],
                         [o \in Order |-> durable[o].fills]>>
<1>. DEFINE executed == [o \in Order |-> broker[o].filled]
            booked == [o \in Order |-> durable[o].fills]
<1>1. \A o \in Order : /\ durable[o].fills \in Nat /\ durable'[o].fills \in Nat
                       /\ broker[o].filled \in 0..Qty
                       /\ broker'[o].filled \in 0..Qty /\ Qty \in Nat
  <2>1. \A o \in Order : /\ durable[o] \in OrderRec /\ durable'[o] \in OrderRec
                         /\ broker[o] \in BrokerRec /\ broker'[o] \in BrokerRec
    BY DEF TypeOK
  <2>. QED  BY <2>1, QtyAssumption DEF OrderRec, BrokerRec
<1>2. ASSUME NEW o \in Order, OmsStep(o)
      PROVE  Ledger!Book(o) \/ (booked' = booked /\ executed' = executed)
  <2>1. /\ \A x \in Order \ {o} : durable'[x].fills = durable[x].fills
        /\ executed' = executed
    BY <1>2, StepFrame
  <2>2. PICK n \in Nat : /\ durable'[o].fills = durable[o].fills + n
                         /\ durable[o].filled + n <= broker[o].filled
    BY <1>2, StepBooks
  <2>3. durable[o].fills + n <= broker[o].filled
    BY <2>2 DEF FillsMatch
  <2>4. CASE n = 0
    BY <1>1, <2>1, <2>2, <2>4
  <2>5. CASE n # 0
    <3>1. n \in 1..(executed[o] - booked[o])
      BY <1>1, <2>3, <2>5
    <3>2. booked' = [booked EXCEPT ![o] = booked[o] + n]
      BY <2>1, <2>2
    <3>. QED  BY <2>1, <3>1, <3>2 DEF Ledger!Book
  <2>. QED  BY <2>4, <2>5
<1>3. ASSUME NEW o \in Order, BrokerStep(o)
      PROVE  Ledger!Execute(o) \/ (booked' = booked /\ executed' = executed)
  <2>1. /\ booked' = booked
        /\ \A x \in Order \ {o} : broker'[x].filled = broker[x].filled
    BY <1>3, StepFrame
  <2>2. PICK k \in Nat : broker'[o].filled = broker[o].filled + k
    <3>1. CASE broker' = broker
      BY <1>1, <3>1
    <3>2. CASE BrokerReceives(o) \/ BrokerEnds(o)
      <4>1. \/ broker' = broker
            \/ \E s \in BrokerState : broker' = [broker EXCEPT ![o].state = s]
        BY <3>2 DEF BrokerReceives, BrokerEnds, BrokerState
      <4>2. broker'[o].filled = broker[o].filled
        BY <4>1 DEF TypeOK, BrokerRec
      <4>3. broker'[o].filled = broker[o].filled + 0
        BY <1>1, <4>2
      <4>. QED  BY <4>3
    <3>3. CASE BrokerFills(o)
      BY <1>1, <3>3 DEF BrokerFills, TypeOK
    <3>. QED  BY <1>3, <3>1, <3>2, <3>3 DEF BrokerStep, LoseEvent
  <2>3. CASE k = 0
    BY <1>1, <2>1, <2>2, <2>3
  <2>4. CASE k # 0
    <3>1. k \in 1..(Qty - executed[o])
      BY <1>1, <2>2, <2>4
    <3>2. executed' = [executed EXCEPT ![o] = executed[o] + k]
      BY <2>1, <2>2
    <3>3. \E j \in 1..(Qty - executed[o]) :
            executed' = [executed EXCEPT ![o] = @ + j]
      BY <3>1, <3>2
    <3>. QED  BY <2>1, <3>3 DEF Ledger!Execute
  <2>. QED  BY <2>3, <2>4
<1>4. CASE Crash \/ Recover \/ RecoverReturns \/ UNCHANGED vars
  <2>1. durable' = durable /\ broker' = broker
    BY <1>4 DEF Crash, Stop, Recover, RecoverReturns, vars
  <2>. QED  BY <2>1
<1>. QED  BY <1>2, <1>3, <1>4 DEF Next, Ledger!Next

\* Where no order is submitted twice, the OMS with its log, its crashes and
\* its recoveries implements the ledger: LedgerSpec.  Every executed unit is
\* booked at most once and none is forgotten.  (A second SUBMIT_INTENT of one
\* order replays with a new filled_qty and the old list of fills, so that
\* recovery may list a fill twice; no caller in the repository retries.)
THEOREM ImplementsLedger == ASSUME MaxTries = 1 PROVE Spec => LedgerSpec
<1>1. Init => FillsMatch /\ Ledger!Init
  BY DEF Init, FillsMatch, Unknown, Ledger!Init
<1>2. TypeOK /\ IInv /\ FillsMatch /\ [Next]_vars => FillsMatch'
  BY FillsMatchStep
<1>3. ASSUME TypeOK, TypeOK', IInv, IInv', FillsMatch, FillsMatch', [Next]_vars
      PROVE  [Ledger!Next]_<<[o \in Order |-> broker[o].filled],
                             [o \in Order |-> durable[o].fills]>>
  BY <1>3, LedgerStep
<1>4. Spec => [](TypeOK /\ IInv)
  BY Invariant
<1>5. Spec => [](TypeOK /\ IInv /\ FillsMatch)
  BY <1>1, <1>2, <1>4, PTL DEF Spec
<1>. QED  BY <1>1, <1>3, <1>5, PTL DEF Spec, LedgerSpec, Ledger!Spec

-----------------------------------------------------------------------------
(* Without retries the lists of fills are sound *)

\* While the process lives, memory and log list the same fills.
FillsSame == mode # "down" => \A o \in Order : mem[o].fills = durable[o].fills

\* A step that writes one order's pair keeps the lists of fills the same if the
\* pair it writes does.
LEMMA SameAfterUpdate ==
  ASSUME TypeOK, FillsSame, NEW o \in Order, mode # "down", NEW q \in Book,
         Update(o, q), q.live.fills = q.dur.fills
  PROVE  FillsSame'
<1>1. /\ mem'[o].fills = durable'[o].fills
      /\ \A x \in Order \ {o} : mem'[x] = mem[x] /\ durable'[x] = durable[x]
  BY UpdateType
<1>. QED  BY <1>1 DEF FillsSame

\* Every handler lists in memory what it logs.
LEMMA SameAfterBooks ==
  ASSUME TypeOK, FillsSame, NEW o \in Order, mode # "down", NEW n, NEW q,
         Books(Pair(o), q, n), Update(o, q)
  PROVE  FillsSame'
<1>1. q \in Book /\ q.live.fills = q.dur.fills
  BY DEF Books, FillsSame, Pair
<1>. QED  BY <1>1, SameAfterUpdate

\* submit_order keeps the lists the same where it is an order's first and only
\* submission: a second one would empty the list in memory and not in the log.
LEMMA SubmitSame ==
  ASSUME MaxTries = 1, TypeOK, IInv, FillsSame, NEW o \in Order, SubmitOrder(o)
  PROVE  FillsSame'
<1>1. tries[o] \in 0..1 /\ tries[o] < 1 /\ mode = "up"
  BY DEF SubmitOrder, LockFree, TypeOK
<1>2. durable[o].fills = 0
  BY <1>1 DEF IInv, OrderInv, Unknown
<1>3. PICK q \in Book : /\ Update(o, q) /\ q.dur.fills = durable[o].fills
                        /\ q.live.fills = 0
  BY SubmitWrites
<1>. QED  BY <1>1, <1>2, <1>3, SameAfterUpdate

\* Every step keeps the lists the same.
LEMMA FillsSameStep ==
  ASSUME MaxTries = 1, "RecoverTwice" \notin Faults,
         TypeOK, IInv, FillsSame, [Next]_vars
  PROVE  FillsSame'
<1>1. ASSUME mem' = mem, durable' = durable, mode # "down" \/ mode' = "down"
      PROVE  FillsSame'
  BY <1>1 DEF FillsSame
<1>2. ASSUME mode' = "down" PROVE FillsSame'
  BY <1>2 DEF FillsSame
<1>3. ASSUME NEW o \in Order, OmsStep(o) PROVE FillsSame'
  <2>1. Pair(o) \in Book /\ broker[o] \in BrokerRec /\ Qty \in Nat
        /\ stream[o] \in Seq(BrokerEvent)
    BY StreamTypes, QtyAssumption
  <2>2. CASE SubmitOrder(o)
    BY <2>2, SubmitSame
  <2>3. CASE SubmitAccepted(o)
    BY <1>1, <2>1, <2>3, RecordAcceptedBooks, SameAfterBooks DEF SubmitAccepted
  <2>4. CASE SubmitRejected(o)
    BY <2>1, <2>4, EndHandlersBook, SameAfterBooks DEF SubmitRejected
  <2>5. CASE SubmitUnavailable(o)
    BY <1>1, <2>5 DEF SubmitUnavailable
  <2>6. CASE CancelOrder(o)
    <3>1. Books(Pair(o), Transition(Append1(Pair(o), "CANCELLED", 0), "CANCEL"), 0)
      BY <2>1, EndBooks
    <3>. QED  BY <1>1, <2>6, <3>1, SameAfterBooks DEF CancelOrder, LockFree
  <2>7. CASE DeliverEvent(o)
    <3>1. /\ stream[o] # <<>> /\ mode = "up"
          /\ Update(o, OnBrokerEvent(Pair(o), Head(stream[o])))
      BY <2>7 DEF DeliverEvent
    <3>2. Head(stream[o]) \in BrokerEvent
      BY <2>1, <3>1
    <3>. QED  BY <2>1, <3>1, <3>2, OnBrokerEventBooks, SameAfterBooks
  <2>8. CASE ReconcileOpenOrder(o)
    <3>1. mode = "recovering"
      BY <2>8 DEF ReconcileOpenOrder
    <3>2. CASE mem' = mem /\ durable' = durable
      BY <1>1, <3>1, <3>2
    <3>3. CASE Update(o, HandleRejection(Pair(o)))
      BY <2>1, <3>1, <3>3, EndHandlersBook, SameAfterBooks
    <3>4. CASE /\ broker[o].state # "NONE"
               /\ Update(o, CatchUpFromBroker(Pair(o), broker[o]))
      BY <2>1, <3>1, <3>4, CatchUpBooks, SameAfterBooks
    <3>. QED  BY <2>8, <3>2, <3>3, <3>4 DEF ReconcileOpenOrder
  <2>9. CASE CrashInCatchUp(o)
    BY <1>2, <2>9 DEF CrashInCatchUp, Stop
  <2>. QED  BY <1>3, <2>2, <2>3, <2>4, <2>5, <2>6, <2>7, <2>8, <2>9 DEF OmsStep
<1>4. ASSUME NEW o \in Order, BrokerStep(o) PROVE FillsSame'
  BY <1>1, <1>4 DEF BrokerStep, BrokerReceives, BrokerFills, BrokerEnds,
                    LoseEvent, FillsSame
<1>5. CASE Crash
  BY <1>2, <1>5 DEF Crash, Stop
<1>6. CASE Recover
  <2>1. mode = "down" /\ durable' = durable /\ ReplayLog
    BY <1>6 DEF Recover
  <2>2. ASSUME NEW o \in Order PROVE mem'[o].fills = durable[o].fills
    <3>1. mem[o] = Unknown /\ durable[o] \in OrderRec /\ durable[o].fills \in Nat
      BY <2>1 DEF IInv, OrderInv, TypeOK, OrderRec
    <3>2. CASE durable[o].state = "NONE"
      BY <2>1, <2>2, <3>2 DEF IInv, OrderInv, ReplayLog
    <3>3. CASE durable[o].state # "NONE"
      <4>1. mem'[o] = [durable[o] EXCEPT !.fills = Unknown.fills + @]
        BY <2>1, <3>1, <3>3 DEF ReplayLog
      <4>2. Unknown.fills = 0
        BY DEF Unknown
      <4>. QED  BY <3>1, <4>1, <4>2 DEF OrderRec
    <3>. QED  BY <3>2, <3>3
  <2>. QED  BY <2>1, <2>2 DEF FillsSame
<1>7. CASE RecoverReturns
  BY <1>7 DEF RecoverReturns, FillsSame
<1>8. CASE UNCHANGED vars
  BY <1>8 DEF vars, FillsSame
<1>. QED  BY <1>3, <1>4, <1>5, <1>6, <1>7, <1>8 DEF Next

\* Where no order is submitted twice and recover() runs once per process, which
\* is how App.start uses it, the list of fills that positions and lots are
\* computed from is the same in memory and in the log, and never lists more
\* than the broker executed: PositionIsSound.
THEOREM PositionsAreSound ==
  ASSUME MaxTries = 1, "RecoverTwice" \notin Faults
  PROVE  Spec => []PositionIsSound
<1>1. Init => FillsMatch /\ FillsSame
  BY DEF Init, FillsMatch, FillsSame, Unknown
<1>2. TypeOK /\ IInv /\ FillsMatch /\ FillsSame /\ [Next]_vars
        => FillsMatch' /\ FillsSame'
  BY FillsMatchStep, FillsSameStep
<1>3. Spec => [](TypeOK /\ IInv)
  BY Invariant
<1>4. TypeOK /\ IInv /\ FillsMatch /\ FillsSame => PositionIsSound
  BY DEF IInv, OrderInv, FillsMatch, FillsSame, PositionIsSound
<1>. QED  BY <1>1, <1>2, <1>3, <1>4, PTL DEF Spec

-----------------------------------------------------------------------------
(* Ends are final *)

\* A snapshot forced into a terminal state by a replay whose FSM had no arc to
\* it: live, a later event could still move it.
Stray(r) == r.state \in TerminalStates /\ r.fsm \notin TerminalStates

\* A record that may only stand for an order the broker is done with.
Shut(r) == r.state = "REJECTED" \/ Stray(r)

\* An arc taken is one of the table.
LEMMA TriggerIsArc ==
  ASSUME NEW s \in OrderState, NEW e, CanTrigger(s, e)
  PROVE  <<s, e, Trigger(s, e)>> \in Arcs
<1>1. \E to \in OrderState : <<s, e, to>> \in Arcs
  BY DEF CanTrigger
<1>2. <<s, e, CHOOSE to \in OrderState : <<s, e, to>> \in Arcs>> \in Arcs
  BY <1>1
<1>. QED  BY <1>2 DEF Trigger

\* What the table of the order lifecycle says of ends: a terminal state is
\* never left, PENDING never entered, REJECTED entered by REJECT only, and a
\* submitted order can always be cancelled.
LEMMA TriggerEnds ==
  ASSUME NEW s \in OrderState, NEW e
  PROVE  /\ s \in TerminalStates => ~CanTrigger(s, e) /\ Trigger(s, e) = s
         /\ s # "PENDING" => Trigger(s, e) # "PENDING"
         /\ CanTrigger(s, e) /\ e # "REJECT" => Trigger(s, e) # "REJECTED"
         /\ s # "PENDING" /\ e = "CANCEL" => Trigger(s, e) \in TerminalStates
<1>1. CanTrigger(s, e) => <<s, e, Trigger(s, e)>> \in Arcs
  BY TriggerIsArc
<1>2. ~CanTrigger(s, e) => Trigger(s, e) = s
  BY DEF Trigger
<1>3. s \in TerminalStates => ~CanTrigger(s, e)
  BY DEF CanTrigger, Arcs, TerminalStates
<1>4. s # "PENDING" => Trigger(s, e) # "PENDING"
  BY <1>1, <1>2 DEF Arcs
<1>5. CanTrigger(s, e) /\ e # "REJECT" => Trigger(s, e) # "REJECTED"
  BY <1>1 DEF Arcs
<1>6. s # "PENDING" /\ e = "CANCEL" => Trigger(s, e) \in TerminalStates
  <2>1. s \in {"SUBMITTED", "ACCEPTED", "PARTIAL"} => CanTrigger(s, "CANCEL")
    BY DEF CanTrigger, Arcs, OrderState
  <2>2. CanTrigger(s, "CANCEL") => Trigger(s, "CANCEL") = "CANCELLED"
    BY <1>1, TriggerIsArc DEF Arcs
  <2>3. s \in TerminalStates => Trigger(s, "CANCEL") \in TerminalStates
    BY <1>3, TriggerIsArc DEF Trigger, CanTrigger, Arcs, TerminalStates
  <2>. QED  BY <2>1, <2>2, <2>3 DEF OrderState, TerminalStates
<1>. QED  BY <1>2, <1>3, <1>4, <1>5, <1>6

\* What a handler may do to the states of one order.  Only for the reason why
\* does it log or give an end the FSM may not back; a live FSM that has ended
\* keeps its snapshot.
Ends(p, q, why) ==
  /\ Shut(q.dur) => Shut(p.dur) \/ why
  /\ q.live.state = "REJECTED" => p.live.state = "REJECTED" \/ why
  /\ Stray(q.live) => Stray(p.live)
  /\ p.dur.fsm # "PENDING" => q.dur.fsm # "PENDING"
  /\ p.live.fsm \in TerminalStates =>
       q.live.state = p.live.state /\ q.live.fsm = p.live.fsm

\* A handler that does nothing ends nothing.
LEMMA EndsNothing == ASSUME NEW p, NEW why PROVE Ends(p, p, why)
BY DEF Ends

\* Two handlers, one after the other.
LEMMA EndsTwice ==
  ASSUME NEW p, NEW q, NEW r, NEW why \in BOOLEAN,
         Ends(p, q, why), Ends(q, r, why)
  PROVE  Ends(p, r, why)
BY DEF Ends

\* A transition after an append, seen from the pair before the append.
LEMMA TransitionEnds ==
  ASSUME NEW p \in Book, NEW x \in Book, NEW e, NEW why \in BOOLEAN,
         x.live.state = p.live.state, x.live.fsm = p.live.fsm,
         Shut(x.dur) => Shut(p.dur) \/ why,
         p.dur.fsm # "PENDING" => x.dur.fsm # "PENDING",
         e = "REJECT" => why
  PROVE  Ends(p, Transition(x, e), why)
<1>. DEFINE s == Trigger(x.live.fsm, e)
            q == Transition(x, e)
<1>1. x.live \in OrderRec /\ x.live.fsm \in OrderState /\ p.live.fsm \in OrderState
  BY DEF Book, OrderRec
<1>2. CASE CanTrigger(x.live.fsm, e)
  <2>1. q.dur = x.dur /\ q.live.state = s /\ q.live.fsm = s
    <3>1. q = [x EXCEPT !.live = [x.live EXCEPT !.fsm = s, !.state = s]]
      BY <1>2 DEF Transition, Book, OrderRec
    <3>. QED  BY <1>1, <3>1 DEF Book, OrderRec
  <2>2. s = "REJECTED" => e = "REJECT"
    BY <1>1, <1>2, TriggerEnds
  <2>3. p.live.fsm \notin TerminalStates
    BY <1>1, <1>2, TriggerEnds
  <2>4. ~Stray(q.live)
    BY <2>1 DEF Stray
  <2>. HIDE DEF q, s
  <2>5. Ends(p, q, why)
    BY <2>1, <2>2, <2>3, <2>4 DEF Ends
  <2>. QED  BY <2>5 DEF q
<1>3. CASE ~CanTrigger(x.live.fsm, e)
  <2>1. q = x
    BY <1>3 DEF Transition
  <2>. HIDE DEF q
  <2>2. Ends(p, q, why)
    BY <2>1 DEF Ends, Stray
  <2>. QED  BY <2>2 DEF q
<1>. QED  BY <1>2, <1>3

\* The state and FSM that a logged row replays to.
LEMMA ReplayedState ==
  ASSUME NEW r \in OrderRec, NEW n \in Nat
  PROVE  /\ ApplyLoggedEvent(r, "ACCEPTED", 0).state = "ACCEPTED"
         /\ ApplyLoggedEvent(r, "CANCELLED", 0).state = "CANCELLED"
         /\ ApplyLoggedEvent(r, "REJECTED", 0).state = "REJECTED"
         /\ ApplyLoggedEvent(r, "EXPIRED", 0).state = "EXPIRED"
         /\ ApplyLoggedEvent(r, "FILL_RECEIVED", n).state
              = IF IsFullyFilled(r.filled + n) THEN "FILLED" ELSE "PARTIAL"
<1>1. ApplyLoggedEvent(r, "CANCELLED", 0).state = "CANCELLED"
  BY ForceType DEF ApplyLoggedEvent, OrderState
<1>2. ApplyLoggedEvent(r, "REJECTED", 0).state = "REJECTED"
  BY ForceType DEF ApplyLoggedEvent, OrderState
<1>3. ApplyLoggedEvent(r, "EXPIRED", 0).state = "EXPIRED"
  BY ForceType DEF ApplyLoggedEvent, OrderState
<1>4. ApplyLoggedEvent(r, "ACCEPTED", 0).state = "ACCEPTED"
  <2>. DEFINE b == [r EXCEPT !.bid = TRUE, !.mapped = TRUE]
  <2>1. b \in OrderRec
    BY DEF OrderRec
  <2>2. ApplyLoggedEvent(r, "ACCEPTED", 0) = ForceState(b, "ACCEPT", "ACCEPTED")
    BY DEF ApplyLoggedEvent
  <2>. HIDE DEF b
  <2>. QED  BY <2>1, <2>2, ForceType DEF OrderState
<1>5. ApplyLoggedEvent(r, "FILL_RECEIVED", n).state
        = IF IsFullyFilled(r.filled + n) THEN "FILLED" ELSE "PARTIAL"
  <2>. DEFINE f == [r EXCEPT !.filled = @ + n, !.fills = @ + n]
  <2>1. f \in OrderRec /\ f.filled = r.filled + n
    <3>1. r.filled + n \in Nat /\ r.fills + n \in Nat
      BY DEF OrderRec
    <3>. QED  BY <3>1 DEF OrderRec
  <2>2. ApplyLoggedEvent(r, "FILL_RECEIVED", n)
          = IF IsFullyFilled(f.filled) THEN ForceState(f, "FULL_FILL", "FILLED")
                                       ELSE ForceState(f, "PARTIAL_FILL", "PARTIAL")
    BY DEF ApplyLoggedEvent
  <2>. HIDE DEF f
  <2>. QED  BY <2>1, <2>2, ForceType DEF OrderState
<1>. QED  BY <1>1, <1>2, <1>3, <1>4, <1>5

\* Recording the broker id ends nothing.
LEMMA RecordAcceptedEnds ==
  ASSUME NEW p \in Book
  PROVE  Ends(p, RecordAccepted(p), FALSE)
<1>1. CASE p.live.bid
  BY <1>1, EndsNothing DEF RecordAccepted
<1>2. CASE ~p.live.bid
  <2>. DEFINE d == ApplyLoggedEvent(p.dur, "ACCEPTED", 0)
              a == Append1(p, "ACCEPTED", 0)
              b == [a EXCEPT !.live.bid = TRUE, !.live.mapped = TRUE]
  <2>1. p.dur \in OrderRec /\ p.live \in OrderRec /\ p.dur.fsm \in OrderState
    BY DEF Book, OrderRec
  <2>2. /\ d \in OrderRec /\ d.state = "ACCEPTED"
        /\ d.fsm = Trigger(p.dur.fsm, "ACCEPT")
    BY <2>1, ApplyAccepted, ReplayedState
  <2>3. a \in Book /\ a.live = p.live /\ a.dur = d
    BY <2>2, AppendType
  <2>4. RecordAccepted(p) = Transition(b, "ACCEPT")
    BY <1>2 DEF RecordAccepted
  <2>. HIDE DEF d, a
  <2>5. /\ b \in Book /\ b.dur = d
        /\ b.live.state = p.live.state /\ b.live.fsm = p.live.fsm
    BY <2>3 DEF Book, OrderRec
  <2>6. ~Shut(d) /\ (p.dur.fsm # "PENDING" => d.fsm # "PENDING")
    BY <2>1, <2>2, TriggerEnds DEF Shut, Stray, TerminalStates
  <2>. HIDE DEF b
  <2>. QED  BY <2>4, <2>5, <2>6, TransitionEnds
<1>. QED  BY <1>1, <1>2

\* A fill logs an end only when it completes the order.
LEMMA HandleFillEnds ==
  ASSUME NEW p \in Book, NEW n \in Nat
  PROVE  Ends(p, HandleFill(p, n), IsFullyFilled(p.dur.filled + n))
<1>. DEFINE d == ApplyLoggedEvent(p.dur, "FILL_RECEIVED", n)
            a == Append1(p, "FILL_RECEIVED", n)
            r == [a EXCEPT !.live.filled = @ + n, !.live.fills = @ + n]
            why == IsFullyFilled(p.dur.filled + n)
<1>1. /\ p.dur \in OrderRec /\ p.live \in OrderRec /\ p.dur.fsm \in OrderState
      /\ p.live.filled + n \in Nat /\ p.live.fills + n \in Nat
  BY DEF Book, OrderRec
<1>2. /\ d \in OrderRec /\ d.state = (IF why THEN "FILLED" ELSE "PARTIAL")
      /\ d.fsm = Trigger(p.dur.fsm, FillEvent(p.dur.filled + n))
  BY <1>1, ApplyFill, ReplayedState
<1>3. a \in Book /\ a.live = p.live /\ a.dur = d
  BY <1>2, AppendType
<1>4. HandleFill(p, n) = Transition(r, FillEvent(r.live.filled))
  BY DEF HandleFill, FillEvent
<1>. HIDE DEF d, a
<1>5. /\ r \in Book /\ r.dur = d
      /\ r.live.state = p.live.state /\ r.live.fsm = p.live.fsm
  <2>. DEFINE l == [p.live EXCEPT !.filled = @ + n, !.fills = @ + n]
  <2>1. l \in OrderRec /\ l.state = p.live.state /\ l.fsm = p.live.fsm
    BY <1>1 DEF OrderRec
  <2>2. r = [a EXCEPT !.live = l]
    BY <1>3 DEF Book, OrderRec
  <2>. HIDE DEF l
  <2>. QED  BY <1>3, <2>1, <2>2 DEF Book
<1>. HIDE DEF r
<1>6. FillEvent(r.live.filled) # "REJECT"
  BY DEF FillEvent
<1>7. why \in BOOLEAN
  BY DEF IsFullyFilled
<1>8. (Shut(d) => why) /\ (p.dur.fsm # "PENDING" => d.fsm # "PENDING")
  BY <1>1, <1>2, TriggerEnds DEF Shut, Stray, TerminalStates
<1>. HIDE DEF why
<1>9. Ends(p, Transition(r, FillEvent(r.live.filled)), why)
  BY <1>5, <1>6, <1>7, <1>8, TransitionEnds
<1>. QED  BY <1>4, <1>9 DEF why

\* The three ends without a quantity: the log's FSM can follow a cancellation
\* from every state after PENDING.
LEMMA EndHandlersEnd ==
  ASSUME NEW p \in Book, p.dur.fsm # "PENDING"
  PROVE  /\ Ends(p, HandleCancellation(p), FALSE)
         /\ Ends(p, Transition(Append1(p, "CANCELLED", 0), "CANCEL"), FALSE)
         /\ Ends(p, HandleRejection(p), TRUE)
         /\ Ends(p, HandleExpiry(p), TRUE)
<1>1. p.dur \in OrderRec /\ p.live \in OrderRec /\ p.dur.fsm \in OrderState
  BY DEF Book, OrderRec
<1>2. Ends(p, Transition(Append1(p, "CANCELLED", 0), "CANCEL"), FALSE)
  <2>. DEFINE d == ApplyLoggedEvent(p.dur, "CANCELLED", 0)
              a == Append1(p, "CANCELLED", 0)
  <2>1. d \in OrderRec /\ d.state = "CANCELLED" /\ d.fsm = Trigger(p.dur.fsm, "CANCEL")
    BY <1>1, ApplyEnd, ReplayedState
  <2>2. a \in Book /\ a.live = p.live /\ a.dur = d
    BY <2>1, AppendType
  <2>. HIDE DEF d, a
  <2>3. ~Shut(d) /\ d.fsm # "PENDING"
    BY <1>1, <2>1, TriggerEnds DEF Shut, Stray
  <2>4. Ends(p, Transition(a, "CANCEL"), FALSE)
    BY <2>2, <2>3, TransitionEnds
  <2>. QED  BY <2>4 DEF a
<1>3. ASSUME NEW k, NEW e,
             \/ k = "REJECTED" /\ e = "REJECT"
             \/ k = "EXPIRED" /\ e = "EXPIRE"
      PROVE  Ends(p, Transition(Append1(p, k, 0), e), TRUE)
  <2>. DEFINE d == ApplyLoggedEvent(p.dur, k, 0)
              a == Append1(p, k, 0)
  <2>1. d \in OrderRec /\ d.fsm = Trigger(p.dur.fsm, e)
    BY <1>1, <1>3, ApplyEnd
  <2>2. a \in Book /\ a.live = p.live /\ a.dur = d
    BY <2>1, AppendType
  <2>. HIDE DEF d, a
  <2>3. d.fsm # "PENDING"
    BY <1>1, <2>1, TriggerEnds
  <2>4. Ends(p, Transition(a, e), TRUE)
    BY <2>2, <2>3, TransitionEnds
  <2>. QED  BY <2>4 DEF a
<1>4. /\ Ends(p, Transition(Append1(p, "REJECTED", 0), "REJECT"), TRUE)
      /\ Ends(p, Transition(Append1(p, "EXPIRED", 0), "EXPIRE"), TRUE)
  BY <1>3
<1>. QED  BY <1>2, <1>4, EndsNothing
          DEF HandleCancellation, HandleRejection, HandleExpiry

\* force_close_filled ends the live order together with its FSM.
LEMMA ForceCloseEnds ==
  ASSUME NEW p \in Book
  PROVE  Ends(p, ForceCloseFilled(p), FALSE)
<1>1. Ends(p, Transition(p, "FULL_FILL"), FALSE)
  BY TransitionEnds
<1>. QED  BY <1>1, EndsNothing DEF ForceCloseFilled

\* A handler that has a reason has every weaker one.
LEMMA EndsFor ==
  ASSUME NEW p, NEW q, NEW some \in BOOLEAN, NEW why \in BOOLEAN,
         some => why, Ends(p, q, some)
  PROVE  Ends(p, q, why)
BY DEF Ends

\* A broker event logs an end for a rejection, an expiry, or a fill that
\* completes the order.
EventEnds(p, e) ==
  \/ e.state \in {"REJECTED", "EXPIRED"}
  \/ /\ e.state \in {"PARTIALLY_FILLED", "FILLED"}
     /\ IsFullyFilled(p.dur.filled + e.qty)

\* A broker event ends an order only if the event is one that ends it.
LEMMA OnBrokerEventEnds ==
  ASSUME NEW p \in Book, NEW e \in BrokerEvent, Qty \in Nat,
         p.live.state # "NONE" => p.dur.fsm # "PENDING"
  PROVE  Ends(p, OnBrokerEvent(p, e), EventEnds(p, e))
<1>1. /\ e.qty \in Nat /\ e.state \in BrokerState \ {"NONE"}
      /\ EventEnds(p, e) \in BOOLEAN
  BY DEF BrokerEvent, EventEnds
<1>2. CASE p.live.state = "NONE"
  BY <1>2, EndsNothing DEF OnBrokerEvent
<1>3. CASE p.live.state # "NONE" /\ e.state = "ACCEPTED"
  <2>1. Ends(p, OnBrokerEvent(p, e), FALSE)
    BY <1>3, EndsNothing, RecordAcceptedEnds DEF OnBrokerEvent
  <2>. QED  BY <1>1, <2>1, EndsFor
<1>4. CASE p.live.state # "NONE" /\ e.state \in {"PARTIALLY_FILLED", "FILLED"}
  <2>1. Ends(p, HandleFill(p, e.qty), IsFullyFilled(p.dur.filled + e.qty))
    BY <1>1, HandleFillEnds
  <2>2. OnBrokerEvent(p, e) = HandleFill(p, e.qty)
    BY <1>4 DEF OnBrokerEvent
  <2>3. IsFullyFilled(p.dur.filled + e.qty) => EventEnds(p, e)
    BY <1>4 DEF EventEnds
  <2>4. IsFullyFilled(p.dur.filled + e.qty) \in BOOLEAN
    BY DEF IsFullyFilled
  <2>. QED  BY <1>1, <2>1, <2>2, <2>3, <2>4, EndsFor
<1>5. CASE p.live.state # "NONE" /\ e.state = "CANCELED"
  <2>1. Ends(p, OnBrokerEvent(p, e), FALSE)
    BY <1>5, EndHandlersEnd DEF OnBrokerEvent
  <2>. QED  BY <1>1, <2>1, EndsFor
<1>6. CASE p.live.state # "NONE" /\ e.state = "REJECTED"
  <2>1. Ends(p, OnBrokerEvent(p, e), TRUE)
    BY <1>6, EndHandlersEnd DEF OnBrokerEvent
  <2>2. EventEnds(p, e) = TRUE
    BY <1>6 DEF EventEnds
  <2>. QED  BY <2>1, <2>2
<1>7. CASE p.live.state # "NONE" /\ e.state = "EXPIRED"
  <2>1. Ends(p, OnBrokerEvent(p, e), TRUE)
    BY <1>7, EndHandlersEnd DEF OnBrokerEvent
  <2>2. EventEnds(p, e) = TRUE
    BY <1>7 DEF EventEnds
  <2>. QED  BY <2>1, <2>2
<1>. QED  BY <1>1, <1>2, <1>3, <1>4, <1>5, <1>6, <1>7 DEF BrokerState

\* Catching up with a quantity logs an end when the broker has filled it all.
LEMMA CatchUpFillEnds ==
  ASSUME NEW p \in Book, NEW b \in BrokerRec, Qty \in Nat,
         p.live.filled = p.dur.filled
  PROVE  Ends(p, CatchUpFill(p, b), IsFullyFilled(b.filled))
<1>. DEFINE q == RecordAccepted(p)
            m == b.filled - q.live.filled
            why == IsFullyFilled(b.filled)
<1>1. /\ p.live.filled \in Nat /\ p.dur.filled \in Nat /\ b.filled \in Nat
      /\ why \in BOOLEAN
  BY DEF Book, OrderRec, BrokerRec, IsFullyFilled
<1>2. /\ q \in Book /\ q.live.filled = p.live.filled
      /\ q.dur.filled = p.live.filled
  BY <1>1, RecordAcceptedBooks DEF Books
<1>3. Ends(p, q, why)
  BY <1>1, RecordAcceptedEnds, EndsFor
<1>4. CASE b.filled > q.live.filled
  <2>1. m \in Nat /\ q.dur.filled + m = b.filled
    BY <1>1, <1>2, <1>4
  <2>2. CatchUpFill(p, b) = HandleFill(q, m)
    BY <1>4 DEF CatchUpFill
  <2>. HIDE DEF q, m
  <2>3. Ends(q, HandleFill(q, m), IsFullyFilled(q.dur.filled + m))
    BY <1>2, <2>1, HandleFillEnds
  <2>4. Ends(q, HandleFill(q, m), why)
    BY <2>1, <2>3
  <2>. HIDE DEF why
  <2>5. Ends(p, HandleFill(q, m), why)
    BY <1>1, <1>3, <2>4, EndsTwice
  <2>. QED  BY <2>2, <2>5 DEF why
<1>5. CASE ~(b.filled > q.live.filled)
  BY <1>3, <1>5 DEF CatchUpFill
<1>. QED  BY <1>4, <1>5

\* A catch-up may further log the rejection or expiry the broker reports.
BrokerEnded(b) ==
  IsFullyFilled(b.filled) \/ b.state \in {"REJECTED", "EXPIRED"}

\* Catching up ends an order only if the broker ended or filled it.
LEMMA CatchUpEnds ==
  ASSUME NEW p \in Book, NEW b \in BrokerRec, Qty \in Nat, b.state # "NONE",
         p.live.filled = p.dur.filled, p.dur.fsm # "PENDING"
  PROVE  Ends(p, CatchUpFromBroker(p, b), BrokerEnded(b))
<1>. DEFINE q == CatchUpFill(p, b)
            r == CatchUpFromBroker(p, b)
            why == BrokerEnded(b)
<1>1. why \in BOOLEAN /\ IsFullyFilled(b.filled) \in BOOLEAN
  BY DEF BrokerEnded, IsFullyFilled
<1>2. Ends(p, q, IsFullyFilled(b.filled))
  BY CatchUpFillEnds
<1>3. Ends(p, q, why)
  BY <1>1, <1>2 DEF Ends, BrokerEnded
<1>4. q \in Book
  BY CatchUpFillBooks DEF Books
<1>5. q.dur.fsm # "PENDING"
  BY <1>2 DEF Ends
<1>. HIDE DEF q
<1>6. Ends(q, r, why)
  <2>1. CASE b.state = "CANCELED"
    <3>1. r = HandleCancellation(q)
      BY <2>1 DEF CatchUpFromBroker, q
    <3>. QED  BY <1>1, <1>4, <1>5, <3>1, EndHandlersEnd, EndsFor
  <2>2. CASE b.state = "REJECTED"
    <3>1. r = HandleRejection(q) /\ why = TRUE
      BY <2>2 DEF CatchUpFromBroker, q, BrokerEnded
    <3>2. Ends(q, HandleRejection(q), TRUE)
      BY <1>4, <1>5, EndHandlersEnd
    <3>. QED  BY <3>1, <3>2
  <2>3. CASE b.state = "EXPIRED"
    <3>1. r = HandleExpiry(q) /\ why = TRUE
      BY <2>3 DEF CatchUpFromBroker, q, BrokerEnded
    <3>2. Ends(q, HandleExpiry(q), TRUE)
      BY <1>4, <1>5, EndHandlersEnd
    <3>. QED  BY <3>1, <3>2
  <2>4. CASE b.state = "FILLED"
    <3>1. r = ForceCloseFilled(q)
      BY <2>4 DEF CatchUpFromBroker, q
    <3>. QED  BY <1>1, <1>4, <3>1, ForceCloseEnds, EndsFor
  <2>5. CASE b.state \in {"ACCEPTED", "PARTIALLY_FILLED"}
    <3>1. r = q
      BY <2>5 DEF CatchUpFromBroker, q
    <3>. QED  BY <3>1, EndsNothing
  <2>6. b.state \in BrokerState \ {"NONE"}
    BY DEF BrokerRec
  <2>. QED  BY <2>1, <2>2, <2>3, <2>4, <2>5, <2>6 DEF BrokerState
<1>. HIDE DEF r, why
<1>7. Ends(p, r, why)
  BY <1>1, <1>3, <1>6, EndsTwice
<1>. QED  BY <1>7 DEF r, why

-----------------------------------------------------------------------------
(* The invariant behind EndIsFinal *)

\* The broker is done with the order and no request for it is on its way.
Over(o) == ~LiveAtBroker(broker[o]) /\ o \notin wire

\* Requests reach the broker only while their submit_order waits; an order the
\* broker works is not complete; an end in the stream has come.
BrokerInOrder(o) ==
  /\ o \in wire => broker[o].state = "NONE" /\ mode = "up" /\ call = o
  /\ LiveAtBroker(broker[o]) => broker[o].filled < Qty
  /\ \A i \in DOMAIN stream[o] :
       stream[o][i].state \in {"CANCELED", "REJECTED", "EXPIRED"}
         => broker[o].state = stream[o][i].state

\* A record given up or forced into an end stands for an order that is over,
\* and a live one of the latter kind hears nothing more.
RecordsInOrder(o) ==
  /\ durable[o].state # "NONE" => durable[o].fsm # "PENDING"
  /\ Shut(durable[o]) => Over(o)
  /\ mem[o].state = "REJECTED" => Over(o)
  /\ Stray(mem[o]) => Over(o) /\ stream[o] = <<>> /\ call # o

EndInv == \A o \in Order : BrokerInOrder(o) /\ RecordsInOrder(o)

\* The conditions under which an end is final.
Faithful == MaxTries = 1 /\ Faults \cap {"LateArrival", "FindReturnsNone"} = {}

\* An order about to be submitted is unknown to everyone.
LEMMA FirstSubmission ==
  ASSUME Faithful, TypeOK, IInv, NEW o \in Order, SubmitOrder(o)
  PROVE  /\ durable[o] = Unknown /\ mem[o] = Unknown /\ o \notin wire
         /\ broker[o].state = "NONE" /\ broker[o].filled = 0
<1>1. tries[o] \in 0..1 /\ tries[o] < 1
  BY DEF SubmitOrder, TypeOK, Faithful
<1>. QED  BY <1>1 DEF IInv, OrderInv


\* What the broker has filled of an order: less than its size, unless it calls
\* it FILLED, and nothing of an order it rejects.
Short(b) ==
  /\ b.state # "FILLED" => b.filled < Qty
  /\ b.state \in {"NONE", "REJECTED"} => b.filled = 0

\* The event of a fill has a quantity.
Counts(e) == e.state \in {"PARTIALLY_FILLED", "FILLED"} => e.qty \in Nat \ {0}

\* A step may deliver, lose or forget events of an order and leave the broker's
\* record of it alone.
Kept(x) ==
  /\ broker'[x] = broker[x]
  /\ \/ stream'[x] \in {stream[x], <<>>}
     \/ stream[x] # <<>> /\ stream'[x] = Tail(stream[x])

\* Or the broker moves an order that it works, or has just been sent, and
\* publishes where it moved it.
Moved(x) ==
  /\ LiveAtBroker(broker[x]) \/ (x \in wire /\ broker[x].state = "NONE")
  /\ LiveAtBroker(broker'[x]) => broker'[x].filled < Qty
  /\ Short(broker[x]) => Short(broker'[x])
  /\ broker'[x].state # "NONE"
  /\ \E e : /\ e.state = broker'[x].state /\ Counts(e)
            /\ stream'[x] \in {stream[x], Append(stream[x], e)}

\* No step does anything else to the broker's side of an order.
LEMMA BrokerMovesOn ==
  ASSUME TypeOK, NEW x \in Order, [Next]_vars,
         broker[x].state = "NONE" => broker[x].filled = 0
  PROVE  Kept(x) \/ Moved(x)
<1>1. broker[x] \in BrokerRec /\ stream[x] \in Seq(BrokerEvent) /\ Qty \in Nat \ {0}
  BY StreamTypes, QtyAssumption
<1>2. ASSUME NEW o \in Order, NEW s, NEW n, NEW m, Emit(o, s, n, m),
             s \in {"PARTIALLY_FILLED", "FILLED"} => n \in Nat \ {0}
      PROVE  /\ x # o => stream'[x] = stream[x]
             /\ x = o => \E e : /\ e.state = s /\ Counts(e)
                                /\ stream'[x] \in {stream[x], Append(stream[x], e)}
  <2>1. DOMAIN stream = Order
    BY DEF TypeOK
  <2>2. LET e == [state |-> s, qty |-> n, upto |-> m] IN e.state = s /\ Counts(e)
    BY <1>2 DEF Counts
  <2>. QED  BY <1>2, <2>1, <2>2 DEF Emit
<1>3. ASSUME NEW o \in Order, OmsStep(o) PROVE Kept(x) \/ Moved(x)
  <2>1. CASE UNCHANGED <<broker, stream>>
    BY <2>1 DEF Kept, Moved
  <2>2. CASE CancelOrder(o)
    <3>1. CASE UNCHANGED <<broker, stream>>
      BY <3>1 DEF Kept, Moved
    <3>2. CASE /\ LiveAtBroker(broker[o])
               /\ broker' = [broker EXCEPT ![o].state = "CANCELED"]
               /\ Emit(o, "CANCELED", 0, broker[o].filled)
      <4>1. CASE x # o
        <5>1. broker'[x] = broker[x]
          BY <3>2, <4>1 DEF TypeOK
        <5>. QED  BY <1>2, <3>2, <4>1, <5>1 DEF Kept
      <4>2. CASE x = o
        <5>1. broker'[x].state = "CANCELED" /\ broker'[x].filled = broker[x].filled
          BY <1>1, <3>2, <4>2 DEF TypeOK, BrokerRec
        <5>2. \E e : /\ e.state = "CANCELED" /\ Counts(e)
                     /\ stream'[x] \in {stream[x], Append(stream[x], e)}
          BY <1>2, <3>2, <4>2
        <5>. QED  BY <3>2, <4>2, <5>1, <5>2 DEF LiveAtBroker, Kept, Moved, Short
      <4>. QED  BY <4>1, <4>2
    <3>. QED  BY <2>2, <3>1, <3>2 DEF CancelOrder
  <2>3. CASE DeliverEvent(o)
    BY <2>3 DEF DeliverEvent, TypeOK, Kept, Moved
  <2>4. CASE CrashInCatchUp(o)
    BY <2>4 DEF CrashInCatchUp, Stop, Kept, Moved
  <2>. QED  BY <1>3, <2>1, <2>2, <2>3, <2>4
            DEF OmsStep, SubmitOrder, SubmitAccepted, SubmitRejected,
                SubmitUnavailable, ReconcileOpenOrder
<1>4. ASSUME NEW o \in Order, BrokerStep(o) PROVE Kept(x) \/ Moved(x)
  <2>1. CASE BrokerReceives(o)
    <3>1. CASE broker[o].state # "NONE"
      BY <2>1, <3>1 DEF BrokerReceives, Kept, Moved
    <3>2. CASE broker[o].state = "NONE"
      <4>1. /\ broker' = [broker EXCEPT ![o].state = "ACCEPTED"]
            /\ Emit(o, "ACCEPTED", 0, 0) /\ o \in wire
        BY <2>1, <3>2 DEF BrokerReceives
      <4>2. CASE x # o
        <5>1. broker'[x] = broker[x]
          BY <4>1, <4>2 DEF TypeOK
        <5>. QED  BY <1>2, <4>1, <4>2, <5>1 DEF Kept, Moved
      <4>3. CASE x = o
        <5>1. broker'[x].state = "ACCEPTED" /\ broker'[x].filled = broker[x].filled
          BY <1>1, <4>1, <4>3 DEF TypeOK, BrokerRec
        <5>2. broker[x].filled = 0
          BY <3>2, <4>3
        <5>3. \E e : /\ e.state = "ACCEPTED" /\ Counts(e)
                     /\ stream'[x] \in {stream[x], Append(stream[x], e)}
          BY <1>2, <4>1, <4>3
        <5>. QED  BY <1>1, <3>2, <4>1, <4>3, <5>1, <5>2, <5>3 DEF Kept, Moved, Short
      <4>. QED  BY <4>2, <4>3
    <3>. QED  BY <3>1, <3>2
  <2>2. CASE BrokerFills(o)
    <3>1. PICK k \in 1..(Qty - broker[o].filled),
               s \in {"PARTIALLY_FILLED", "FILLED"} :
            /\ s # "FILLED" => broker[o].filled + k < Qty
            /\ broker' = [broker EXCEPT ![o] = [state |-> s,
                                                filled |-> broker[o].filled + k]]
            /\ Emit(o, s, k, broker[o].filled + k)
      BY <2>2 DEF BrokerFills
    <3>2. CASE x # o
      <4>1. broker'[x] = broker[x]
        BY <3>1, <3>2
      <4>. QED  BY <1>2, <3>1, <3>2, <4>1 DEF Kept, Moved
    <3>3. CASE x = o
      <4>1. broker'[x].state = s /\ broker'[x].filled = broker[o].filled + k
        BY <3>1, <3>3 DEF TypeOK
      <4>2. \E e : /\ e.state = s /\ Counts(e)
                   /\ stream'[x] \in {stream[x], Append(stream[x], e)}
        BY <1>2, <3>1, <3>3
      <4>3. LiveAtBroker(broker[o])
        BY <2>2 DEF BrokerFills
      <4>. QED  BY <3>1, <3>3, <4>1, <4>2, <4>3 DEF LiveAtBroker, Kept, Moved, Short
    <3>. QED  BY <3>2, <3>3
  <2>3. CASE BrokerEnds(o)
    <3>1. PICK s \in {"CANCELED", "REJECTED", "EXPIRED"} :
            /\ s = "REJECTED" => broker[o].filled = 0
            /\ broker' = [broker EXCEPT ![o].state = s]
            /\ Emit(o, s, 0, broker[o].filled)
      BY <2>3 DEF BrokerEnds
    <3>2. CASE x # o
      <4>1. broker'[x] = broker[x]
        BY <3>1, <3>2
      <4>. QED  BY <1>2, <3>1, <3>2, <4>1 DEF Kept, Moved
    <3>3. CASE x = o
      <4>1. broker'[x].state = s /\ broker'[x].filled = broker[x].filled
        BY <1>1, <3>1, <3>3 DEF TypeOK, BrokerRec
      <4>2. \E e : /\ e.state = s /\ Counts(e)
                   /\ stream'[x] \in {stream[x], Append(stream[x], e)}
        BY <1>2, <3>1, <3>3
      <4>3. LiveAtBroker(broker[o])
        BY <2>3 DEF BrokerEnds
      <4>. QED  BY <3>1, <3>3, <4>1, <4>2, <4>3 DEF LiveAtBroker, Kept, Moved, Short
    <3>. QED  BY <3>2, <3>3
  <2>4. CASE LoseEvent(o)
    BY <2>4 DEF LoseEvent, TypeOK, Kept, Moved
  <2>. QED  BY <1>4, <2>1, <2>2, <2>3, <2>4 DEF BrokerStep
<1>5. CASE Crash \/ Recover
  BY <1>5 DEF Crash, Stop, Recover, Kept, Moved
<1>6. CASE RecoverReturns \/ UNCHANGED vars
  BY <1>6 DEF RecoverReturns, vars, Kept, Moved
<1>. QED  BY <1>3, <1>4, <1>5, <1>6 DEF Next

\* So it does under the invariant of the OMS.
LEMMA BrokerMoves ==
  ASSUME TypeOK, IInv, NEW x \in Order, [Next]_vars
  PROVE  Kept(x) \/ Moved(x)
BY BrokerMovesOn DEF IInv, OrderInv

\* What a step does to the requests on their way, where none arrives late.
LEMMA WireMoves ==
  ASSUME Faithful, NEW x \in Order, [Next]_vars
  PROVE  /\ x \in wire' => x \in wire \/ SubmitOrder(x)
         /\ mode' = "down" /\ mode # "down" => x \notin wire'
<1>1. "LateArrival" \notin Faults
  BY DEF Faithful
<1>2. ASSUME NEW o \in Order, OmsStep(o)
      PROVE  /\ x \in wire' => x \in wire \/ SubmitOrder(x)
             /\ mode' = "down" /\ mode # "down" => x \notin wire'
  BY <1>1, <1>2
     DEF OmsStep, SubmitOrder, SubmitAccepted, SubmitRejected, LockFree,
         SubmitUnavailable, CancelOrder, DeliverEvent, ReconcileOpenOrder,
         CrashInCatchUp, Stop
<1>3. ASSUME NEW o \in Order, BrokerStep(o)
      PROVE  wire' \subseteq wire /\ mode' = mode
  BY <1>3 DEF BrokerStep, BrokerReceives, BrokerFills, BrokerEnds, LoseEvent
<1>4. CASE Crash \/ Recover \/ RecoverReturns \/ UNCHANGED vars
  BY <1>1, <1>4 DEF Crash, Stop, Recover, RecoverReturns, vars
<1>. QED  BY <1>2, <1>3, <1>4 DEF Next

\* An order that is over stays so, and its last event was the last.
LEMMA OverStays ==
  ASSUME Faithful, TypeOK, IInv, NEW x \in Order, [Next]_vars,
         ~SubmitOrder(x), Over(x)
  PROVE  Over(x)' /\ (stream[x] = <<>> => stream'[x] = <<>>)
<1>1. x \notin wire'
  BY WireMoves DEF Over
<1>2. Kept(x)
  BY BrokerMoves DEF Moved, Over
<1>. QED  BY <1>1, <1>2 DEF Kept, Over, LiveAtBroker

\* The requests on their way after a step.
LEMMA WireStep ==
  ASSUME Faithful, TypeOK, IInv, EndInv, NEW x \in Order, [Next]_vars,
         x \in wire'
  PROVE  broker'[x].state = "NONE" /\ mode' = "up" /\ call' = x
<1>1. \A o \in wire : o \in Order /\ broker[o].state = "NONE" /\ mode = "up" /\ call = o
  BY DEF EndInv, BrokerInOrder, TypeOK
<1>2. "LateArrival" \notin Faults /\ NoOrder # x
  BY NoOrderAssumption DEF Faithful
<1>3. ASSUME NEW o \in Order, OmsStep(o)
      PROVE  broker'[x].state = "NONE" /\ mode' = "up" /\ call' = x
  <2>1. CASE SubmitOrder(o)
    <3>1. call = NoOrder /\ mode = "up" /\ mode' = mode /\ call' = o
          /\ wire' = wire \cup {o} /\ broker' = broker
      BY <2>1 DEF SubmitOrder, LockFree
    <3>2. x = o
      BY <1>1, <1>2, <3>1
    <3>3. broker[o].state = "NONE"
      BY <2>1, FirstSubmission
    <3>. QED  BY <3>1, <3>2, <3>3
  <2>2. CASE SubmitAccepted(o) \/ SubmitRejected(o) \/ SubmitUnavailable(o)
    BY <1>1, <1>2, <2>2 DEF SubmitAccepted, SubmitRejected, SubmitUnavailable
  <2>3. CASE CancelOrder(o)
    BY <1>1, <1>2, <2>3 DEF CancelOrder, LockFree
  <2>4. CASE DeliverEvent(o)
    BY <1>1, <2>4 DEF DeliverEvent
  <2>5. CASE ReconcileOpenOrder(o) \/ CrashInCatchUp(o)
    BY <1>1, <1>2, <2>5 DEF ReconcileOpenOrder, CrashInCatchUp, Stop
  <2>. QED  BY <1>3, <2>1, <2>2, <2>3, <2>4, <2>5 DEF OmsStep
<1>4. ASSUME NEW o \in Order, BrokerStep(o)
      PROVE  broker'[x].state = "NONE" /\ mode' = "up" /\ call' = x
  <2>1. mode' = mode /\ call' = call /\ wire' \subseteq wire
        /\ (BrokerReceives(o) => o \notin wire')
    BY <1>4 DEF BrokerStep, BrokerReceives, BrokerFills, BrokerEnds, LoseEvent
  <2>2. broker'[x] = broker[x]
    <3>1. CASE x = o
      BY <1>1, <1>4, <2>1, <3>1
         DEF BrokerStep, BrokerFills, BrokerEnds, LoseEvent, LiveAtBroker
    <3>2. CASE x # o
      BY <1>4, <3>2, StepFrame
    <3>. QED  BY <3>1, <3>2
  <2>. QED  BY <1>1, <2>1, <2>2
<1>5. CASE Crash
  BY <1>2, <1>5 DEF Crash, Stop
<1>6. CASE Recover
  <2>1. wire' = wire /\ (mode = "down" \/ call = NoOrder)
    BY <1>6 DEF Recover, LockFree
  <2>. QED  BY <1>1, <1>2, <2>1
<1>7. CASE RecoverReturns
  BY <1>1, <1>7 DEF RecoverReturns
<1>8. CASE UNCHANGED vars
  BY <1>1, <1>8 DEF vars
<1>. QED  BY <1>3, <1>4, <1>5, <1>6, <1>7, <1>8 DEF Next

\* The broker's side of an order stays in order.
LEMMA BrokerInOrderStep ==
  ASSUME Faithful, TypeOK, TypeOK', IInv, EndInv, NEW x \in Order, [Next]_vars
  PROVE  BrokerInOrder(x)'
<1>1. BrokerInOrder(x)
  BY DEF EndInv
<1>2. stream[x] \in Seq(BrokerEvent) /\ stream'[x] \in Seq(BrokerEvent)
  BY DEF TypeOK
<1>3. x \in wire' => broker'[x].state = "NONE" /\ mode' = "up" /\ call' = x
  BY WireStep
<1>4. LiveAtBroker(broker'[x]) => broker'[x].filled < Qty
  BY <1>1, BrokerMoves DEF BrokerInOrder, Kept, Moved
<1>5. ASSUME NEW i \in DOMAIN stream'[x],
             stream'[x][i].state \in {"CANCELED", "REJECTED", "EXPIRED"}
      PROVE  broker'[x].state = stream'[x][i].state
  <2>1. ASSUME NEW j \in DOMAIN stream[x], stream'[x][i] = stream[x][j]
        PROVE  broker'[x].state = stream'[x][i].state
    <3>1. broker[x].state = stream[x][j].state
      BY <1>1, <1>5, <2>1 DEF BrokerInOrder
    <3>2. ~Moved(x)
      BY <1>5, <2>1, <3>1 DEF Moved, LiveAtBroker
    <3>. QED  BY <2>1, <3>1, <3>2, BrokerMoves DEF Kept
  <2>2. CASE stream'[x] = stream[x]
    BY <2>1, <2>2
  <2>3. CASE stream'[x] = <<>>
    BY <1>5, <2>3
  <2>4. CASE stream[x] # <<>> /\ stream'[x] = Tail(stream[x])
    <3>1. i + 1 \in DOMAIN stream[x] /\ stream'[x][i] = stream[x][i + 1]
      BY <1>2, <1>5, <2>4
    <3>. QED  BY <2>1, <3>1
  <2>5. ASSUME NEW e, e.state = broker'[x].state, stream'[x] = Append(stream[x], e)
        PROVE  broker'[x].state = stream'[x][i].state
    <3>1. \/ i \in DOMAIN stream[x] /\ stream'[x][i] = stream[x][i]
          \/ stream'[x][i] = e
      BY <1>2, <1>5, <2>5
    <3>. QED  BY <2>1, <2>5, <3>1
  <2>. QED  BY <2>2, <2>3, <2>4, <2>5, BrokerMoves DEF Kept, Moved
<1>. QED  BY <1>3, <1>4, <1>5 DEF BrokerInOrder

\* The records a first submission writes are open.
LEMMA SubmitStarts ==
  ASSUME TypeOK, NEW o \in Order, SubmitOrder(o)
  PROVE  /\ mem'[o].state = "SUBMITTED" /\ mem'[o].fsm = "SUBMITTED"
         /\ durable'[o].state = "SUBMITTED" /\ durable'[o].fsm = "SUBMITTED"
<1>. DEFINE d == ApplyLoggedEvent(durable[o], "SUBMIT_INTENT", 0)
            p == Append1(Pair(o), "SUBMIT_INTENT", 0)
            u == Pending(mem[o].mapped)
            f == [p EXCEPT !.live = u]
            q == Transition(f, "SUBMIT")
<1>1. Pair(o) \in Book /\ mem[o] \in OrderRec /\ durable[o] \in OrderRec
      /\ Pair(o).dur = durable[o]
  BY StreamTypes DEF Pair
<1>2. CanTrigger("PENDING", "SUBMIT") /\ "PENDING" \in OrderState
  BY DEF CanTrigger, Arcs, OrderState
<1>3. Trigger("PENDING", "SUBMIT") = "SUBMITTED"
  BY <1>2, TriggerIsArc DEF Arcs
<1>4. d \in OrderRec /\ d.state = "SUBMITTED" /\ d.fsm = "SUBMITTED"
  BY <1>1, <1>3, ApplyIntent
<1>5. p \in Book /\ p.dur = d
  BY <1>1, <1>4, AppendType
<1>6. u.fsm = "PENDING" /\ u \in OrderRec
  BY <1>1, <1>2 DEF Pending, OrderRec
<1>7. Update(o, q)
  BY DEF SubmitOrder
<1>. HIDE DEF d, p, u
<1>8. f \in Book /\ f.dur = d /\ f.live = u
  BY <1>5, <1>6 DEF Book
<1>. HIDE DEF f
<1>9. q.live.state = "SUBMITTED" /\ q.live.fsm = "SUBMITTED" /\ q.dur = d /\ q \in Book
  <2>1. q.live.state = "SUBMITTED" /\ q.live.fsm = "SUBMITTED"
    BY <1>2, <1>3, <1>6, <1>8 DEF Transition, Book, OrderRec
  <2>. QED  BY <1>8, <2>1, TransitionType
<1>. HIDE DEF q
<1>10. mem'[o] = q.live /\ durable'[o] = q.dur
  BY <1>7, <1>9, UpdateType
<1>. QED  BY <1>4, <1>9, <1>10

\* An order's records stay in order when a step leaves them alone.
LEMMA RecordsKept ==
  ASSUME Faithful, TypeOK, IInv, EndInv, NEW x \in Order, [Next]_vars,
         ~SubmitOrder(x), call' # x \/ call' = call,
         mem'[x] = mem[x], durable'[x] = durable[x]
  PROVE  RecordsInOrder(x)'
<1>1. RecordsInOrder(x)
  BY DEF EndInv
<1>. QED  BY <1>1, OverStays DEF RecordsInOrder, Shut, Stray

\* And when a handler writes them that ends the order for a reason.
LEMMA RecordsWritten ==
  ASSUME Faithful, TypeOK, IInv, EndInv, NEW x \in Order, [Next]_vars,
         ~SubmitOrder(x), call' # x \/ call' = call,
         NEW q \in Book, NEW why \in BOOLEAN, Ends(Pair(x), q, why),
         mem'[x] = q.live, durable'[x] = q.dur,
         durable[x].state # "NONE", why => Over(x)'
  PROVE  RecordsInOrder(x)'
<1>1. RecordsInOrder(x) /\ Pair(x).live = mem[x] /\ Pair(x).dur = durable[x]
  BY DEF EndInv, Pair
<1>2. durable'[x].fsm # "PENDING"
  BY <1>1 DEF RecordsInOrder, Ends
<1>3. Shut(q.dur) => Over(x)'
  BY <1>1, OverStays DEF RecordsInOrder, Ends
<1>4. q.live.state = "REJECTED" => Over(x)'
  BY <1>1, OverStays DEF RecordsInOrder, Ends
<1>5. Stray(q.live) => Over(x)' /\ stream'[x] = <<>> /\ call' # x
  BY <1>1, OverStays DEF RecordsInOrder, Ends
<1>. QED  BY <1>2, <1>3, <1>4, <1>5 DEF RecordsInOrder, Shut, Stray

\* A step of the OMS on an order keeps its records in order.
LEMMA OmsRecords ==
  ASSUME Faithful, TypeOK, IInv, EndInv, NEW o \in Order, OmsStep(o)
  PROVE  RecordsInOrder(o)'
<1>. DEFINE rejected == HandleRejection(Pair(o))
            caughtUp == CatchUpFromBroker(Pair(o), broker[o])
<1>1. /\ Pair(o) \in Book /\ Pair(o).live = mem[o] /\ Pair(o).dur = durable[o]
      /\ broker[o] \in BrokerRec /\ stream[o] \in Seq(BrokerEvent)
      /\ Qty \in Nat \ {0} /\ broker[o].filled \in Nat /\ durable[o].filled \in Nat
      /\ mem \in [Order -> OrderRec] /\ durable \in [Order -> OrderRec]
  BY StreamTypes, QtyAssumption DEF Pair, TypeOK
<1>2. OrderInv(o) /\ RecordsInOrder(o) /\ BrokerInOrder(o)
  BY DEF IInv, EndInv
<1>3. durable[o].state = "NONE" => mem[o].state = "NONE" /\ call # o /\ o \notin pending
  BY <1>2 DEF OrderInv, Unknown
<1>4. [Next]_vars /\ NoOrder # o /\ "LateArrival" \notin Faults
      /\ "FindReturnsNone" \notin Faults
  BY NoOrderAssumption DEF Next, Faithful
<1>5. ASSUME NEW q \in Book, NEW why \in BOOLEAN, Ends(Pair(o), q, why),
             Update(o, q), durable[o].state # "NONE", why => Over(o)',
             ~SubmitOrder(o), call' # o \/ call' = call
      PROVE  RecordsInOrder(o)'
  <2>1. mem'[o] = q.live /\ durable'[o] = q.dur
    BY <1>5, UpdateType
  <2>. QED  BY <1>4, <1>5, <2>1, RecordsWritten
<1>6. ASSUME mem' = mem, durable' = durable, ~SubmitOrder(o),
             call' # o \/ call' = call
      PROVE  RecordsInOrder(o)'
  BY <1>4, <1>6, RecordsKept
<1>7. IsFullyFilled(broker[o].filled) => ~LiveAtBroker(broker[o])
  BY <1>1, <1>2 DEF BrokerInOrder, IsFullyFilled
<1>8. CASE SubmitOrder(o)
  BY <1>8, SubmitStarts DEF RecordsInOrder, Shut, Stray, TerminalStates
<1>9. ASSUME ~SubmitOrder(o) PROVE RecordsInOrder(o)'
  <2>1. CASE SubmitAccepted(o)
    <3>1. call' = NoOrder /\ call = o
      BY <2>1 DEF SubmitAccepted
    <3>2. Ends(Pair(o), RecordAccepted(Pair(o)), FALSE)
          /\ RecordAccepted(Pair(o)) \in Book
      BY <1>1, RecordAcceptedEnds, RecordAcceptedBooks DEF Books
    <3>. QED  BY <1>3, <1>4, <1>5, <1>6, <1>9, <2>1, <3>1, <3>2 DEF SubmitAccepted
  <2>2. CASE SubmitRejected(o)
    <3>1. /\ call' = NoOrder /\ call = o /\ broker' = broker /\ o \notin wire'
          /\ broker[o].state = "NONE" /\ Update(o, rejected)
      BY <2>2 DEF SubmitRejected
    <3>2. Over(o)' /\ durable[o].state # "NONE"
      BY <1>3, <3>1 DEF Over, LiveAtBroker
    <3>3. Ends(Pair(o), rejected, TRUE) /\ rejected \in Book
      BY <1>1, <1>2, <3>2, EndHandlersEnd, EndHandlersBook
         DEF Books, RecordsInOrder
    <3>. QED  BY <1>4, <1>5, <1>9, <3>1, <3>2, <3>3
  <2>3. CASE SubmitUnavailable(o)
    BY <1>4, <1>6, <1>9, <2>3 DEF SubmitUnavailable
  <2>4. CASE CancelOrder(o)
    <3>. DEFINE q == Transition(Append1(Pair(o), "CANCELLED", 0), "CANCEL")
    <3>1. call' = call /\ durable[o].state # "NONE"
          /\ (Update(o, q) \/ (mem' = mem /\ durable' = durable))
      BY <1>3, <2>4 DEF CancelOrder, IsOpen
    <3>2. Ends(Pair(o), q, FALSE) /\ q \in Book
      BY <1>1, <1>2, <3>1, EndHandlersEnd, EndBooks DEF Books, RecordsInOrder
    <3>. HIDE DEF q
    <3>. QED  BY <1>5, <1>6, <1>9, <3>1, <3>2
  <2>5. CASE DeliverEvent(o)
    <3>. DEFINE e == Head(stream[o])
                q == OnBrokerEvent(Pair(o), e)
                why == EventEnds(Pair(o), e)
    <3>1. /\ stream[o] # <<>> /\ mode = "up" /\ Update(o, q)
          /\ call' = call /\ broker' = broker /\ wire' = wire
      BY <2>5 DEF DeliverEvent
    <3>2. /\ 1 \in DOMAIN stream[o] /\ e = stream[o][1] /\ e \in BrokerEvent
          /\ e.qty \in Nat /\ e.upto \in Nat
      BY <1>1, <3>1, EventTypes
    <3>3. q \in Book
      BY <1>1, <3>2, OnBrokerEventBooks DEF Books
    <3>4. mem[o].state # "NONE" => durable[o].fsm # "PENDING"
      BY <1>2, <1>3 DEF RecordsInOrder
    <3>5. Ends(Pair(o), q, why) /\ why \in BOOLEAN
      <4>1. Ends(Pair(o), q, why)
        BY <1>1, <3>2, <3>4, OnBrokerEventEnds
      <4>. QED  BY <4>1 DEF EventEnds
    <3>6. why => Over(o)'
      <4>1. CASE e.state \in {"REJECTED", "EXPIRED"}
        <5>1. broker[o].state = e.state
          BY <1>2, <3>2, <4>1 DEF BrokerInOrder
        <5>. QED  BY <1>2, <3>1, <4>1, <5>1 DEF Over, LiveAtBroker, BrokerInOrder
      <4>2. CASE IsFullyFilled(durable[o].filled + e.qty)
        <5>1. durable[o].filled + e.qty <= broker[o].filled
          BY <1>1, <1>2, <3>2 DEF OrderInv, StreamIsAhead
        <5>2. IsFullyFilled(broker[o].filled)
          BY <1>1, <3>2, <4>2, <5>1 DEF IsFullyFilled
        <5>3. broker[o].state # "NONE"
          BY <1>1, <1>2, <5>2 DEF OrderInv, IsFullyFilled
        <5>. QED  BY <1>2, <1>7, <3>1, <5>2, <5>3
                  DEF Over, LiveAtBroker, BrokerInOrder
      <4>. QED  BY <1>1, <4>1, <4>2 DEF EventEnds
    <3>7. CASE durable[o].state = "NONE"
      <4>1. q = Pair(o)
        BY <1>1, <1>3, <3>7 DEF OnBrokerEvent
      <4>2. mem'[o] = mem[o] /\ durable'[o] = durable[o]
        BY <1>1, <3>1, <4>1, UpdateType
      <4>. QED  BY <1>4, <1>9, <3>1, <4>2, RecordsKept
    <3>. HIDE DEF q, why
    <3>. QED  BY <1>5, <1>9, <3>1, <3>3, <3>5, <3>6, <3>7
  <2>6. ASSUME o \in pending, mode = "recovering"
        PROVE  /\ durable[o].state # "NONE" /\ durable[o].fsm # "PENDING"
               /\ mem[o].filled = durable[o].filled /\ o \notin wire
    BY <1>1, <1>2, <1>3, <2>6
       DEF OrderInv, Agree, RecordsInOrder, BrokerInOrder
  <2>7. CASE ReconcileOpenOrder(o)
    <3>1. /\ mode = "recovering" /\ o \in pending /\ call' = call
          /\ broker' = broker /\ wire' = wire
      BY <2>7 DEF ReconcileOpenOrder
    <3>2. CASE broker[o].state = "NONE" /\ Update(o, rejected)
      <4>1. Ends(Pair(o), rejected, TRUE) /\ rejected \in Book
        BY <1>1, <2>6, <3>1, EndHandlersEnd, EndHandlersBook DEF Books
      <4>2. Over(o)'
        BY <2>6, <3>1, <3>2 DEF Over, LiveAtBroker
      <4>. QED  BY <1>5, <1>9, <2>6, <3>1, <3>2, <4>1, <4>2
    <3>3. CASE mem' = mem /\ durable' = durable
      BY <1>6, <1>9, <3>1, <3>3
    <3>4. CASE broker[o].state # "NONE" /\ Update(o, caughtUp)
      <4>. DEFINE why == BrokerEnded(broker[o])
      <4>1. Ends(Pair(o), caughtUp, why) /\ caughtUp \in Book
        BY <1>1, <2>6, <3>1, <3>4, CatchUpEnds, CatchUpBooks DEF Books
      <4>2. why => Over(o)'
        BY <1>7, <2>6, <3>1 DEF Over, LiveAtBroker, BrokerEnded
      <4>3. why \in BOOLEAN
        BY DEF BrokerEnded, IsFullyFilled
      <4>. HIDE DEF why, caughtUp
      <4>. QED  BY <1>5, <1>9, <2>6, <3>1, <3>4, <4>1, <4>2, <4>3
    <3>. QED  BY <1>4, <2>7, <3>2, <3>3, <3>4 DEF ReconcileOpenOrder
  <2>8. CASE CrashInCatchUp(o)
    <3>1. /\ mode = "recovering" /\ o \in pending /\ broker' = broker
          /\ o \notin wire' /\ call' = NoOrder /\ mem'[o] = Unknown
      BY <1>4, <2>8 DEF CrashInCatchUp, Stop
    <3>2. PICK p \in {RecordAccepted(Pair(o)), CatchUpFill(Pair(o), broker[o])} :
            durable' = [durable EXCEPT ![o] = p.dur]
      BY <2>8 DEF CrashInCatchUp
    <3>3. durable'[o] = p.dur
      BY <1>1, <3>2
    <3>4. Ends(Pair(o), p, IsFullyFilled(broker[o].filled))
      <4>1. IsFullyFilled(broker[o].filled) \in BOOLEAN
        BY DEF IsFullyFilled
      <4>. QED  BY <1>1, <2>6, <3>1, <3>2, <4>1, RecordAcceptedEnds, EndsFor,
                   CatchUpFillEnds
    <3>5. p.dur.fsm # "PENDING"
      BY <1>1, <2>6, <3>1, <3>4 DEF Ends
    <3>6. Shut(p.dur) => Over(o)'
      BY <1>1, <1>2, <1>7, <3>1, <3>4 DEF Ends, RecordsInOrder, Over
    <3>7. Unknown.state # "REJECTED" /\ ~Stray(Unknown)
      BY DEF Unknown, Stray, TerminalStates
    <3>. QED  BY <3>1, <3>3, <3>5, <3>6, <3>7 DEF RecordsInOrder
  <2>. QED  BY <1>9, <2>1, <2>2, <2>3, <2>4, <2>5, <2>7, <2>8 DEF OmsStep
<1>. QED  BY <1>8, <1>9

\* So does every other step.
LEMMA RecordsStep ==
  ASSUME Faithful, TypeOK, IInv, EndInv, NEW x \in Order, [Next]_vars
  PROVE  RecordsInOrder(x)'
<1>1. durable[x] \in OrderRec /\ mem[x] \in OrderRec /\ RecordsInOrder(x)
      /\ OrderInv(x) /\ NoOrder # x
  BY NoOrderAssumption DEF TypeOK, IInv, EndInv
<1>2. Unknown.state # "REJECTED" /\ ~Stray(Unknown)
  BY DEF Unknown, Stray, TerminalStates
<1>3. ASSUME NEW o \in Order, OmsStep(o), o # x PROVE RecordsInOrder(x)'
  <2>1. CASE SubmitOrder(x)
    BY <2>1, SubmitStarts DEF RecordsInOrder, Shut, Stray, TerminalStates
  <2>2. CASE ~SubmitOrder(x) /\ CrashInCatchUp(o)
    <3>1. mem'[x] = Unknown /\ durable'[x] = durable[x]
      BY <1>3, <2>2 DEF CrashInCatchUp, Stop, TypeOK
    <3>. QED  BY <1>1, <1>2, <2>2, <3>1, OverStays DEF RecordsInOrder, Shut, Stray
  <2>3. CASE ~SubmitOrder(x) /\ ~CrashInCatchUp(o)
    <3>1. durable'[x] = durable[x]
      BY <1>3, StepFrame
    <3>2. mem'[x] = mem[x] /\ (call' # x \/ call' = call)
      BY <1>1, <1>3, <2>3
         DEF OmsStep, SubmitOrder, SubmitAccepted, SubmitRejected,
             SubmitUnavailable, CancelOrder, DeliverEvent, ReconcileOpenOrder,
             Update, TypeOK
    <3>. QED  BY <2>3, <3>1, <3>2, RecordsKept
  <2>. QED  BY <2>1, <2>2, <2>3
<1>4. ASSUME mem'[x] = mem[x], durable'[x] = durable[x], call' = call
      PROVE  RecordsInOrder(x)'
  BY <1>4, SubmitStarts, RecordsKept, <1>1
     DEF RecordsInOrder, Shut, Stray, TerminalStates
<1>5. ASSUME NEW o \in Order, BrokerStep(o) PROVE RecordsInOrder(x)'
  BY <1>4, <1>5 DEF BrokerStep, BrokerReceives, BrokerFills, BrokerEnds,
                    LoseEvent
<1>6. CASE ~SubmitOrder(x) /\ Crash
  <2>1. mem'[x] = Unknown /\ durable'[x] = durable[x]
    BY <1>6 DEF Crash, Stop
  <2>. QED  BY <1>1, <1>2, <1>6, <2>1, OverStays DEF RecordsInOrder, Shut, Stray
<1>7. CASE ~SubmitOrder(x) /\ Recover
  <2>1. /\ durable'[x] = durable[x] /\ stream'[x] = <<>> /\ call' # x
        /\ mem'[x] = IF durable[x].state = "NONE" THEN mem[x]
                     ELSE [durable[x] EXCEPT !.fills = mem[x].fills + @]
    <3>1. call = NoOrder
      BY <1>7 DEF Recover, LockFree, IInv
    <3>. QED  BY <1>1, <1>7, <3>1 DEF Recover, ReplayLog
  <2>2. CASE durable[x].state = "NONE"
    BY <1>1, <1>2, <1>7, <2>1, <2>2, OverStays
       DEF RecordsInOrder, OrderInv, Shut, Stray
  <2>3. CASE durable[x].state # "NONE"
    <3>1. mem'[x].state = durable[x].state /\ mem'[x].fsm = durable[x].fsm
      BY <1>1, <2>1, <2>3 DEF OrderRec
    <3>. QED  BY <1>1, <1>7, <2>1, <2>3, <3>1, OverStays
              DEF RecordsInOrder, Shut, Stray
  <2>. QED  BY <2>2, <2>3
<1>8. CASE RecoverReturns \/ UNCHANGED vars
  BY <1>4, <1>8 DEF RecoverReturns, vars
<1>9. CASE SubmitOrder(x)
  BY <1>9, SubmitStarts DEF RecordsInOrder, Shut, Stray, TerminalStates
<1>. QED  BY <1>3, <1>5, <1>6, <1>7, <1>8, <1>9, OmsRecords DEF Next

\* A terminal order stays as it is while the process runs.
LEMMA TerminalStays ==
  ASSUME Faithful, TypeOK, IInv, EndInv, NEW x \in Order, [Next]_vars,
         mode = "up", mode' = "up", mem[x].state \in TerminalStates
  PROVE  mem'[x].state = mem[x].state
<1>1. Pair(x) \in Book /\ Pair(x).live = mem[x] /\ mem \in [Order -> OrderRec]
      /\ stream[x] \in Seq(BrokerEvent) /\ Qty \in Nat
  BY StreamTypes, QtyAssumption DEF Pair, TypeOK
<1>2. /\ RecordsInOrder(x)
      /\ durable[x].state # "NONE" /\ durable[x].fsm # "PENDING"
  BY DEF EndInv, IInv, OrderInv, RecordsInOrder, Unknown, TerminalStates
<1>3. ASSUME NEW q \in Book, NEW why \in BOOLEAN, Ends(Pair(x), q, why),
             Update(x, q), ~Stray(mem[x])
      PROVE  mem'[x].state = mem[x].state
  <2>1. mem'[x] = q.live
    BY <1>3, UpdateType
  <2>2. mem[x].fsm \in TerminalStates
    BY <1>3 DEF Stray
  <2>. QED  BY <1>1, <1>3, <2>1, <2>2 DEF Ends
<1>4. ASSUME NEW o \in Order, OmsStep(o), o # x PROVE mem'[x].state = mem[x].state
  BY <1>1, <1>4
     DEF OmsStep, SubmitOrder, SubmitAccepted, SubmitRejected, SubmitUnavailable,
         CancelOrder, DeliverEvent, ReconcileOpenOrder, CrashInCatchUp, Stop,
         Update
<1>5. CASE SubmitOrder(x)
  <2>1. mem[x] = Unknown
    BY <1>5, FirstSubmission
  <2>. QED  BY <2>1 DEF Unknown, TerminalStates
<1>6. CASE SubmitAccepted(x)
  <2>1. ~Stray(mem[x])
    BY <1>2, <1>6 DEF RecordsInOrder, SubmitAccepted
  <2>2. Ends(Pair(x), RecordAccepted(Pair(x)), FALSE)
        /\ RecordAccepted(Pair(x)) \in Book
    BY <1>1, RecordAcceptedEnds, RecordAcceptedBooks DEF Books
  <2>. QED  BY <1>3, <1>6, <2>1, <2>2 DEF SubmitAccepted
<1>7. CASE SubmitRejected(x)
  <2>1. HandleRejection(Pair(x)) = Pair(x)
    BY <1>1 DEF HandleRejection
  <2>. QED  BY <1>1, <1>7, <2>1, UpdateType DEF SubmitRejected
<1>8. CASE SubmitUnavailable(x) \/ CancelOrder(x)
  BY <1>8 DEF SubmitUnavailable, CancelOrder, IsOpen
<1>9. CASE DeliverEvent(x)
  <2>. DEFINE q == OnBrokerEvent(Pair(x), Head(stream[x]))
              why == EventEnds(Pair(x), Head(stream[x]))
  <2>1. stream[x] # <<>> /\ Update(x, q)
    BY <1>9 DEF DeliverEvent
  <2>2. ~Stray(mem[x]) /\ Head(stream[x]) \in BrokerEvent
    BY <1>1, <1>2, <2>1 DEF RecordsInOrder
  <2>3. Ends(Pair(x), q, why) /\ q \in Book
    <3>1. Pair(x).dur = durable[x]
      BY DEF Pair
    <3>2. q \in Book
      BY <1>1, <2>2, OnBrokerEventBooks DEF Books
    <3>. QED  BY <1>1, <1>2, <2>2, <3>1, <3>2, OnBrokerEventEnds
  <2>4. why \in BOOLEAN
    BY DEF EventEnds
  <2>. HIDE DEF q, why
  <2>. QED  BY <1>3, <2>1, <2>2, <2>3, <2>4
<1>10. CASE ReconcileOpenOrder(x) \/ CrashInCatchUp(x)
  BY <1>10 DEF ReconcileOpenOrder, CrashInCatchUp
<1>11. ASSUME NEW o \in Order, BrokerStep(o) PROVE mem' = mem
  BY <1>11 DEF BrokerStep, BrokerReceives, BrokerFills, BrokerEnds, LoseEvent
<1>12. CASE Crash \/ Recover \/ RecoverReturns \/ UNCHANGED vars
  BY <1>12 DEF Crash, Stop, Recover, RecoverReturns, vars
<1>. QED  BY <1>4, <1>5, <1>6, <1>7, <1>8, <1>9, <1>10, <1>11, <1>12
          DEF Next, OmsStep

\* Where the broker's answers can be believed, no request outlives its call and
\* no order is submitted twice, an end is an end: EndIsFinal.  The order stays
\* in it whatever the stream still brings, over crashes and recoveries too, and
\* an order given up as rejected is not working at the broker.
THEOREM EndsAreFinal ==
  ASSUME MaxTries = 1, Faults \cap {"LateArrival", "FindReturnsNone"} = {}
  PROVE  Spec => EndIsFinal
<1>. DEFINE Stays == \A o \in Order :
                       mode = "up" /\ mode' = "up" /\ mem[o].state \in TerminalStates
                         => mem'[o].state = mem[o].state
            Believed == \A o \in Order :
                          mem[o].state = "REJECTED" => ~LiveAtBroker(broker[o])
<1>1. Faithful
  BY DEF Faithful
<1>2. Init => EndInv
  <2>1. Unknown.state = "NONE"
    BY DEF Unknown
  <2>2. ~Shut(Unknown) /\ ~Stray(Unknown)
    BY <2>1 DEF Shut, Stray, TerminalStates
  <2>. QED  BY <2>1, <2>2 DEF Init, EndInv, BrokerInOrder, RecordsInOrder,
                              LiveAtBroker
<1>3. TypeOK /\ TypeOK' /\ IInv /\ EndInv /\ [Next]_vars => EndInv'
  BY <1>1, BrokerInOrderStep, RecordsStep DEF EndInv
<1>4. TypeOK /\ IInv /\ EndInv /\ [Next]_vars => [Stays]_vars
  BY <1>1, TerminalStays
<1>5. EndInv => Believed
  BY DEF EndInv, RecordsInOrder, Over
<1>6. Spec => [](TypeOK /\ IInv)
  BY Invariant
<1>7. Spec => [](TypeOK /\ IInv /\ EndInv)
  BY <1>2, <1>3, <1>6, PTL DEF Spec
<1>8. Spec => [][Stays]_vars
  BY <1>4, <1>7, PTL DEF Spec
<1>9. Spec => []Believed
  BY <1>5, <1>7, PTL
<1>. QED  BY <1>8, <1>9 DEF EndIsFinal

-----------------------------------------------------------------------------
(* What recovery makes of an order *)

\* What the FSM that a log replays to says of the rows in it: an order that has
\* a broker id was accepted, one partly filled has a fill.
Replays(d) ==
  /\ d.bid => d.fsm # "SUBMITTED"
  /\ d.fsm = "PARTIAL" => d.filled > 0

\* A logged order, past PENDING.
Logged(d) == Replays(d) /\ d.fsm # "PENDING"

\* Which states the events of the lifecycle lead to.
LEMMA TriggerLeads ==
  ASSUME NEW s \in OrderState, NEW e, s # "PENDING"
  PROVE  /\ Trigger(s, e) # "PENDING"
         /\ Trigger(s, e) = "SUBMITTED" => s = "SUBMITTED" /\ e # "ACCEPT"
         /\ Trigger(s, e) = "PARTIAL" => s = "PARTIAL" \/ e = "PARTIAL_FILL"
<1>1. CanTrigger(s, e) => <<s, e, Trigger(s, e)>> \in Arcs
  BY TriggerIsArc
<1>2. ~CanTrigger(s, e) => Trigger(s, e) = s
  BY DEF Trigger
<1>3. CanTrigger("SUBMITTED", "ACCEPT")
  BY DEF CanTrigger, Arcs, OrderState
<1>. QED  BY <1>1, <1>2, <1>3 DEF Arcs

\* Every row of the log keeps it so, a fill row if it has a quantity.
LEMMA RowReplays ==
  ASSUME NEW r \in OrderRec, Logged(r)
  PROVE  /\ Logged(ApplyLoggedEvent(r, "ACCEPTED", 0))
         /\ \A k \in {"CANCELLED", "REJECTED", "EXPIRED"} :
              Logged(ApplyLoggedEvent(r, k, 0))
         /\ \A n \in Nat \ {0} : Logged(ApplyLoggedEvent(r, "FILL_RECEIVED", n))
<1>1. r.fsm \in OrderState /\ r.filled \in Nat /\ r.fsm # "PENDING" /\ r.bid \in BOOLEAN
  BY DEF OrderRec, Logged
<1>2. Logged(ApplyLoggedEvent(r, "ACCEPTED", 0))
  <2>. DEFINE d == ApplyLoggedEvent(r, "ACCEPTED", 0)
  <2>1. d.fsm = Trigger(r.fsm, "ACCEPT") /\ d.filled = r.filled
    BY ApplyAccepted
  <2>. HIDE DEF d
  <2>2. Logged(d)
    BY <1>1, <2>1, TriggerLeads DEF Logged, Replays
  <2>. QED  BY <2>2 DEF d
<1>3. ASSUME NEW k, NEW e, \/ k = "CANCELLED" /\ e = "CANCEL"
                           \/ k = "REJECTED" /\ e = "REJECT"
                           \/ k = "EXPIRED" /\ e = "EXPIRE"
      PROVE  Logged(ApplyLoggedEvent(r, k, 0))
  <2>. DEFINE d == ApplyLoggedEvent(r, k, 0)
  <2>1. d.fsm = Trigger(r.fsm, e) /\ d.bid = r.bid /\ d.filled = r.filled
    BY <1>3, ApplyEnd
  <2>. HIDE DEF d
  <2>2. Logged(d)
    BY <1>1, <1>3, <2>1, TriggerLeads DEF Logged, Replays
  <2>. QED  BY <2>2 DEF d
<1>4. ASSUME NEW n \in Nat \ {0}
      PROVE  Logged(ApplyLoggedEvent(r, "FILL_RECEIVED", n))
  <2>. DEFINE d == ApplyLoggedEvent(r, "FILL_RECEIVED", n)
  <2>1. /\ d.fsm = Trigger(r.fsm, FillEvent(r.filled + n))
        /\ d.bid = r.bid /\ d.filled = r.filled + n
    BY ApplyFill
  <2>2. FillEvent(r.filled + n) # "ACCEPT" /\ r.filled + n > 0
    BY <1>1 DEF FillEvent
  <2>. HIDE DEF d
  <2>3. Logged(d)
    BY <1>1, <2>1, <2>2, TriggerLeads DEF Logged, Replays
  <2>. QED  BY <2>3 DEF d
<1>. QED  BY <1>2, <1>3, <1>4

\* And so does every handler, of a fill with a quantity.
LEMMA HandlersReplay ==
  ASSUME NEW p \in Book, Logged(p.dur)
  PROVE  /\ Logged(RecordAccepted(p).dur)
         /\ Logged(HandleCancellation(p).dur) /\ Logged(HandleRejection(p).dur)
         /\ Logged(HandleExpiry(p).dur) /\ Logged(ForceCloseFilled(p).dur)
         /\ Logged(Transition(Append1(p, "CANCELLED", 0), "CANCEL").dur)
         /\ \A n \in Nat \ {0} : Logged(HandleFill(p, n).dur)
<1>1. p.dur \in OrderRec /\ p.live \in OrderRec
  BY DEF Book
<1>2. ASSUME NEW k, NEW e, \/ k = "CANCELLED" /\ e = "CANCEL"
                           \/ k = "REJECTED" /\ e = "REJECT"
                           \/ k = "EXPIRED" /\ e = "EXPIRE"
      PROVE  Logged(Transition(Append1(p, k, 0), e).dur)
  <2>1. ApplyLoggedEvent(p.dur, k, 0) \in OrderRec
    BY <1>1, <1>2, ApplyEnd
  <2>2. Append1(p, k, 0) \in Book /\ Append1(p, k, 0).dur = ApplyLoggedEvent(p.dur, k, 0)
    BY <2>1, AppendType
  <2>3. Transition(Append1(p, k, 0), e).dur = Append1(p, k, 0).dur
    BY <2>2, TransitionType
  <2>. QED  BY <1>1, <1>2, <2>2, <2>3, RowReplays
<1>3. /\ Logged(HandleCancellation(p).dur) /\ Logged(HandleRejection(p).dur)
      /\ Logged(HandleExpiry(p).dur)
      /\ Logged(Transition(Append1(p, "CANCELLED", 0), "CANCEL").dur)
  BY <1>2 DEF HandleCancellation, HandleRejection, HandleExpiry
<1>4. Logged(ForceCloseFilled(p).dur)
  BY TransitionType DEF ForceCloseFilled
<1>5. Logged(RecordAccepted(p).dur)
  <2>1. CASE p.live.bid
    BY <2>1 DEF RecordAccepted
  <2>2. CASE ~p.live.bid
    <3>. DEFINE a == Append1(p, "ACCEPTED", 0)
                b == [a EXCEPT !.live.bid = TRUE, !.live.mapped = TRUE]
    <3>1. /\ a \in Book /\ a.live = p.live
          /\ a.dur = ApplyLoggedEvent(p.dur, "ACCEPTED", 0)
      <4>1. ApplyLoggedEvent(p.dur, "ACCEPTED", 0) \in OrderRec
        BY <1>1, ApplyAccepted
      <4>. QED  BY <4>1, AppendType
    <3>2. RecordAccepted(p) = Transition(b, "ACCEPT")
      BY <2>2 DEF RecordAccepted
    <3>. HIDE DEF a
    <3>3. b \in Book /\ b.dur = a.dur
      BY <1>1, <3>1 DEF Book, OrderRec
    <3>. HIDE DEF b
    <3>. QED  BY <1>1, <3>1, <3>2, <3>3, TransitionType, RowReplays
  <2>. QED  BY <2>1, <2>2
<1>6. ASSUME NEW n \in Nat \ {0} PROVE Logged(HandleFill(p, n).dur)
  <2>. DEFINE a == Append1(p, "FILL_RECEIVED", n)
              b == [a EXCEPT !.live.filled = @ + n, !.live.fills = @ + n]
  <2>1. /\ a \in Book /\ a.live = p.live
        /\ a.dur = ApplyLoggedEvent(p.dur, "FILL_RECEIVED", n)
    BY <1>1, ApplyFill, AppendType
  <2>2. HandleFill(p, n) = Transition(b, FillEvent(b.live.filled))
    BY DEF HandleFill, FillEvent
  <2>. HIDE DEF a
  <2>3. b \in Book /\ b.dur = a.dur
    <3>. DEFINE l == [p.live EXCEPT !.filled = @ + n, !.fills = @ + n]
    <3>1. p.live.filled + n \in Nat /\ p.live.fills + n \in Nat
      BY <1>1 DEF OrderRec
    <3>2. l \in OrderRec
      BY <1>1, <3>1 DEF OrderRec
    <3>3. b = [a EXCEPT !.live = l]
      BY <1>1, <2>1 DEF Book, OrderRec
    <3>. QED  BY <2>1, <3>2, <3>3 DEF Book
  <2>. HIDE DEF b
  <2>. QED  BY <1>1, <2>1, <2>2, <2>3, TransitionType, RowReplays
<1>. QED  BY <1>3, <1>4, <1>5, <1>6

\* The handlers of a broker event and of a catch-up.
LEMMA EventReplays ==
  ASSUME NEW p \in Book, Logged(p.dur), NEW e, e.qty \in Nat,
         e.state \in BrokerState \ {"NONE"},
         e.state \in {"PARTIALLY_FILLED", "FILLED"} => e.qty > 0
  PROVE  Logged(OnBrokerEvent(p, e).dur)
<1>1. CASE p.live.state = "NONE"
  BY <1>1 DEF OnBrokerEvent
<1>2. CASE p.live.state # "NONE" /\ e.state = "ACCEPTED"
  BY <1>2, HandlersReplay DEF OnBrokerEvent
<1>3. CASE p.live.state # "NONE" /\ e.state \in {"PARTIALLY_FILLED", "FILLED"}
  <2>1. e.qty \in Nat \ {0}
    BY <1>3
  <2>. QED  BY <1>3, <2>1, HandlersReplay DEF OnBrokerEvent
<1>4. CASE p.live.state # "NONE" /\ e.state = "CANCELED"
  BY <1>4, HandlersReplay DEF OnBrokerEvent
<1>5. CASE p.live.state # "NONE" /\ e.state = "REJECTED"
  BY <1>5, HandlersReplay DEF OnBrokerEvent
<1>6. CASE p.live.state # "NONE" /\ e.state = "EXPIRED"
  BY <1>6, HandlersReplay DEF OnBrokerEvent
<1>. QED  BY <1>1, <1>2, <1>3, <1>4, <1>5, <1>6 DEF BrokerState

\* What a catch-up logs.
LEMMA CatchUpReplays ==
  ASSUME NEW p \in Book, Logged(p.dur), NEW b \in BrokerRec, b.state # "NONE",
         Qty \in Nat
  PROVE  /\ Logged(CatchUpFill(p, b).dur)
         /\ Logged(CatchUpFromBroker(p, b).dur)
<1>. DEFINE q == RecordAccepted(p)
            r == CatchUpFill(p, b)
<1>1. q \in Book /\ Logged(q.dur) /\ b.filled \in Nat /\ q.live.filled \in Nat
  BY HandlersReplay, RecordAcceptedBooks DEF Books, BrokerRec, Book, OrderRec
<1>2. r = q \/ \E n \in Nat \ {0} : r = HandleFill(q, n)
  <2>1. b.filled > q.live.filled => b.filled - q.live.filled \in Nat \ {0}
    BY <1>1
  <2>. QED  BY <2>1 DEF CatchUpFill
<1>. HIDE DEF q
<1>3. Logged(r.dur)
  BY <1>1, <1>2, HandlersReplay
<1>4. r \in Book
  BY CatchUpFillBooks DEF Books
<1>5. /\ b.state \in BrokerState \ {"NONE"}
  BY DEF BrokerRec
<1>6. \/ CatchUpFromBroker(p, b) \in {HandleCancellation(r), HandleRejection(r)}
      \/ CatchUpFromBroker(p, b) \in {HandleExpiry(r), ForceCloseFilled(r), r}
  BY <1>5 DEF CatchUpFromBroker, BrokerState
<1>. HIDE DEF r
<1>7. Logged(CatchUpFromBroker(p, b).dur)
  BY <1>3, <1>4, <1>6, HandlersReplay
<1>. QED  BY <1>3, <1>7 DEF r

\* The arcs that lead on from the states of an open order.
LEMMA OpenArcs ==
  /\ CanTrigger("SUBMITTED", "ACCEPT") /\ Trigger("SUBMITTED", "ACCEPT") = "ACCEPTED"
  /\ ~CanTrigger("PARTIAL", "ACCEPT") /\ ~CanTrigger("ACCEPTED", "ACCEPT")
  /\ CanTrigger("ACCEPTED", "REJECT") /\ Trigger("ACCEPTED", "REJECT") = "REJECTED"
  /\ \A s \in {"ACCEPTED", "PARTIAL"} :
       /\ CanTrigger(s, "PARTIAL_FILL") /\ Trigger(s, "PARTIAL_FILL") = "PARTIAL"
       /\ CanTrigger(s, "FULL_FILL") /\ Trigger(s, "FULL_FILL") = "FILLED"
       /\ CanTrigger(s, "CANCEL") /\ Trigger(s, "CANCEL") = "CANCELLED"
       /\ CanTrigger(s, "EXPIRE") /\ Trigger(s, "EXPIRE") = "EXPIRED"
<1>1. /\ CanTrigger("SUBMITTED", "ACCEPT") /\ CanTrigger("ACCEPTED", "REJECT")
      /\ ~CanTrigger("PARTIAL", "ACCEPT") /\ ~CanTrigger("ACCEPTED", "ACCEPT")
  BY DEF CanTrigger, Arcs, OrderState
<1>2. /\ CanTrigger("ACCEPTED", "PARTIAL_FILL") /\ CanTrigger("PARTIAL", "PARTIAL_FILL")
      /\ CanTrigger("ACCEPTED", "FULL_FILL") /\ CanTrigger("PARTIAL", "FULL_FILL")
      /\ CanTrigger("ACCEPTED", "CANCEL") /\ CanTrigger("PARTIAL", "CANCEL")
      /\ CanTrigger("ACCEPTED", "EXPIRE") /\ CanTrigger("PARTIAL", "EXPIRE")
  BY DEF CanTrigger, Arcs, OrderState
<1>3. \A s \in {"SUBMITTED", "ACCEPTED", "PARTIAL"} : s \in OrderState
  BY DEF OrderState
<1>4. Trigger("SUBMITTED", "ACCEPT") = "ACCEPTED" /\ Trigger("ACCEPTED", "REJECT") = "REJECTED"
  BY <1>1, <1>3, TriggerIsArc DEF Arcs
<1>5. /\ Trigger("ACCEPTED", "PARTIAL_FILL") = "PARTIAL"
      /\ Trigger("PARTIAL", "PARTIAL_FILL") = "PARTIAL"
      /\ Trigger("ACCEPTED", "FULL_FILL") = "FILLED"
      /\ Trigger("PARTIAL", "FULL_FILL") = "FILLED"
  BY <1>2, <1>3, TriggerIsArc DEF Arcs
<1>6. /\ Trigger("ACCEPTED", "CANCEL") = "CANCELLED"
      /\ Trigger("PARTIAL", "CANCEL") = "CANCELLED"
      /\ Trigger("ACCEPTED", "EXPIRE") = "EXPIRED"
      /\ Trigger("PARTIAL", "EXPIRE") = "EXPIRED"
  BY <1>2, <1>3, TriggerIsArc DEF Arcs
<1>. QED  BY <1>1, <1>2, <1>4, <1>5, <1>6

\* A transition along an arc moves snapshot and FSM alike.
LEMMA Moves ==
  ASSUME NEW p \in Book, NEW e, CanTrigger(p.live.fsm, e)
  PROVE  /\ Transition(p, e).live.state = Trigger(p.live.fsm, e)
         /\ Transition(p, e).live.fsm = Trigger(p.live.fsm, e)
         /\ Transition(p, e).live.filled = p.live.filled
<1>1. Transition(p, e).live.fsm = Trigger(p.live.fsm, e)
  BY TransitionType
<1>2. Transition(p, e) = [p EXCEPT !.live.fsm = Trigger(p.live.fsm, e),
                                   !.live.state = Trigger(p.live.fsm, e)]
  BY DEF Transition
<1>3. p.live \in OrderRec
  BY DEF Book
<1>4. Transition(p, e).live.state = Trigger(p.live.fsm, e)
  BY <1>2, <1>3 DEF Book, OrderRec
<1>. QED  BY <1>1, <1>4, TransitionType

\* Snapshot and FSM agree that the order is known to the broker and open.
Working(l) == l.state = l.fsm /\ l.fsm \in {"ACCEPTED", "PARTIAL"}

\* The first stage of a catch-up makes an open order a working one.
LEMMA RecordAcceptedWorks ==
  ASSUME NEW p \in Book, p.live.state = p.live.fsm, IsOpen(p.live),
         p.live.fsm # "PENDING", p.live.bid => p.live.fsm # "SUBMITTED"
  PROVE  LET q == RecordAccepted(p)
         IN  /\ Working(q.live)
             /\ q.live.fsm = "PARTIAL" => p.live.fsm = "PARTIAL"
<1>1. p.live \in OrderRec /\ p.dur \in OrderRec
  BY DEF Book
<1>2. p.live.fsm \in {"SUBMITTED", "ACCEPTED", "PARTIAL"}
  BY <1>1 DEF IsOpen, OrderRec, OrderState, TerminalStates
<1>3. CASE p.live.bid
  BY <1>2, <1>3 DEF RecordAccepted, Working
<1>4. CASE ~p.live.bid
  <2>. DEFINE a == Append1(p, "ACCEPTED", 0)
              b == [a EXCEPT !.live.bid = TRUE, !.live.mapped = TRUE]
              q == Transition(b, "ACCEPT")
  <2>1. a \in Book /\ a.live = p.live
    <3>1. ApplyLoggedEvent(p.dur, "ACCEPTED", 0) \in OrderRec
      BY <1>1, ApplyAccepted
    <3>. QED  BY <3>1, AppendType
  <2>2. RecordAccepted(p) = q
    BY <1>4 DEF RecordAccepted
  <2>. HIDE DEF a
  <2>3. b \in Book /\ b.live.fsm = p.live.fsm /\ b.live.state = p.live.state
    BY <1>1, <2>1 DEF Book, OrderRec
  <2>. HIDE DEF b
  <2>4. Working(q.live) /\ (q.live.fsm = "PARTIAL" => p.live.fsm = "PARTIAL")
    <3>1. CASE p.live.fsm = "SUBMITTED"
      BY <2>3, <3>1, OpenArcs, Moves DEF Working
    <3>2. CASE p.live.fsm \in {"ACCEPTED", "PARTIAL"}
      <4>1. q = b
        BY <2>3, <3>2, OpenArcs DEF Transition
      <4>. QED  BY <1>2, <2>3, <3>2, <4>1 DEF Working
    <3>. QED  BY <1>2, <3>1, <3>2
  <2>. HIDE DEF q
  <2>. QED  BY <2>2, <2>4
<1>. QED  BY <1>3, <1>4

\* A fill of a working order leaves it working, or fills it.
LEMMA HandleFillWorks ==
  ASSUME NEW p \in Book, NEW n \in Nat, Working(p.live), Qty \in Nat
  PROVE  LET q == HandleFill(p, n)
         IN  /\ q.live.state = q.live.fsm /\ q.live.filled = p.live.filled + n
             /\ q.live.fsm = IF p.live.filled + n >= Qty THEN "FILLED" ELSE "PARTIAL"
<1>. DEFINE a == Append1(p, "FILL_RECEIVED", n)
            b == [a EXCEPT !.live.filled = @ + n, !.live.fills = @ + n]
            q == HandleFill(p, n)
<1>1. p.live \in OrderRec /\ p.dur \in OrderRec
  BY DEF Book
<1>2. a \in Book /\ a.live = p.live
  <2>1. ApplyLoggedEvent(p.dur, "FILL_RECEIVED", n) \in OrderRec
    BY <1>1, ApplyFill
  <2>. QED  BY <2>1, AppendType
<1>3. q = Transition(b, FillEvent(b.live.filled))
  BY DEF HandleFill, FillEvent
<1>. HIDE DEF a
<1>4. b \in Book /\ b.live.filled = p.live.filled + n /\ b.live.fsm = p.live.fsm
  <2>. DEFINE l == [p.live EXCEPT !.filled = @ + n, !.fills = @ + n]
  <2>1. p.live.filled + n \in Nat /\ p.live.fills + n \in Nat
    BY <1>1 DEF OrderRec
  <2>2. l \in OrderRec /\ l.filled = p.live.filled + n /\ l.fsm = p.live.fsm
    BY <1>1, <2>1 DEF OrderRec
  <2>3. b = [a EXCEPT !.live = l]
    BY <1>1, <1>2 DEF Book, OrderRec
  <2>. HIDE DEF l, b
  <2>. QED  BY <1>2, <2>2, <2>3 DEF Book
<1>. HIDE DEF b, q
<1>5. p.live.fsm \in {"ACCEPTED", "PARTIAL"}
  BY DEF Working
<1>6. CASE p.live.filled + n >= Qty
  <2>1. FillEvent(b.live.filled) = "FULL_FILL"
    BY <1>4, <1>6 DEF FillEvent, IsFullyFilled
  <2>. QED  BY <1>3, <1>4, <1>5, <1>6, <2>1, OpenArcs, Moves DEF q
<1>7. CASE ~(p.live.filled + n >= Qty)
  <2>1. FillEvent(b.live.filled) = "PARTIAL_FILL"
    BY <1>4, <1>7 DEF FillEvent, IsFullyFilled
  <2>. QED  BY <1>3, <1>4, <1>5, <1>7, <2>1, OpenArcs, Moves DEF q
<1>. QED  BY <1>6, <1>7

\* The end of a working order closes it, a rejection if nothing was filled.
LEMMA EndCloses ==
  ASSUME NEW r \in Book, r.live.fsm \in {"ACCEPTED", "PARTIAL"},
         NEW k, NEW e, \/ k = "CANCELLED" /\ e = "CANCEL"
                       \/ k = "REJECTED" /\ e = "REJECT"
                       \/ k = "EXPIRED" /\ e = "EXPIRE",
         k = "REJECTED" => r.live.fsm = "ACCEPTED"
  PROVE  Transition(Append1(r, k, 0), e).live.state = k
<1>1. r.dur \in OrderRec
  BY DEF Book
<1>2. ApplyLoggedEvent(r.dur, k, 0) \in OrderRec
  BY <1>1, ApplyEnd
<1>3. Append1(r, k, 0) \in Book /\ Append1(r, k, 0).live = r.live
  BY <1>2, AppendType
<1>4. CanTrigger(r.live.fsm, e) /\ Trigger(r.live.fsm, e) = k
  BY OpenArcs
<1>. QED  BY <1>3, <1>4, Moves

\* A catch-up ends an order as it ended at the broker, and leaves it open when
\* the broker still works it.
LEMMA CatchUpAgrees ==
  ASSUME NEW p \in Book, NEW b \in BrokerRec, Qty \in Nat \ {0},
         b.state # "NONE", Short(b),
         p.live.state = p.live.fsm, IsOpen(p.live), p.live.fsm # "PENDING",
         Replays(p.live), p.live.filled <= b.filled
  PROVE  LET l == CatchUpFromBroker(p, b).live
         IN  IF LiveAtBroker(b) THEN IsOpen(l) ELSE l.state = LocalState(b.state)
<1>. DEFINE q == RecordAccepted(p)
            r == CatchUpFill(p, b)
<1>1. q \in Book /\ q.live.filled = p.live.filled
  BY RecordAcceptedBooks DEF Books, Book, OrderRec
<1>2. p.live.filled \in Nat /\ b.filled \in Nat /\ Qty \in Nat
  BY DEF Book, OrderRec, BrokerRec
<1>3. Working(q.live) /\ (q.live.fsm = "PARTIAL" => p.live.filled > 0)
  BY RecordAcceptedWorks DEF Replays
<1>4. r \in Book
  BY <1>2, CatchUpFillBooks DEF Books
<1>5. r = IF b.filled > q.live.filled THEN HandleFill(q, b.filled - q.live.filled)
                                      ELSE q
  BY DEF CatchUpFill
<1>. HIDE DEF q
<1>6. /\ r.live.state = r.live.fsm /\ r.live.fsm \in {"ACCEPTED", "PARTIAL", "FILLED"}
      /\ r.live.fsm = "FILLED" => b.filled >= Qty
      /\ b.filled = 0 => r.live.fsm = "ACCEPTED"
  <2>1. CASE b.filled > q.live.filled
    <3>. DEFINE n == b.filled - q.live.filled
    <3>1. n \in Nat /\ q.live.filled + n = b.filled
      BY <1>1, <1>2, <2>1
    <3>2. r = HandleFill(q, n)
      BY <1>5, <2>1
    <3>. HIDE DEF n, r
    <3>3. /\ r.live.state = r.live.fsm
          /\ r.live.fsm = IF b.filled >= Qty THEN "FILLED" ELSE "PARTIAL"
      BY <1>1, <1>2, <1>3, <3>1, <3>2, HandleFillWorks
    <3>. QED  BY <1>1, <1>2, <2>1, <3>3 DEF r
  <2>2. CASE ~(b.filled > q.live.filled)
    <3>1. r = q
      BY <1>5, <2>2
    <3>2. q.live.fsm = "PARTIAL" => b.filled # 0
      BY <1>2, <1>3
    <3>. QED  BY <1>3, <3>1, <3>2 DEF Working
  <2>. QED  BY <2>1, <2>2
<1>. HIDE DEF r
<1>7. r.live.fsm \notin TerminalStates \/ r.live.fsm = "FILLED"
  BY <1>6 DEF TerminalStates
<1>8. /\ b.state \in BrokerState \ {"NONE"}
  BY DEF BrokerRec
<1>9. CASE LiveAtBroker(b)
  <2>1. CatchUpFromBroker(p, b) = r
    BY <1>9 DEF CatchUpFromBroker, LiveAtBroker, r
  <2>2. r.live.fsm \in {"ACCEPTED", "PARTIAL"}
    BY <1>2, <1>6, <1>9 DEF Short, LiveAtBroker
  <2>. QED  BY <1>6, <1>9, <2>1, <2>2 DEF IsOpen, TerminalStates
<1>10. CASE b.state = "FILLED"
  <2>1. CatchUpFromBroker(p, b) = ForceCloseFilled(r)
    BY <1>10 DEF CatchUpFromBroker, r
  <2>2. ForceCloseFilled(r).live.state = "FILLED"
    <3>1. CASE r.live.fsm = "FILLED"
      BY <1>6, <3>1 DEF ForceCloseFilled, TerminalStates
    <3>2. CASE r.live.fsm \in {"ACCEPTED", "PARTIAL"}
      <4>1. ForceCloseFilled(r) = Transition(r, "FULL_FILL")
        BY <1>6, <3>2 DEF ForceCloseFilled, TerminalStates
      <4>. QED  BY <1>4, <3>2, <4>1, OpenArcs, Moves
    <3>. QED  BY <1>6, <3>1, <3>2
  <2>. QED  BY <1>10, <2>1, <2>2 DEF LocalState, LiveAtBroker
<1>11. CASE b.state \in {"CANCELED", "REJECTED", "EXPIRED"}
  <2>1. /\ r.live.fsm \in {"ACCEPTED", "PARTIAL"} /\ r.live.state \notin TerminalStates
        /\ b.state = "REJECTED" => r.live.fsm = "ACCEPTED"
    BY <1>2, <1>6, <1>11 DEF Short, TerminalStates
  <2>2. CASE b.state = "CANCELED"
    <3>1. CatchUpFromBroker(p, b) = Transition(Append1(r, "CANCELLED", 0), "CANCEL")
      BY <2>1, <2>2 DEF CatchUpFromBroker, HandleCancellation, r
    <3>. QED  BY <1>4, <2>1, <2>2, <3>1, EndCloses DEF LocalState, LiveAtBroker
  <2>3. CASE b.state = "REJECTED"
    <3>1. CatchUpFromBroker(p, b) = Transition(Append1(r, "REJECTED", 0), "REJECT")
      BY <2>1, <2>3 DEF CatchUpFromBroker, HandleRejection, r
    <3>. QED  BY <1>4, <2>1, <2>3, <3>1, EndCloses DEF LocalState, LiveAtBroker
  <2>4. CASE b.state = "EXPIRED"
    <3>1. CatchUpFromBroker(p, b) = Transition(Append1(r, "EXPIRED", 0), "EXPIRE")
      BY <2>1, <2>4 DEF CatchUpFromBroker, HandleExpiry, r
    <3>. QED  BY <1>4, <2>1, <2>4, <3>1, EndCloses DEF LocalState, LiveAtBroker
  <2>. QED  BY <1>11, <2>2, <2>3, <2>4
<1>. QED  BY <1>8, <1>9, <1>10, <1>11 DEF BrokerState, LiveAtBroker

\* The invariant behind ReconciledOrderAgrees: logs replay to what their rows
\* say, the broker's quantities fit its states, no fill is empty, and recovery
\* asks about open orders.
Recoverable(o) ==
  /\ o \in pending => mode = "recovering" /\ IsOpen(mem[o])
  /\ durable[o].state # "NONE" => Logged(durable[o])
  /\ Short(broker[o])
  /\ \A i \in DOMAIN stream[o] : Counts(stream[o][i])

RecoveryInv == \A o \in Order : Recoverable(o)

\* The broker's side of it.
LEMMA BrokerSideStep ==
  ASSUME TypeOK, TypeOK', IInv, NEW x \in Order, Recoverable(x), [Next]_vars
  PROVE  Short(broker'[x]) /\ \A i \in DOMAIN stream'[x] : Counts(stream'[x][i])
<1>1. stream[x] \in Seq(BrokerEvent) /\ stream'[x] \in Seq(BrokerEvent)
  BY DEF TypeOK
<1>2. Short(broker'[x])
  BY BrokerMoves DEF Recoverable, Kept, Moved
<1>3. ASSUME NEW i \in DOMAIN stream'[x] PROVE Counts(stream'[x][i])
  <2>1. ASSUME NEW j \in DOMAIN stream[x], stream'[x][i] = stream[x][j]
        PROVE  Counts(stream'[x][i])
    BY <2>1 DEF Recoverable
  <2>2. CASE stream'[x] = stream[x]
    BY <2>1, <2>2
  <2>3. CASE stream'[x] = <<>>
    BY <2>3
  <2>4. CASE stream[x] # <<>> /\ stream'[x] = Tail(stream[x])
    <3>1. i + 1 \in DOMAIN stream[x] /\ stream'[x][i] = stream[x][i + 1]
      BY <1>1, <2>4
    <3>. QED  BY <2>1, <3>1
  <2>5. ASSUME NEW e, Counts(e), stream'[x] = Append(stream[x], e)
        PROVE  Counts(stream'[x][i])
    <3>1. \/ i \in DOMAIN stream[x] /\ stream'[x][i] = stream[x][i]
          \/ stream'[x][i] = e
      BY <1>1, <2>5
    <3>. QED  BY <2>1, <2>5, <3>1
  <2>. QED  BY <2>2, <2>3, <2>4, <2>5, BrokerMoves DEF Kept, Moved
<1>. QED  BY <1>2, <1>3

\* The log's side of it: what a step of the OMS on an order writes.
LEMMA LogRowStep ==
  ASSUME TypeOK, NEW o \in Order, OmsStep(o),
         durable[o].state = "NONE" =>
           mem[o].state = "NONE" /\ call # o /\ o \notin pending,
         durable[o].state # "NONE" => Logged(durable[o]),
         \A i \in DOMAIN stream[o] : Counts(stream[o][i])
  PROVE  durable'[o].state # "NONE" => Logged(durable'[o])
<1>1. /\ Pair(o) \in Book /\ Pair(o).live = mem[o] /\ Pair(o).dur = durable[o]
      /\ broker[o] \in BrokerRec /\ stream[o] \in Seq(BrokerEvent) /\ Qty \in Nat
      /\ durable \in [Order -> OrderRec]
  BY StreamTypes, QtyAssumption DEF Pair, TypeOK
<1>2. durable[o].state = "NONE" => mem[o].state = "NONE" /\ call # o /\ o \notin pending
  OBVIOUS
<1>3. durable[o].state # "NONE" => Logged(durable[o])
  OBVIOUS
<1>4. ASSUME NEW q \in Book, Update(o, q), Logged(q.dur) PROVE Logged(durable'[o])
  BY <1>4, UpdateType
<1>5. CASE SubmitOrder(o)
  <2>1. durable'[o] = ApplyLoggedEvent(durable[o], "SUBMIT_INTENT", 0)
    <3>. DEFINE d == ApplyLoggedEvent(durable[o], "SUBMIT_INTENT", 0)
                p == Append1(Pair(o), "SUBMIT_INTENT", 0)
                u == Pending(mem[o].mapped)
                f == [p EXCEPT !.live = u]
    <3>1. durable[o] \in OrderRec /\ mem[o] \in OrderRec /\ "PENDING" \in OrderState
      BY StreamTypes DEF OrderState
    <3>2. d \in OrderRec /\ u \in OrderRec
      BY <3>1, ApplyIntent DEF Pending, OrderRec
    <3>3. p \in Book /\ p.dur = d
      BY <1>1, <3>2, AppendType
    <3>4. Update(o, Transition(f, "SUBMIT"))
      BY <1>5 DEF SubmitOrder
    <3>. HIDE DEF d, p, u
    <3>5. f \in Book /\ f.dur = d
      BY <3>2, <3>3 DEF Book
    <3>. HIDE DEF f
    <3>6. durable'[o] = d
      BY <3>4, <3>5, TransitionType, UpdateType
    <3>. QED  BY <3>6 DEF d
  <2>2. ApplyLoggedEvent(durable[o], "SUBMIT_INTENT", 0).bid = FALSE
    BY StreamTypes, ApplyIntent
  <2>3. durable'[o].bid = FALSE /\ durable'[o].fsm = "SUBMITTED"
    BY <1>5, <2>1, <2>2, SubmitStarts
  <2>. QED  BY <2>3 DEF Logged, Replays
<1>6. CASE UNCHANGED <<mem, durable>>
  BY <1>3, <1>6
<1>7. CASE SubmitAccepted(o)
  <2>1. durable[o].state # "NONE"
    BY <1>2, <1>7 DEF SubmitAccepted
  <2>2. RecordAccepted(Pair(o)) \in Book /\ Logged(RecordAccepted(Pair(o)).dur)
    BY <1>1, <1>3, <2>1, RecordAcceptedBooks, HandlersReplay DEF Books
  <2>. QED  BY <1>4, <1>6, <1>7, <2>2 DEF SubmitAccepted
<1>8. CASE SubmitRejected(o)
  <2>1. durable[o].state # "NONE"
    BY <1>2, <1>8 DEF SubmitRejected
  <2>2. HandleRejection(Pair(o)) \in Book /\ Logged(HandleRejection(Pair(o)).dur)
    BY <1>1, <1>3, <2>1, EndHandlersBook, HandlersReplay DEF Books
  <2>. QED  BY <1>4, <1>8, <2>2 DEF SubmitRejected
<1>9. CASE SubmitUnavailable(o)
  BY <1>6, <1>9 DEF SubmitUnavailable
<1>10. CASE CancelOrder(o)
  <2>. DEFINE q == Transition(Append1(Pair(o), "CANCELLED", 0), "CANCEL")
  <2>1. durable[o].state # "NONE" /\ (Update(o, q) \/ UNCHANGED <<mem, durable>>)
    BY <1>2, <1>10 DEF CancelOrder, IsOpen
  <2>2. q \in Book /\ Logged(q.dur)
    BY <1>1, <1>3, <2>1, EndBooks, HandlersReplay DEF Books
  <2>. HIDE DEF q
  <2>. QED  BY <1>4, <1>6, <2>1, <2>2
<1>11. CASE DeliverEvent(o)
  <2>. DEFINE e == Head(stream[o])
              q == OnBrokerEvent(Pair(o), e)
  <2>1. stream[o] # <<>> /\ Update(o, q)
    BY <1>11 DEF DeliverEvent
  <2>2. /\ 1 \in DOMAIN stream[o] /\ e = stream[o][1] /\ e \in BrokerEvent
        /\ e.qty \in Nat /\ e.state \in BrokerState \ {"NONE"}
    <3>1. /\ 1 \in DOMAIN stream[o] /\ e = stream[o][1] /\ e \in BrokerEvent
          /\ e.qty \in Nat
      BY <1>1, <2>1, EventTypes
    <3>. QED  BY <3>1 DEF BrokerEvent
  <2>3. e.state \in {"PARTIALLY_FILLED", "FILLED"} => e.qty > 0
    BY <2>2 DEF Counts
  <2>4. q \in Book
    BY <1>1, <2>2, OnBrokerEventBooks DEF Books
  <2>5. CASE durable[o].state = "NONE"
    <3>1. q = Pair(o)
      BY <1>1, <1>2, <2>5 DEF OnBrokerEvent
    <3>. HIDE DEF q
    <3>. QED  BY <1>1, <2>1, <2>4, <2>5, <3>1, UpdateType
  <2>6. CASE durable[o].state # "NONE"
    <3>. HIDE DEF e
    <3>1. Logged(q.dur)
      BY <1>1, <1>3, <2>2, <2>3, <2>6, EventReplays
    <3>. HIDE DEF q
    <3>. QED  BY <1>4, <2>1, <2>4, <3>1
  <2>. QED  BY <2>5, <2>6
<1>12. CASE ReconcileOpenOrder(o)
  <2>. DEFINE rejected == HandleRejection(Pair(o))
              caughtUp == CatchUpFromBroker(Pair(o), broker[o])
  <2>1. durable[o].state # "NONE"
    BY <1>2, <1>12 DEF ReconcileOpenOrder
  <2>2. rejected \in Book /\ Logged(rejected.dur)
    BY <1>1, <1>3, <2>1, EndHandlersBook, HandlersReplay DEF Books
  <2>3. broker[o].state # "NONE" => caughtUp \in Book /\ Logged(caughtUp.dur)
    BY <1>1, <1>3, <2>1, CatchUpBooks, CatchUpReplays DEF Books
  <2>4. \/ Update(o, rejected) \/ UNCHANGED <<mem, durable>>
        \/ broker[o].state # "NONE" /\ Update(o, caughtUp)
    BY <1>12 DEF ReconcileOpenOrder
  <2>. HIDE DEF rejected, caughtUp
  <2>. QED  BY <1>4, <1>6, <2>2, <2>3, <2>4
<1>13. CASE CrashInCatchUp(o)
  <2>1. durable[o].state # "NONE" /\ broker[o].state # "NONE"
    BY <1>2, <1>13 DEF CrashInCatchUp
  <2>2. PICK p \in {RecordAccepted(Pair(o)), CatchUpFill(Pair(o), broker[o])} :
          durable' = [durable EXCEPT ![o] = p.dur]
    BY <1>13 DEF CrashInCatchUp
  <2>3. Logged(p.dur)
    BY <1>1, <1>3, <2>1, HandlersReplay, CatchUpReplays
  <2>. QED  BY <1>1, <2>2, <2>3
<1>. QED  BY <1>5, <1>7, <1>8, <1>9, <1>10, <1>11, <1>12, <1>13 DEF OmsStep

\* So it is under the invariant of recovery.
LEMMA LogSideStep ==
  ASSUME TypeOK, IInv, NEW o \in Order, Recoverable(o), OmsStep(o)
  PROVE  durable'[o].state # "NONE" => Logged(durable'[o])
<1>1. durable[o].state = "NONE" => mem[o].state = "NONE" /\ call # o /\ o \notin pending
  BY DEF IInv, OrderInv, Unknown
<1>. QED  BY <1>1, LogRowStep DEF Recoverable

\* The orders recovery still has to ask about are open.
LEMMA AskedStep ==
  ASSUME TypeOK, NEW x \in Order, Recoverable(x), [Next]_vars, x \in pending'
  PROVE  mode' = "recovering" /\ IsOpen(mem'[x])
<1>1. x \in pending => mode = "recovering" /\ IsOpen(mem[x])
  BY DEF Recoverable
<1>2. mem \in [Order -> OrderRec]
  BY DEF TypeOK
<1>3. ASSUME NEW o \in Order, OmsStep(o)
      PROVE  mode' = "recovering" /\ IsOpen(mem'[x])
  <2>1. CASE ReconcileOpenOrder(o)
    <3>1. x # o /\ x \in pending /\ mode' = mode
      BY <2>1 DEF ReconcileOpenOrder
    <3>2. mem'[x] = mem[x]
      BY <1>2, <2>1, <3>1 DEF ReconcileOpenOrder, Update
    <3>. QED  BY <1>1, <3>1, <3>2
  <2>2. CASE CrashInCatchUp(o)
    BY <2>2 DEF CrashInCatchUp, Stop
  <2>3. CASE ~ReconcileOpenOrder(o) /\ ~CrashInCatchUp(o)
    <3>1. mode = "up" /\ pending' = pending
      BY <1>3, <2>3
         DEF OmsStep, SubmitOrder, SubmitAccepted, SubmitRejected, LockFree,
             SubmitUnavailable, CancelOrder, DeliverEvent
    <3>. QED  BY <1>1, <3>1
  <2>. QED  BY <2>1, <2>2, <2>3
<1>4. ASSUME NEW o \in Order, BrokerStep(o)
      PROVE  mode' = "recovering" /\ IsOpen(mem'[x])
  BY <1>1, <1>4 DEF BrokerStep, BrokerReceives, BrokerFills, BrokerEnds, LoseEvent
<1>5. CASE Crash \/ RecoverReturns
  BY <1>5 DEF Crash, Stop, RecoverReturns
<1>6. CASE Recover
  BY <1>6 DEF Recover
<1>7. CASE UNCHANGED vars
  BY <1>1, <1>7 DEF vars
<1>. QED  BY <1>3, <1>4, <1>5, <1>6, <1>7 DEF Next

\* Every step keeps the invariant.
LEMMA RecoverableStep ==
  ASSUME TypeOK, TypeOK', IInv, RecoveryInv, [Next]_vars
  PROVE  RecoveryInv'
<1> SUFFICES ASSUME NEW x \in Order PROVE Recoverable(x)'
  BY DEF RecoveryInv
<1>1. Recoverable(x)
  BY DEF RecoveryInv
<1>2. durable'[x].state # "NONE" => Logged(durable'[x])
  <2>1. CASE durable'[x] = durable[x]
    BY <1>1, <2>1 DEF Recoverable
  <2>2. CASE OmsStep(x)
    BY <1>1, <2>2, LogSideStep
  <2>. QED  BY <2>1, <2>2, StepFrame DEF Next
<1>3. Short(broker'[x]) /\ \A i \in DOMAIN stream'[x] : Counts(stream'[x][i])
  BY <1>1, BrokerSideStep
<1>4. x \in pending' => mode' = "recovering" /\ IsOpen(mem'[x])
  BY <1>1, AskedStep
<1>. QED  BY <1>2, <1>3, <1>4 DEF Recoverable, Logged, Replays, Short, Counts, IsOpen

\* Where a lookup by client id finds what the broker has, recovery makes the
\* local quantity the broker's, keeps open what the broker works and ends the
\* rest as the broker did: ReconciledOrderAgrees.  Any number of retries, late
\* requests, crashes at any append and recover() on a live OMS included.
THEOREM RecoveredOrdersAgree ==
  ASSUME "FindReturnsNone" \notin Faults
  PROVE  Spec => ReconciledOrderAgrees
<1>. DEFINE Agrees == \A o \in Order :
       o \in pending \ pending' /\ mode' = "recovering" =>
         /\ mem'[o].filled = broker[o].filled
         /\ mem[o].state = mem[o].fsm /\ broker[o].state # "NONE" =>
              IF LiveAtBroker(broker[o])
              THEN IsOpen(mem'[o])
              ELSE mem'[o].state = LocalState(broker[o].state)
<1>1. Init => RecoveryInv
  <2>1. Unknown.state = "NONE" /\ Qty > 0
    BY QtyAssumption DEF Unknown
  <2>. QED  BY <2>1 DEF Init, RecoveryInv, Recoverable, Short
<1>2. TypeOK /\ TypeOK' /\ IInv /\ RecoveryInv /\ [Next]_vars => RecoveryInv'
  BY RecoverableStep
<1>3. TypeOK /\ IInv /\ RecoveryInv /\ [Next]_vars => [Agrees]_vars
  <2> SUFFICES ASSUME TypeOK, IInv, RecoveryInv, Next, NEW o \in Order,
                      o \in pending, o \notin pending', mode' = "recovering"
               PROVE  /\ mem'[o].filled = broker[o].filled
                      /\ mem[o].state = mem[o].fsm /\ broker[o].state # "NONE" =>
                           IF LiveAtBroker(broker[o])
                           THEN IsOpen(mem'[o])
                           ELSE mem'[o].state = LocalState(broker[o].state)
    OBVIOUS
  <2>. DEFINE p == Pair(o)
              b == broker[o]
              q == CatchUpFromBroker(p, b)
  <2>1. /\ p \in Book /\ p.live = mem[o] /\ p.dur = durable[o] /\ b \in BrokerRec
        /\ Qty \in Nat \ {0} /\ b.filled \in Nat /\ durable[o].filled \in Nat
        /\ mem[o] \in OrderRec
    BY StreamTypes, QtyAssumption DEF Pair, TypeOK
  <2>. HIDE DEF p
  <2>2. OrderInv(o) /\ Recoverable(o)
    BY DEF IInv, RecoveryInv
  <2>3. mode = "recovering" => /\ durable[o].state # "NONE" /\ Agree(p)
                               /\ durable[o].filled <= b.filled
    BY <2>2 DEF OrderInv, p
  <2>4. mode = "recovering" /\ IsOpen(mem[o])
    BY <2>2 DEF Recoverable
  <2>5. ReconcileOpenOrder(o)
    <3>1. ASSUME NEW x \in Order, OmsStep(x) PROVE ReconcileOpenOrder(o)
      BY <2>4, <3>1
         DEF OmsStep, SubmitOrder, SubmitAccepted, SubmitRejected, LockFree,
             SubmitUnavailable, CancelOrder, DeliverEvent, ReconcileOpenOrder,
             CrashInCatchUp, Stop
    <3>2. ASSUME NEW x \in Order, BrokerStep(x) PROVE FALSE
      BY <3>2 DEF BrokerStep, BrokerReceives, BrokerFills, BrokerEnds, LoseEvent
    <3>3. ~Crash /\ ~Recover /\ ~RecoverReturns
      BY <2>4 DEF Crash, Stop, Recover, LockFree, RecoverReturns
    <3>. QED  BY <3>1, <3>2, <3>3 DEF Next
  <2>6. /\ mem[o].filled = durable[o].filled /\ mem[o].bid = durable[o].bid
        /\ mem[o].fsm = durable[o].fsm \/ mem[o].fsm = "FILLED"
        /\ mem[o].filled <= b.filled
    BY <2>1, <2>3, <2>4 DEF Agree
  <2>7. CASE b.state = "NONE" /\ Update(o, HandleRejection(p))
    <3>1. Books(p, HandleRejection(p), 0)
      BY <2>1, EndHandlersBook
    <3>2. mem'[o] = HandleRejection(p).live
      BY <2>7, <3>1, UpdateType DEF Books
    <3>3. mem'[o].filled = mem[o].filled /\ b.filled = 0
      BY <2>1, <2>2, <2>7, <3>1, <3>2 DEF Books, Recoverable, Short, OrderRec
    <3>. QED  BY <2>1, <2>6, <2>7, <3>3
  <2>8. CASE BrokerStateMatches(mem[o], b) /\ UNCHANGED mem
    BY <2>4, <2>8 DEF BrokerStateMatches
  <2>9. CASE b.state # "NONE" /\ Update(o, q)
    <3>1. PICK n \in Nat : Books(p, q, n) /\ n = b.filled - mem[o].filled
      BY <2>1, <2>6, <2>9, CatchUpBooks
    <3>2. mem'[o] = q.live /\ q.live.filled = mem[o].filled + n
      BY <2>1, <2>9, <3>1, UpdateType DEF Books
    <3>3. mem'[o].filled = b.filled
      BY <2>1, <3>1, <3>2 DEF OrderRec
    <3>4. ASSUME mem[o].state = mem[o].fsm
          PROVE  IF LiveAtBroker(b) THEN IsOpen(q.live)
                 ELSE q.live.state = LocalState(b.state)
      <4>1. mem[o].fsm = durable[o].fsm /\ Logged(durable[o])
        BY <2>2, <2>3, <2>4, <2>6, <3>4 DEF IsOpen, TerminalStates, Recoverable
      <4>2. Replays(mem[o]) /\ mem[o].fsm # "PENDING"
        BY <2>6, <4>1 DEF Logged, Replays
      <4>3. Short(b)
        BY <2>2 DEF Recoverable
      <4>. HIDE DEF b, q
      <4>4. IF LiveAtBroker(b) THEN IsOpen(CatchUpFromBroker(p, b).live)
            ELSE CatchUpFromBroker(p, b).live.state = LocalState(b.state)
        BY <2>1, <2>4, <2>6, <2>9, <3>4, <4>2, <4>3, CatchUpAgrees
      <4>. QED  BY <4>4 DEF q
    <3>. QED  BY <3>2, <3>3, <3>4
  <2>. QED  BY <2>5, <2>7, <2>8, <2>9 DEF ReconcileOpenOrder, p
<1>. QED  BY <1>1, <1>2, <1>3, Invariant, PTL DEF Spec, ReconciledOrderAgrees

-----------------------------------------------------------------------------
(* The reconciler without a stream *)

\* The types the pass relies on.
PassTypes ==
  /\ TypeOK
  /\ pass \in {"idle", "orders", "positions"} /\ todo \subseteq Order
  /\ fetched \in Answer \cup {NoStatus} /\ \A o \in Order : seen[o].filled \in Nat

\* An order never submitted is known to nobody, and one that an earlier life
\* submitted is not submitted again; nor, without a stream, one that has its
\* broker id.
Tried(o) ==
  /\ tries[o] = 0 => /\ mem[o] = Unknown /\ durable[o] = Unknown
                     /\ o # call /\ o \notin pending
  /\ mode # "up" => tries[o] \in {0, MaxTries}
  /\ ~streaming /\ mode = "up" /\ mem[o].bid => tries[o] = MaxTries

\* An order that is still to be polled was submitted, and without a stream the
\* snapshot of it is what the OMS holds.
Current(o) ==
  pass = "orders" /\ o \in todo =>
    /\ tries[o] # 0
    /\ ~streaming => mem[o].bid /\ seen[o].filled = mem[o].filled

\* The broker's answer in hand is about such an order, and not ahead of it.
Asked ==
  fetched # NoStatus =>
    /\ pass = "orders" /\ fetched.order \in todo
    /\ fetched.filled <= broker[fetched.order].filled

PassInv ==
  /\ PassTypes
  /\ mode # "up" => pass = "idle"
  /\ \A o \in Order : Tried(o) /\ Current(o)
  /\ Asked

\* What the handlers that carry no quantity leave of the live record.
LEMMA EndsKeepBid ==
  ASSUME NEW p \in Book
  PROVE  /\ HandleRejection(p).live.bid = p.live.bid
         /\ Transition(Append1(p, "CANCELLED", 0), "CANCEL").live.bid = p.live.bid
         /\ RecordAccepted(p).live.bid
<1>1. p.dur \in OrderRec /\ p.live \in OrderRec
  BY DEF Book
<1>2. ASSUME NEW k, NEW e, \/ k = "CANCELLED" /\ e = "CANCEL"
                           \/ k = "REJECTED" /\ e = "REJECT"
      PROVE  Transition(Append1(p, k, 0), e).live.bid = p.live.bid
  <2>1. ApplyLoggedEvent(p.dur, k, 0) \in OrderRec
    BY <1>1, <1>2, ApplyEnd
  <2>2. Append1(p, k, 0) \in Book /\ Append1(p, k, 0).live = p.live
    BY <2>1, AppendType
  <2>. QED  BY <2>2, TransitionType
<1>3. RecordAccepted(p).live.bid
  <2>1. CASE p.live.bid
    BY <2>1 DEF RecordAccepted
  <2>2. CASE ~p.live.bid
    <3>. DEFINE a == Append1(p, "ACCEPTED", 0)
                b == [a EXCEPT !.live.bid = TRUE, !.live.mapped = TRUE]
    <3>1. ApplyLoggedEvent(p.dur, "ACCEPTED", 0) \in OrderRec
      BY <1>1, ApplyAccepted
    <3>2. a \in Book /\ a.live = p.live
      BY <3>1, AppendType
    <3>3. RecordAccepted(p) = Transition(b, "ACCEPT")
      BY <2>2 DEF RecordAccepted
    <3>. HIDE DEF a
    <3>4. b \in Book /\ b.live.bid
      BY <1>1, <3>2 DEF Book, OrderRec
    <3>. HIDE DEF b
    <3>. QED  BY <3>3, <3>4, TransitionType
  <2>. QED  BY <2>1, <2>2
<1>. QED  BY <1>2, <1>3 DEF HandleRejection

\* Polling an order books what the answer is ahead of the snapshot, or nothing.
LEMMA PolledBooksGap ==
  ASSUME NEW p \in Book, NEW s, s.filled \in Nat, NEW b \in Answer,
         StatusRequiresUpdate(b.state), Qty \in Nat
  PROVE  \E n \in Nat : /\ Books(p, PolledBooks(p, s, b), n)
                        /\ n # 0 => n = b.filled - s.filled
<1>1. b.filled \in Nat
  BY DEF Answer
<1>2. CASE b.state \in {"PARTIALLY_FILLED", "FILLED"} /\ b.filled > s.filled
  <2>. DEFINE n == b.filled - s.filled
  <2>1. n \in Nat
    BY <1>1, <1>2
  <2>2. PolledBooks(p, s, b) = HandleFill(p, n)
    BY <1>1, <1>2 DEF PolledBooks
  <2>3. Books(p, HandleFill(p, n), n)
    BY <2>1, HandleFillBooks
  <2>. QED  BY <2>1, <2>2, <2>3
<1>3. ASSUME Books(p, PolledBooks(p, s, b), 0)
      PROVE  \E n \in Nat : /\ Books(p, PolledBooks(p, s, b), n)
                            /\ n # 0 => n = b.filled - s.filled
  BY <1>3
<1>4. CASE b.state = "FILLED" /\ ~(b.filled > s.filled)
  <2>1. PolledBooks(p, s, b) = ForceCloseFilled(p)
    BY <1>1, <1>4 DEF PolledBooks
  <2>. QED  BY <1>3, <2>1, ForceCloseBooks
<1>5. CASE b.state = "PARTIALLY_FILLED" /\ ~(b.filled > s.filled)
  <2>1. PolledBooks(p, s, b) = p
    BY <1>1, <1>5 DEF PolledBooks
  <2>. QED  BY <1>3, <2>1, BooksNothing
<1>6. CASE b.state \in {"CANCELED", "REJECTED", "EXPIRED"}
  <2>. DEFINE e == [state |-> b.state, qty |-> 0]
  <2>1. PolledBooks(p, s, b) = OnBrokerEvent(p, e)
    BY <1>6 DEF PolledBooks
  <2>2. \/ OnBrokerEvent(p, e) = p \/ OnBrokerEvent(p, e) = HandleCancellation(p)
        \/ OnBrokerEvent(p, e) = HandleRejection(p)
        \/ OnBrokerEvent(p, e) = HandleExpiry(p)
    BY <1>6 DEF OnBrokerEvent
  <2>. QED  BY <1>3, <2>1, <2>2, EndHandlersBook, BooksNothing
<1>. QED  BY <1>2, <1>4, <1>5, <1>6 DEF StatusRequiresUpdate

\* A poll writes the record of the order it is about.
LEMMA ApplyWrites ==
  ASSUME PassTypes, NEW o \in Order, ApplyStatus(o)
  PROVE  /\ TypeOK'
         /\ \A x \in Order \ {o} : mem'[x] = mem[x] /\ durable'[x] = durable[x]
         /\ \/ mem'[o].filled = mem[o].filled
            \/ mem'[o].filled = mem[o].filled + (fetched.filled - seen[o].filled)
<1>1. /\ Pair(o) \in Book /\ Qty \in Nat /\ TypeOK
      /\ Pair(o).live = mem[o] /\ mem[o].filled \in Nat
  BY StreamTypes, QtyAssumption DEF PassTypes, Pair, OrderRec
<1>2. UNCHANGED <<mode, call, tries, pending, wire, broker, stream>>
  BY DEF ApplyStatus
<1>3. fetched \in Answer /\ seen[o].filled \in Nat /\ fetched.filled \in Nat
  BY <1>1 DEF ApplyStatus, PassTypes, Answer
<1>4. CASE UNCHANGED <<mem, durable>>
  BY <1>1, <1>2, <1>4 DEF TypeOK
<1>5. CASE /\ StatusRequiresUpdate(fetched.state)
           /\ Update(o, PolledBooks(Pair(o), seen[o], fetched))
  <2>. DEFINE q == PolledBooks(Pair(o), seen[o], fetched)
  <2>1. PICK n \in Nat : Books(Pair(o), q, n) /\ (n # 0 => n = fetched.filled - seen[o].filled)
    BY <1>1, <1>3, <1>5, PolledBooksGap
  <2>2. q \in Book /\ q.live.filled = mem[o].filled + n
    BY <1>1, <2>1 DEF Books
  <2>3. Update(o, q)
    BY <1>5
  <2>. HIDE DEF q
  <2>4. /\ mem' \in [Order -> OrderRec] /\ durable' \in [Order -> OrderRec]
        /\ mem'[o] = q.live
        /\ \A x \in Order \ {o} : mem'[x] = mem[x] /\ durable'[x] = durable[x]
    BY <1>1, <2>2, <2>3, UpdateType
  <2>5. TypeOK'
    BY <1>1, <1>2, <2>4 DEF TypeOK
  <2>6. n = 0 => mem'[o].filled = mem[o].filled
    BY <1>1, <2>2, <2>4
  <2>. QED  BY <2>1, <2>2, <2>4, <2>5, <2>6
<1>. QED  BY <1>4, <1>5 DEF ApplyStatus

\* The invariant's part about one order, where a step leaves the order alone.
LEMMA PassKept ==
  ASSUME NEW o \in Order, Tried(o), Current(o),
         mem'[o] = mem[o], durable'[o] = durable[o], tries'[o] = tries[o],
         call' # o \/ call' = call, o \in pending' => o \in pending,
         mode' = mode, streaming' = streaming,
         pass' = "orders" /\ o \in todo' =>
           \/ pass = "orders" /\ o \in todo /\ seen' = seen
           \/ mem'[o].bid /\ seen'[o].filled = mem'[o].filled
  PROVE  Tried(o)' /\ Current(o)'
<1>1. Tried(o)'
  BY DEF Tried
<1>2. tries[o] = 0 => ~mem[o].bid
  BY DEF Tried, Unknown
<1>. QED  BY <1>1, <1>2 DEF Current

\* What a step of the OMS that is not one of recovery does to an order's turn.
LEMMA OmsTried ==
  ASSUME PassTypes, NEW o \in Order, NEW x \in Order, Tried(x), Current(x),
         OmsOrBroker(o), mode = "up"
  PROVE  Tried(x)' /\ Current(x)'
<1>1. /\ Pair(x) \in Book /\ TypeOK /\ NoOrder # x
      /\ Pair(x).live = mem[x] /\ Pair(x).dur = durable[x] /\ mem[x].filled \in Nat
      /\ mem \in [Order -> OrderRec] /\ durable \in [Order -> OrderRec]
      /\ tries \in [Order -> 0..MaxTries] /\ MaxTries \in Nat \ {0} /\ Qty \in Nat
  BY StreamTypes, QtyAssumption, TriesAssumption, NoOrderAssumption
     DEF PassTypes, Pair, OrderRec, TypeOK
<1>2. UNCHANGED recVars
  BY DEF OmsOrBroker
<1>3. UNCHANGED <<streaming, pass, todo, seen, fetched>>
  BY <1>2 DEF recVars, passVars
<1>4. Unknown.bid = FALSE /\ Unknown.state = "NONE"
  BY DEF Unknown
<1>5. ASSUME NEW q \in Book, Update(x, q), q.live.filled = mem[x].filled,
             tries[x] # 0, mode' = mode, call' \in {call, NoOrder}, pending' = pending,
             \/ tries'[x] = tries[x] /\ (q.live.bid => mem[x].bid \/ streaming)
                /\ (mem[x].bid => q.live.bid)
             \/ tries'[x] = MaxTries /\ (mem[x].bid => q.live.bid)
      PROVE  Tried(x)' /\ Current(x)'
  <2>1. mem'[x] = q.live /\ durable'[x] = q.dur
    BY <1>1, <1>5, UpdateType
  <2>. QED  BY <1>1, <1>3, <1>5, <2>1 DEF Tried, Current
<1>6. CASE o # x /\ ~SubmitOrder(o) /\ ~CrashInCatchUp(o)
  <2>1. /\ mem'[x] = mem[x] /\ durable'[x] = durable[x] /\ tries'[x] = tries[x]
        /\ call' \in {call, NoOrder} /\ pending' \subseteq pending /\ mode' = mode
    BY <1>1, <1>6
       DEF OmsOrBroker, SubmitAccepted, SubmitRejected, SubmitUnavailable,
           CancelOrder, DeliverEvent, ReconcileOpenOrder, Update, BrokerStep,
           BrokerReceives, BrokerFills, BrokerEnds, LoseEvent
  <2>. QED  BY <1>1, <1>3, <2>1, PassKept
<1>7. mode = "up" => ~ReconcileOpenOrder(o) /\ ~CrashInCatchUp(o)
  BY DEF ReconcileOpenOrder, CrashInCatchUp
<1>8. CASE o # x /\ SubmitOrder(o)
  <2>1. /\ mem'[x] = mem[x] /\ durable'[x] = durable[x] /\ tries'[x] = tries[x]
        /\ call' = o /\ pending' = pending /\ mode' = mode
    BY <1>1, <1>8 DEF SubmitOrder, Update
  <2>. QED  BY <1>3, <1>8, <2>1, PassKept
<1>9. CASE SubmitOrder(x)
  <2>1. /\ tries[x] < MaxTries /\ tries'[x] = tries[x] + 1 /\ mode' = mode
        /\ tries[x] \in 0..MaxTries
    BY <1>1, <1>9 DEF SubmitOrder
  <2>2. ~mem'[x].bid
    <3>. DEFINE d == ApplyLoggedEvent(durable[x], "SUBMIT_INTENT", 0)
                p == Append1(Pair(x), "SUBMIT_INTENT", 0)
                u == Pending(mem[x].mapped)
                f == [p EXCEPT !.live = u]
    <3>1. durable[x] \in OrderRec /\ mem[x] \in OrderRec /\ "PENDING" \in OrderState
      BY <1>1 DEF OrderState
    <3>2. d \in OrderRec /\ u \in OrderRec /\ ~u.bid
      BY <3>1, ApplyIntent DEF Pending, OrderRec
    <3>3. p \in Book
      BY <1>1, <3>2, AppendType
    <3>4. Update(x, Transition(f, "SUBMIT"))
      BY <1>9 DEF SubmitOrder
    <3>. HIDE DEF d, p, u
    <3>5. f \in Book /\ ~f.live.bid
      BY <3>2, <3>3 DEF Book
    <3>. HIDE DEF f
    <3>. QED  BY <1>1, <3>4, <3>5, TransitionType, UpdateType
  <2>3. tries'[x] # 0
    BY <2>1
  <2>4. ~(~streaming /\ mem[x].bid)
    BY <1>1, <2>1 DEF Tried
  <2>. QED  BY <1>3, <2>1, <2>2, <2>3, <2>4 DEF Tried, Current
<1>10. call = x \/ mem[x].state # "NONE" => tries[x] # 0
  BY <1>4 DEF Tried
<1>11. CASE SubmitAccepted(x)
  <2>1. /\ mode' = mode /\ call' = NoOrder /\ pending' = pending
        /\ tries'[x] = MaxTries /\ tries[x] # 0
        /\ Update(x, RecordAccepted(Pair(x))) \/ UNCHANGED <<mem, durable>>
    BY <1>1, <1>10, <1>11 DEF SubmitAccepted
  <2>2. CASE UNCHANGED <<mem, durable>>
    BY <1>1, <1>3, <2>1, <2>2 DEF Tried, Current
  <2>. DEFINE q == RecordAccepted(Pair(x))
  <2>3. q \in Book /\ q.live.filled = mem[x].filled /\ q.live.bid
    BY <1>1, RecordAcceptedBooks, EndsKeepBid DEF Books
  <2>. HIDE DEF q
  <2>. QED  BY <1>5, <2>1, <2>2, <2>3 DEF q
<1>12. CASE SubmitRejected(x)
  <2>. DEFINE q == HandleRejection(Pair(x))
  <2>1. /\ mode' = mode /\ call' = NoOrder /\ pending' = pending
        /\ tries'[x] = MaxTries /\ tries[x] # 0 /\ Update(x, q)
    BY <1>1, <1>10, <1>12 DEF SubmitRejected
  <2>2. q \in Book /\ q.live.filled = mem[x].filled /\ q.live.bid = mem[x].bid
    <3>1. Books(Pair(x), q, 0)
      BY <1>1, EndHandlersBook
    <3>2. q.live.bid = Pair(x).live.bid
      BY <1>1, EndsKeepBid
    <3>. HIDE DEF q
    <3>. QED  BY <1>1, <3>1, <3>2 DEF Books
  <2>. HIDE DEF q
  <2>. QED  BY <1>5, <2>1, <2>2
<1>13. CASE SubmitUnavailable(x) \/ BrokerStep(x)
  <2>1. /\ mem' = mem /\ durable' = durable /\ tries' = tries /\ pending' = pending
        /\ call' \in {call, NoOrder} /\ mode' = mode
    BY <1>13 DEF SubmitUnavailable, BrokerStep, BrokerReceives, BrokerFills,
                 BrokerEnds, LoseEvent
  <2>. QED  BY <1>1, <1>3, <2>1, PassKept
<1>14. CASE CancelOrder(x)
  <2>. DEFINE q == Transition(Append1(Pair(x), "CANCELLED", 0), "CANCEL")
  <2>1. /\ mode' = mode /\ call' = call /\ pending' = pending
        /\ tries' = tries /\ tries[x] # 0
        /\ Update(x, q) \/ UNCHANGED <<mem, durable>>
    BY <1>1, <1>10, <1>14 DEF CancelOrder, IsOpen
  <2>2. q \in Book /\ q.live.filled = mem[x].filled /\ q.live.bid = mem[x].bid
    BY <1>1, EndBooks, EndsKeepBid DEF Books
  <2>3. CASE UNCHANGED <<mem, durable>>
    BY <1>1, <1>3, <2>1, <2>3, PassKept
  <2>. HIDE DEF q
  <2>. QED  BY <1>5, <2>1, <2>2, <2>3
<1>15. CASE streaming /\ DeliverEvent(x)
  <2>. DEFINE q == OnBrokerEvent(Pair(x), Head(stream[x]))
  <2>1. /\ mode' = mode /\ call' = call /\ pending' = pending /\ tries' = tries
        /\ stream[x] # <<>> /\ Update(x, q)
    BY <1>15 DEF DeliverEvent
  <2>2. tries[x] = 0 => q = Pair(x)
    BY <1>1, <1>10 DEF OnBrokerEvent
  <2>3. q \in Book
    <3>1. Head(stream[x]) \in BrokerEvent
      BY <1>1, <2>1, StreamTypes
    <3>. QED  BY <1>1, <3>1, OnBrokerEventBooks DEF Books
  <2>. HIDE DEF q
  <2>4. mem'[x] = q.live /\ durable'[x] = q.dur
    BY <1>1, <2>1, <2>3, UpdateType
  <2>. QED  BY <1>1, <1>3, <1>15, <2>1, <2>2, <2>4 DEF Tried, Current
<1>. QED  BY <1>6, <1>7, <1>8, <1>9, <1>11, <1>12, <1>13, <1>14, <1>15
          DEF OmsOrBroker

\* A step of recovery, between lives: no pass is under way.
LEMMA RecoveringTried ==
  ASSUME PassTypes, NEW x \in Order, Tried(x), pass = "idle", mode # "up",
         MaxTries \in Nat \ {0},
         \E o \in Order : OmsOrBroker(o)
  PROVE  Tried(x)' /\ Current(x)' /\ (mode' # "up" => pass' = "idle")
<1>1. PICK o \in Order : OmsOrBroker(o)
  OBVIOUS
<1>2. UNCHANGED <<streaming, pass>>
  BY <1>1 DEF OmsOrBroker, recVars, passVars
<1>3. /\ mem \in [Order -> OrderRec] /\ durable \in [Order -> OrderRec]
      /\ NoOrder # x /\ Unknown.bid = FALSE
  BY NoOrderAssumption DEF PassTypes, TypeOK, Unknown
<1>4. tries[x] = 0 => x # o \/ o \notin pending
  BY DEF Tried
<1>5. CASE ReconcileOpenOrder(o)
  <2>1. /\ mode' = mode /\ call' = call /\ pending' = pending \ {o} /\ tries' = tries
        /\ o \in pending
    BY <1>5 DEF ReconcileOpenOrder
  <2>2. x # o => mem'[x] = mem[x] /\ durable'[x] = durable[x]
    BY <1>3, <1>5 DEF ReconcileOpenOrder, Update
  <2>. QED  BY <1>2, <1>4, <2>1, <2>2 DEF Tried, Current
<1>6. CASE CrashInCatchUp(o)
  <2>1. /\ mode' = "down" /\ mem'[x] = Unknown /\ call' = NoOrder /\ pending' = {}
        /\ tries'[x] = IF tries[x] = 0 THEN 0 ELSE MaxTries
        /\ o \in pending
    BY <1>6 DEF CrashInCatchUp, Stop
  <2>2. x # o => durable'[x] = durable[x]
    BY <1>3, <1>6 DEF CrashInCatchUp
  <2>. QED  BY <1>2, <1>3, <1>4, <2>1, <2>2 DEF Tried, Current
<1>7. CASE BrokerStep(o)
  <2>1. /\ mem' = mem /\ durable' = durable /\ tries' = tries /\ pending' = pending
        /\ call' = call /\ mode' = mode
    BY <1>7 DEF BrokerStep, BrokerReceives, BrokerFills, BrokerEnds, LoseEvent
  <2>. QED  BY <1>2, <2>1 DEF Tried, Current
<1>8. CASE SubmitUnavailable(o) \/ SubmitRejected(o) \/ SubmitAccepted(o)
  BY <1>8 DEF SubmitUnavailable, SubmitRejected, SubmitAccepted
<1>9. CASE SubmitOrder(o) \/ CancelOrder(o) \/ DeliverEvent(o)
  BY <1>9 DEF SubmitOrder, CancelOrder, DeliverEvent, LockFree
<1>. QED  BY <1>1, <1>5, <1>6, <1>7, <1>8, <1>9 DEF OmsOrBroker

\* The broker's quantity of an order only grows.
LEMMA BrokerGrows ==
  ASSUME TypeOK, NEW x \in Order, NEW o \in Order, OmsOrBroker(o)
  PROVE  broker'[x].filled >= broker[x].filled
<1>1. /\ broker \in [Order -> BrokerRec] /\ broker[o].filled \in Nat
      /\ broker[x].filled \in Nat
  BY StreamTypes DEF TypeOK
<1>2. CASE OmsStep(o)
  BY <1>1, <1>2, StepFrame
<1>3. CASE BrokerFills(o)
  <2>1. PICK k \in 1..(Qty - broker[o].filled), s \in {"PARTIALLY_FILLED", "FILLED"} :
          broker' = [broker EXCEPT ![o] = [state |-> s, filled |-> broker[o].filled + k]]
    BY <1>3 DEF BrokerFills
  <2>2. x = o => broker'[x].filled = broker[o].filled + k
    BY <1>1, <2>1
  <2>3. x # o => broker'[x] = broker[x]
    BY <1>1, <2>1
  <2>. QED  BY <1>1, <2>2, <2>3
<1>4. CASE BrokerReceives(o) \/ BrokerEnds(o)
  <2>1. broker' = broker \/ \E s : broker' = [broker EXCEPT ![o].state = s]
    BY <1>4 DEF BrokerReceives, BrokerEnds
  <2>2. broker'[x].filled = broker[x].filled
    BY <1>1, <2>1 DEF BrokerRec
  <2>. QED  BY <1>1, <2>2
<1>5. CASE LoseEvent(o)
  BY <1>1, <1>5 DEF LoseEvent
<1>. QED  BY <1>2, <1>3, <1>4, <1>5 DEF OmsOrBroker, OmsStep, BrokerStep

\* The invariant after a step of the OMS or the broker.
LEMMA OmsPass ==
  ASSUME PassInv, NEW o \in Order, OmsOrBroker(o)
  PROVE  PassInv'
<1>1. UNCHANGED <<streaming, pass, todo, seen, fetched>>
  BY DEF OmsOrBroker, recVars, passVars
<1>2. TypeOK'
  <2>1. Next
    BY DEF OmsOrBroker, Next, OmsStep
  <2>. QED  BY <2>1, TypeStep DEF PassInv, PassTypes
<1>3. PassTypes'
  BY <1>1, <1>2 DEF PassInv, PassTypes
<1>4. CASE mode = "up"
  <2>1. mode' = "up"
    BY <1>4 DEF OmsOrBroker, SubmitOrder, SubmitAccepted, SubmitRejected,
                SubmitUnavailable, CancelOrder, DeliverEvent, ReconcileOpenOrder,
                CrashInCatchUp, BrokerStep, BrokerReceives, BrokerFills, BrokerEnds,
                LoseEvent
  <2>2. \A x \in Order : Tried(x)' /\ Current(x)'
    BY <1>4, OmsTried DEF PassInv
  <2>3. Asked'
    <3> SUFFICES ASSUME fetched # NoStatus PROVE fetched.filled <= broker'[fetched.order].filled
      BY <1>1 DEF PassInv, Asked
    <3>1. /\ fetched.order \in Order /\ fetched.filled \in Nat
          /\ fetched.filled <= broker[fetched.order].filled
          /\ broker[fetched.order].filled \in Nat /\ broker'[fetched.order].filled \in Nat
      BY <1>2, QtyAssumption DEF PassInv, PassTypes, Asked, Answer, TypeOK, BrokerRec
    <3>2. broker'[fetched.order].filled >= broker[fetched.order].filled
      BY <3>1, BrokerGrows DEF PassInv, PassTypes
    <3>. QED  BY <3>1, <3>2
  <2>. QED  BY <1>3, <2>1, <2>2, <2>3 DEF PassInv
<1>5. CASE mode # "up"
  <2>1. /\ pass = "idle" /\ fetched = NoStatus /\ MaxTries \in Nat \ {0}
    BY <1>5, TriesAssumption DEF PassInv, Asked
  <2>2. \A x \in Order : Tried(x)' /\ Current(x)'
    BY <1>5, <2>1, RecoveringTried DEF PassInv
  <2>. QED  BY <1>1, <1>3, <2>1, <2>2 DEF PassInv, Asked
<1>. QED  BY <1>4, <1>5

\* After a step of the pass, or one that concerns neither pass nor orders.
LEMMA PassPass ==
  ASSUME PassInv,
         PassStep \/ (\E o \in Order : FetchFails(o)) \/ PositionsUnavailable \/ Heartbeat
  PROVE  PassInv'
<1>1. TypeOK /\ broker \in [Order -> BrokerRec] /\ mem \in [Order -> OrderRec]
      /\ Qty \in Nat
  BY QtyAssumption DEF PassInv, PassTypes, TypeOK
<1>2. ASSUME UNCHANGED vars, streaming' = streaming, PassTypes',
             mode # "up" => pass' = "idle", Asked',
             \A o \in Order : pass' = "orders" /\ o \in todo' =>
               \/ pass = "orders" /\ o \in todo /\ seen' = seen
               \/ mem[o].bid /\ seen'[o].filled = mem[o].filled
      PROVE  PassInv'
  <2>1. ASSUME NEW o \in Order PROVE Tried(o)' /\ Current(o)'
    BY <1>2, PassKept DEF PassInv, vars
  <2>. QED  BY <1>2, <2>1 DEF PassInv, vars
<1>3. ASSUME UNCHANGED vars PROVE TypeOK'
  BY <1>1, <1>3 DEF TypeOK, vars
<1>4. CASE StartPass
  <2>1. /\ UNCHANGED <<vars, streaming, fetched>> /\ mode = "up" /\ pass = "idle"
        /\ pass' = "orders" /\ todo' = {o \in Order : IsOpen(mem[o]) /\ mem[o].bid}
        /\ seen' = [o \in Order |-> [state |-> mem[o].state, filled |-> mem[o].filled]]
    BY <1>4 DEF StartPass, LockFree
  <2>2. \A o \in Order : seen'[o].filled = mem[o].filled /\ mem[o].filled \in Nat
    BY <1>1, <2>1 DEF OrderRec
  <2>3. fetched = NoStatus
    BY <2>1 DEF PassInv, Asked
  <2>4. PassTypes'
    BY <1>3, <2>1, <2>2 DEF PassTypes, PassInv
  <2>. QED  BY <1>2, <2>1, <2>2, <2>3, <2>4 DEF Asked
<1>5. ASSUME NEW o \in Order, FetchStatus(o) PROVE PassInv'
  <2>1. /\ UNCHANGED <<vars, streaming, pass, todo, seen>> /\ pass = "orders"
        /\ mode = "up" /\ o \in todo
        /\ fetched' = [order |-> o, state |-> broker[o].state, filled |-> broker[o].filled]
    BY <1>5 DEF FetchStatus
  <2>2. fetched' \in Answer /\ broker[o].filled \in Nat
    BY <1>1, <2>1 DEF Answer, BrokerRec
  <2>3. PassTypes'
    BY <1>3, <2>1, <2>2 DEF PassTypes, PassInv
  <2>4. Asked'
    BY <2>1, <2>2 DEF Asked, vars
  <2>. QED  BY <1>2, <2>1, <2>3, <2>4
<1>6. ASSUME NEW o \in Order, FetchFails(o) PROVE PassInv'
  <2>1. /\ UNCHANGED <<vars, streaming, pass, seen, fetched>> /\ mode = "up"
        /\ fetched = NoStatus /\ todo' = todo \ {o}
    BY <1>6 DEF FetchFails
  <2>2. PassTypes'
    BY <1>3, <2>1 DEF PassTypes, PassInv
  <2>. QED  BY <1>2, <2>1, <2>2 DEF Asked
<1>7. ASSUME NEW o \in Order, ApplyStatus(o) PROVE PassInv'
  <2>1. /\ UNCHANGED <<mode, call, tries, pending, wire, broker, stream>>
        /\ UNCHANGED <<streaming, pass, seen>> /\ mode = "up" /\ pass = "orders"
        /\ fetched # NoStatus /\ fetched.order = o /\ fetched' = NoStatus
        /\ todo' = todo \ {o}
    BY <1>7 DEF ApplyStatus, LockFree
  <2>2. /\ TypeOK' /\ \A x \in Order \ {o} : mem'[x] = mem[x] /\ durable'[x] = durable[x]
    BY <1>7, ApplyWrites DEF PassInv
  <2>3. PassTypes'
    BY <2>1, <2>2 DEF PassTypes, PassInv
  <2>4. ASSUME NEW x \in Order PROVE Tried(x)' /\ Current(x)'
    <3>1. CASE x # o
      BY <2>1, <2>2, <3>1, PassKept DEF PassInv
    <3>2. CASE x = o
      <4>1. o \in todo /\ x \notin todo'
        BY <2>1, <3>2 DEF PassInv, Asked
      <4>2. ~streaming => tries[x] = MaxTries
        BY <2>1, <3>2, <4>1 DEF PassInv, Tried, Current
      <4>3. tries[x] # 0
        BY <2>1, <3>2, <4>1 DEF PassInv, Current
      <4>. QED  BY <2>1, <4>1, <4>2, <4>3 DEF PassInv, Tried, Current
    <3>. QED  BY <3>1, <3>2
  <2>. QED  BY <2>1, <2>3, <2>4 DEF PassInv, Asked
<1>8. CASE ComputeExpected
  <2>1. /\ UNCHANGED <<vars, streaming, seen, fetched>> /\ mode = "up"
        /\ pass' = "positions" /\ todo' \subseteq Order /\ todo = {} 
    BY <1>8 DEF ComputeExpected, LockFree
  <2>2. PassTypes'
    BY <1>3, <2>1 DEF PassTypes, PassInv
  <2>. QED  BY <1>2, <2>1, <2>2 DEF PassInv, Asked
<1>9. ASSUME NEW o \in Order, SumFills(o) PROVE PassInv'
  <2>1. /\ UNCHANGED <<vars, streaming, pass, seen, fetched>> /\ mode = "up"
        /\ pass = "positions" /\ todo' = todo \ {o}
    BY <1>9 DEF SumFills, LockFree
  <2>2. PassTypes'
    BY <1>3, <2>1 DEF PassTypes, PassInv
  <2>. QED  BY <1>2, <2>1, <2>2 DEF PassInv, Asked
<1>10. CASE ComparePositions \/ PositionsUnavailable
  <2>1. /\ UNCHANGED <<vars, streaming, todo, seen, fetched>> /\ mode = "up"
        /\ pass = "positions" /\ pass' = "idle"
    BY <1>10 DEF ComparePositions, PositionsUnavailable, LockFree
  <2>2. PassTypes'
    BY <1>3, <2>1 DEF PassTypes, PassInv
  <2>. QED  BY <1>2, <2>1, <2>2 DEF PassInv, Asked
<1>11. CASE Heartbeat
  <2>1. UNCHANGED <<vars, streaming, pass, todo, seen, fetched>>
    BY <1>11 DEF Heartbeat, passVars
  <2>2. PassTypes'
    BY <1>3, <2>1 DEF PassTypes, PassInv
  <2>3. Asked'
    BY <2>1 DEF PassInv, Asked, vars
  <2>. QED  BY <1>2, <2>1, <2>2, <2>3 DEF PassInv
<1>. QED  BY <1>4, <1>5, <1>6, <1>7, <1>8, <1>9, <1>10, <1>11 DEF PassStep

\* After a crash, a start or maintenance, between which no pass runs.
LEMMA LifePass ==
  ASSUME PassInv, "RecoverTwice" \notin Faults,
         Maintenance \/ CrashRec \/ StartThreads \/ (Recover /\ UNCHANGED recVars)
  PROVE  PassInv'
<1>1. /\ TypeOK /\ broker \in [Order -> BrokerRec] /\ MaxTries \in Nat \ {0}
      /\ Unknown.bid = FALSE /\ Unknown.state = "NONE"
  BY TriesAssumption DEF PassInv, PassTypes, TypeOK, Unknown
<1>2. \A o \in Order : Tried(o)
  BY DEF PassInv
<1>3. ASSUME pass' = "idle", todo' \subseteq Order, fetched' = NoStatus,
             \A o \in Order : seen'[o].filled \in Nat, TypeOK',
             \A o \in Order : Tried(o)'
      PROVE  PassInv'
  BY <1>3 DEF PassInv, PassTypes, Current, Asked
<1>4. ASSUME mode # "up" PROVE pass = "idle" /\ fetched = NoStatus
  BY <1>4 DEF PassInv, Asked
<1>5. CASE Maintenance
  <2>1. /\ mode = "down" /\ UNCHANGED <<mode, mem, durable, call, tries, pending, wire,
                                        stream, streaming, pass, todo, seen, fetched>>
        /\ \/ broker' = broker
           \/ broker' = [o \in Order |-> IF LiveAtBroker(broker[o])
                                         THEN [broker[o] EXCEPT !.state = "CANCELED"]
                                         ELSE broker[o]]
    BY <1>5 DEF Maintenance, Flatten, ZeroOut, BookFeeOffset, vars, passVars
  <2>2. broker' \in [Order -> BrokerRec]
    BY <1>1, <2>1 DEF BrokerRec, BrokerState
  <2>3. TypeOK'
    BY <1>1, <2>1, <2>2 DEF TypeOK
  <2>4. \A o \in Order : Tried(o)'
    BY <1>2, <2>1 DEF Tried
  <2>. QED  BY <1>3, <1>4, <2>1, <2>3, <2>4 DEF PassInv, PassTypes
<1>6. CASE CrashRec
  <2>1. /\ mode' = "down" /\ mem' = [o \in Order |-> Unknown] /\ call' = NoOrder
        /\ tries' = [o \in Order |-> IF tries[o] = 0 THEN 0 ELSE MaxTries]
        /\ pending' = {} /\ durable' = durable
        /\ pass' = "idle" /\ todo' = {} /\ fetched' = NoStatus
        /\ seen' = [o \in Order |-> [state |-> "NONE", filled |-> 0]]
    BY <1>6 DEF CrashRec, Crash, Stop
  <2>2. TypeOK'
    <3>1. Next
      BY <1>6 DEF CrashRec, Next
    <3>. QED  BY <1>1, <3>1, TypeStep
  <2>3. ASSUME NEW o \in Order PROVE Tried(o)'
    <3>1. o # NoOrder
      BY NoOrderAssumption
    <3>. QED  BY <1>1, <1>2, <2>1, <3>1 DEF Tried
  <2>. QED  BY <1>3, <2>1, <2>2, <2>3
<1>7. CASE StartThreads
  <2>1. /\ mode = "recovering" /\ pending' = {}
        /\ UNCHANGED <<mem, durable, call, tries, pass, todo, seen, fetched>>
    BY <1>7 DEF StartThreads, RecoverReturns, passVars
  <2>2. TypeOK'
    <3>1. Next
      BY <1>7 DEF StartThreads, Next
    <3>. QED  BY <1>1, <3>1, TypeStep
  <2>3. \A o \in Order : Tried(o)'
    BY <1>1, <1>2, <2>1 DEF Tried
  <2>. QED  BY <1>3, <1>4, <2>1, <2>2, <2>3 DEF PassInv, PassTypes
<1>8. CASE Recover /\ UNCHANGED recVars
  <2>1. /\ mode = "down" /\ mode' = "recovering" /\ UNCHANGED <<durable, call, tries>>
        /\ UNCHANGED <<streaming, pass, todo, seen, fetched>>
        /\ mem' = [o \in Order |-> IF durable[o].state = "NONE" THEN mem[o]
                     ELSE [durable[o] EXCEPT !.fills = mem[o].fills + @]]
        /\ pending' = {o \in Order : IsOpen(mem'[o])}
    BY <1>8 DEF Recover, ReplayLog, recVars, passVars
  <2>2. TypeOK'
    <3>1. Next
      BY <1>8 DEF Next
    <3>. QED  BY <1>1, <3>1, TypeStep
  <2>3. ASSUME NEW o \in Order PROVE Tried(o)'
    BY <1>1, <1>2, <2>1 DEF Tried, IsOpen
  <2>. QED  BY <1>3, <1>4, <2>1, <2>2, <2>3 DEF PassInv, PassTypes
<1>. QED  BY <1>5, <1>6, <1>7, <1>8

\* Without a stream and with one recovery a life, a poll books only what the
\* broker has and the OMS misses: PolledFillIsMissing.  This holds although the
\* agents, the broker and the other threads run between the snapshot, the
\* broker's answer and its use, for any retries and requests that arrive late.
THEOREM PolledFillsAreMissing ==
  ASSUME "RecoverTwice" \notin Faults
  PROVE  SpecRec => PolledFillIsMissing
<1>. DEFINE Missing == \A o \in Order :
       ApplyStatus(o) /\ ~streaming /\ mem'[o].filled > mem[o].filled
         => mem'[o].filled <= broker[o].filled
<1>1. InitRec => PassInv
  <2> SUFFICES ASSUME InitRec PROVE PassInv
    OBVIOUS
  <2>1. TypeOK /\ Unknown.bid = FALSE
    BY TypeInit DEF InitRec, Unknown
  <2>2. \A o \in Order : seen[o].filled \in Nat
    BY DEF InitRec
  <2>3. \A o \in Order : Tried(o)
    BY <2>1, NoOrderAssumption DEF InitRec, Init, Tried
  <2>. QED  BY <2>1, <2>2, <2>3 DEF InitRec, Init, PassInv, PassTypes, Current, Asked
<1>2. PassInv /\ [NextRec]_allVars => PassInv'
  <2> SUFFICES ASSUME PassInv, [NextRec]_allVars PROVE PassInv'
    OBVIOUS
  <2>1. CASE UNCHANGED allVars
    <3>1. UNCHANGED <<vars, streaming, pass, todo, seen, fetched>>
      BY <2>1 DEF allVars, recVars, passVars
    <3>. QED  BY <3>1 DEF PassInv, PassTypes, TypeOK, Tried, Current, Asked, vars
  <2>. QED  BY <2>1, OmsPass, PassPass, LifePass DEF NextRec
<1>3. PassInv /\ [NextRec]_allVars => [Missing]_allVars
  <2> SUFFICES ASSUME PassInv, NEW o \in Order, ApplyStatus(o), ~streaming,
                      mem'[o].filled > mem[o].filled
               PROVE  mem'[o].filled <= broker[o].filled
    OBVIOUS
  <2>1. /\ pass = "orders" /\ fetched # NoStatus /\ fetched.order = o
    BY DEF ApplyStatus
  <2>2. o \in todo /\ fetched.filled <= broker[o].filled
    BY <2>1 DEF PassInv, Asked
  <2>3. seen[o].filled = mem[o].filled
    BY <2>1, <2>2 DEF PassInv, Current
  <2>4. mem[o].filled \in Nat /\ fetched.filled \in Nat
    BY <2>1, QtyAssumption DEF PassInv, PassTypes, TypeOK, OrderRec, Answer
  <2>5. \/ mem'[o].filled = mem[o].filled
        \/ mem'[o].filled = mem[o].filled + (fetched.filled - seen[o].filled)
    BY ApplyWrites DEF PassInv
  <2>. QED  BY <2>2, <2>3, <2>4, <2>5
<1>. QED  BY <1>1, <1>2, <1>3, PTL DEF SpecRec, PolledFillIsMissing

-----------------------------------------------------------------------------
(* Memory and log beside the reconciler *)

\* Memory and log say the same of an order, as far as memory lives; what the
\* log does not know, it does not count, and the broker was never sent.
Mirrored(o) ==
  /\ mode = "down" => mem[o] = Unknown
  /\ mode # "down" => Agree(Pair(o))
  /\ durable[o].state = "NONE" => durable[o] = Unknown
  /\ o \in wire \/ broker[o].state # "NONE" => durable[o].state # "NONE"

\* A step that leaves orders, log and broker alone keeps the types of the pass.
LEMMA TypesOfIdleOms ==
  ASSUME PassTypes, UNCHANGED vars, pass' \in {"idle", "orders", "positions"},
         todo' \subseteq Order, fetched' \in Answer \cup {NoStatus},
         seen' = seen \/ \A o \in Order : seen'[o].filled \in Nat
  PROVE  PassTypes'
BY DEF PassTypes, TypeOK, vars

\* The reconciler and the maintenance scripts write what has its type.
LEMMA RecTypes ==
  ASSUME PassTypes, [NextRec]_allVars
  PROVE  PassTypes'
<1>1. /\ TypeOK /\ broker \in [Order -> BrokerRec] /\ mem \in [Order -> OrderRec]
      /\ Qty \in Nat
  BY QtyAssumption DEF PassTypes, TypeOK
<1>2. ASSUME Next, UNCHANGED <<pass, todo, seen, fetched>> PROVE PassTypes'
  BY <1>1, <1>2, TypeStep DEF PassTypes
<1>3. CASE UNCHANGED allVars
  BY <1>3, TypesOfIdleOms DEF allVars, recVars, passVars, PassTypes
<1>4. ASSUME NEW o \in Order, OmsOrBroker(o) PROVE PassTypes'
  BY <1>2, <1>4 DEF OmsOrBroker, Next, OmsStep, recVars, passVars
<1>5. ASSUME NEW o \in Order, FetchFails(o) PROVE PassTypes'
  <2>1. todo' = todo \ {o} /\ UNCHANGED <<vars, pass, seen, fetched>>
    BY <1>5 DEF FetchFails
  <2>. QED  BY <2>1, TypesOfIdleOms DEF PassTypes
<1>6. CASE StartPass
  <2>1. /\ UNCHANGED <<vars, fetched>> /\ pass' = "orders" /\ todo' \subseteq Order
        /\ seen' = [o \in Order |-> [state |-> mem[o].state, filled |-> mem[o].filled]]
    BY <1>6 DEF StartPass
  <2>2. \A o \in Order : seen'[o].filled \in Nat
    BY <1>1, <2>1 DEF OrderRec
  <2>. QED  BY <2>1, <2>2, TypesOfIdleOms DEF PassTypes
<1>7. ASSUME NEW o \in Order, FetchStatus(o) PROVE PassTypes'
  <2>1. /\ UNCHANGED <<vars, pass, todo, seen>>
        /\ fetched' = [order |-> o, state |-> broker[o].state, filled |-> broker[o].filled]
    BY <1>7 DEF FetchStatus
  <2>2. fetched' \in Answer
    BY <1>1, <2>1 DEF Answer, BrokerRec
  <2>. QED  BY <2>1, <2>2, TypesOfIdleOms DEF PassTypes
<1>8. ASSUME NEW o \in Order, ApplyStatus(o) PROVE PassTypes'
  <2>1. UNCHANGED <<pass, seen>> /\ fetched' = NoStatus /\ todo' = todo \ {o}
    BY <1>8 DEF ApplyStatus
  <2>. QED  BY <1>8, <2>1, ApplyWrites DEF PassTypes
<1>9. ASSUME NEW o \in Order, SumFills(o) PROVE PassTypes'
  <2>1. todo' = todo \ {o} /\ UNCHANGED <<vars, pass, seen, fetched>>
    BY <1>9 DEF SumFills
  <2>. QED  BY <2>1, TypesOfIdleOms DEF PassTypes
<1>10. CASE ComputeExpected
  <2>1. /\ todo' \subseteq Order /\ pass' = "positions"
        /\ UNCHANGED <<vars, seen, fetched>>
    BY <1>10 DEF ComputeExpected
  <2>. QED  BY <2>1, TypesOfIdleOms DEF PassTypes
<1>11. CASE ComparePositions \/ PositionsUnavailable
  <2>1. UNCHANGED <<vars, todo, seen, fetched>> /\ pass' = "idle"
    BY <1>11 DEF ComparePositions, PositionsUnavailable
  <2>. QED  BY <2>1, TypesOfIdleOms DEF PassTypes
<1>12. CASE Heartbeat
  BY <1>12, TypesOfIdleOms DEF Heartbeat, passVars, PassTypes
<1>13. CASE Maintenance
  <2>1. CASE UNCHANGED <<vars, passVars>>
    BY <2>1, TypesOfIdleOms DEF passVars, PassTypes
  <2>2. CASE Flatten
    <3>1. /\ UNCHANGED <<mode, mem, durable, call, tries, pending, wire, stream,
                         pass, todo, seen, fetched>>
          /\ broker' = [o \in Order |-> IF LiveAtBroker(broker[o])
                                        THEN [broker[o] EXCEPT !.state = "CANCELED"]
                                        ELSE broker[o]]
      BY <2>2 DEF Flatten, passVars
    <3>2. broker' \in [Order -> BrokerRec]
      BY <1>1, <3>1 DEF BrokerRec, BrokerState
    <3>. QED  BY <1>1, <3>1, <3>2 DEF TypeOK, PassTypes
  <2>. QED  BY <1>13, <2>1, <2>2 DEF Maintenance, ZeroOut, BookFeeOffset
<1>14. CASE CrashRec
  <2>1. /\ Next /\ pass' = "idle" /\ todo' = {} /\ fetched' = NoStatus
        /\ seen' = [o \in Order |-> [state |-> "NONE", filled |-> 0]]
    BY <1>14 DEF CrashRec, Next
  <2>. QED  BY <1>1, <2>1, TypeStep DEF PassTypes
<1>15. CASE StartThreads
  BY <1>2, <1>15 DEF StartThreads, Next, passVars
<1>16. CASE Recover /\ UNCHANGED recVars
  BY <1>2, <1>16 DEF Next, recVars, passVars
<1>. QED  BY <1>3, <1>4, <1>5, <1>6, <1>7, <1>8, <1>9, <1>10, <1>11, <1>12, <1>13,
             <1>14, <1>15, <1>16 DEF NextRec, PassStep

\* What the broker and the wire may do without the log knowing more.
SameReach(o) ==
  o \in wire' \/ broker'[o].state # "NONE" => o \in wire \/ broker[o].state # "NONE"

\* Writing back what a handler booked keeps memory and log alike.
LEMMA BookedMirrors ==
  ASSUME TypeOK, NEW o \in Order, NEW n, NEW q, Books(Pair(o), q, n), Update(o, q),
         mode # "down", mode' = mode, \A x \in Order : Mirrored(x) /\ SameReach(x)
  PROVE  \A x \in Order : Mirrored(x)'
<1>1. /\ mem'[o] = q.live /\ durable'[o] = q.dur /\ Pair(o)' = q
      /\ \A x \in Order \ {o} : mem'[x] = mem[x] /\ durable'[x] = durable[x]
  BY UpdateType DEF Books
<1>2. Agree(q) /\ (q.dur = durable[o] \/ q.dur.state # "NONE")
  BY DEF Mirrored, Books, Pair
<1>3. Mirrored(o)'
  BY <1>1, <1>2 DEF Mirrored, SameReach, Agree
<1>4. ASSUME NEW x \in Order \ {o} PROVE Mirrored(x)'
  BY <1>1 DEF Mirrored, SameReach, Pair, Agree
<1>. QED  BY <1>3, <1>4

\* An order whose records a step leaves alone.
LEMMA SameMirrors ==
  ASSUME \A x \in Order : Mirrored(x) /\ SameReach(x),
         mem' = mem, durable' = durable, mode' = "down" <=> mode = "down"
  PROVE  \A x \in Order : Mirrored(x)'
BY DEF Mirrored, SameReach, Pair, Agree

\* After a step of the OMS or the broker.
LEMMA OmsMirrors ==
  ASSUME TypeOK, \A x \in Order : Mirrored(x), NEW o \in Order, OmsOrBroker(o)
  PROVE  \A x \in Order : Mirrored(x)'
<1>1. /\ Pair(o) \in Book /\ broker[o] \in BrokerRec /\ Qty \in Nat
      /\ stream[o] \in Seq(BrokerEvent) /\ broker \in [Order -> BrokerRec]
      /\ durable \in [Order -> OrderRec] /\ mem \in [Order -> OrderRec]
      /\ Pair(o).dur = durable[o]
  BY StreamTypes, QtyAssumption DEF TypeOK, Pair
<1>2. CASE SubmitOrder(o)
  <2>1. PICK q \in Book : Update(o, q) /\ Agree(q) /\ q.dur.state # "NONE"
    BY <1>2, SubmitWrites
  <2>2. /\ mem'[o] = q.live /\ durable'[o] = q.dur /\ Pair(o)' = q
        /\ \A x \in Order \ {o} : mem'[x] = mem[x] /\ durable'[x] = durable[x]
    BY <2>1, UpdateType
  <2>3. mode = "up" /\ mode' = "up" /\ wire' = wire \cup {o} /\ broker' = broker
    BY <1>2 DEF SubmitOrder, LockFree
  <2>4. Mirrored(o)'
    BY <2>1, <2>2, <2>3 DEF Mirrored, Agree
  <2>5. ASSUME NEW x \in Order \ {o} PROVE Mirrored(x)'
    BY <2>2, <2>3 DEF Mirrored, Pair, Agree
  <2>. QED  BY <2>4, <2>5
<1>3. CASE SubmitAccepted(o) \/ SubmitRejected(o) \/ SubmitUnavailable(o)
  <2>1. mode = "up" /\ mode' = mode /\ broker' = broker /\ wire' \subseteq wire
    BY <1>3 DEF SubmitAccepted, SubmitRejected, SubmitUnavailable
  <2>2. \A x \in Order : SameReach(x)
    BY <2>1 DEF SameReach
  <2>3. \/ UNCHANGED <<mem, durable>> \/ Update(o, RecordAccepted(Pair(o)))
        \/ Update(o, HandleRejection(Pair(o)))
    BY <1>3 DEF SubmitAccepted, SubmitRejected, SubmitUnavailable
  <2>4. /\ Books(Pair(o), RecordAccepted(Pair(o)), 0)
        /\ Books(Pair(o), HandleRejection(Pair(o)), 0)
    BY <1>1, RecordAcceptedBooks, EndHandlersBook
  <2>. QED  BY <2>1, <2>2, <2>3, <2>4, SameMirrors, BookedMirrors
<1>4. CASE CancelOrder(o)
  <2>1. /\ mode = "up" /\ mode' = mode /\ wire' = wire
        /\ broker' = broker \/ /\ broker[o].state # "NONE"
                               /\ broker' = [broker EXCEPT ![o].state = "CANCELED"]
    BY <1>4 DEF CancelOrder, LockFree, LiveAtBroker
  <2>2. \A x \in Order : SameReach(x)
    BY <1>1, <2>1 DEF SameReach
  <2>3. \/ UNCHANGED <<mem, durable>>
        \/ Update(o, Transition(Append1(Pair(o), "CANCELLED", 0), "CANCEL"))
    BY <1>4 DEF CancelOrder
  <2>4. Books(Pair(o), Transition(Append1(Pair(o), "CANCELLED", 0), "CANCEL"), 0)
    BY <1>1, EndBooks
  <2>. QED  BY <2>1, <2>2, <2>3, <2>4, SameMirrors, BookedMirrors
<1>5. CASE DeliverEvent(o)
  <2>1. /\ mode = "up" /\ mode' = mode /\ broker' = broker /\ wire' = wire
        /\ stream[o] # <<>> /\ Update(o, OnBrokerEvent(Pair(o), Head(stream[o])))
    BY <1>5 DEF DeliverEvent
  <2>2. 1 \in DOMAIN stream[o] /\ Head(stream[o]) = stream[o][1]
    BY <1>1, <2>1
  <2>3. Head(stream[o]) \in BrokerEvent
    BY <1>1, <2>2, EventTypes
  <2>4. PICK n : Books(Pair(o), OnBrokerEvent(Pair(o), Head(stream[o])), n)
    BY <1>1, <2>3, OnBrokerEventBooks
  <2>5. \A x \in Order : SameReach(x)
    BY <2>1 DEF SameReach
  <2>. QED  BY <2>1, <2>4, <2>5, BookedMirrors
<1>6. CASE ReconcileOpenOrder(o)
  <2>1. mode = "recovering" /\ mode' = mode /\ broker' = broker /\ wire' = wire
    BY <1>6 DEF ReconcileOpenOrder
  <2>2. \A x \in Order : SameReach(x)
    BY <2>1 DEF SameReach
  <2>3. \/ UNCHANGED <<mem, durable>> \/ Update(o, HandleRejection(Pair(o)))
        \/ /\ broker[o].state # "NONE"
           /\ Update(o, CatchUpFromBroker(Pair(o), broker[o]))
    BY <1>6 DEF ReconcileOpenOrder
  <2>4. Books(Pair(o), HandleRejection(Pair(o)), 0)
    BY <1>1, EndHandlersBook
  <2>5. broker[o].state # "NONE" =>
          \E n \in Nat : Books(Pair(o), CatchUpFromBroker(Pair(o), broker[o]), n)
    BY <1>1, CatchUpBooks
  <2>. QED  BY <2>1, <2>2, <2>3, <2>4, <2>5, SameMirrors, BookedMirrors
<1>7. CASE CrashInCatchUp(o)
  <2>1. /\ mode' = "down" /\ broker' = broker /\ wire' \subseteq wire
        /\ mem' = [x \in Order |-> Unknown]
    BY <1>7 DEF CrashInCatchUp, Stop
  <2>2. PICK p \in {RecordAccepted(Pair(o)), CatchUpFill(Pair(o), broker[o])} :
          durable' = [durable EXCEPT ![o] = p.dur]
    BY <1>7 DEF CrashInCatchUp
  <2>3. p.dur = durable[o] \/ p.dur.state # "NONE"
    BY <1>1, <2>2, RecordAcceptedBooks, CatchUpFillBooks DEF Books
  <2>4. ASSUME NEW x \in Order
        PROVE  durable'[x] = durable[x] \/ durable'[x].state # "NONE"
    BY <1>1, <2>2, <2>3
  <2>. QED  BY <2>1, <2>4 DEF Mirrored
<1>8. CASE BrokerStep(o)
  <2>1. UNCHANGED <<mode, mem, durable>>
    BY <1>8 DEF BrokerStep, BrokerReceives, BrokerFills, BrokerEnds, LoseEvent
  <2>2. /\ wire' \subseteq wire
        /\ \A x \in Order : broker'[x] = broker[x] \/ x \in wire \/ broker[x].state # "NONE"
    BY <1>1, <1>8 DEF BrokerStep, BrokerReceives, BrokerFills, BrokerEnds, LoseEvent,
                      LiveAtBroker
  <2>3. \A x \in Order : SameReach(x)
    BY <2>2 DEF SameReach
  <2>. QED  BY <2>1, <2>3, SameMirrors
<1>. QED  BY <1>2, <1>3, <1>4, <1>5, <1>6, <1>7, <1>8 DEF OmsOrBroker

\* After a poll has handed the OMS what the broker answered.
LEMMA ApplyMirrors ==
  ASSUME PassTypes, \A x \in Order : Mirrored(x), NEW o \in Order, ApplyStatus(o)
  PROVE  \A x \in Order : Mirrored(x)'
<1>1. /\ Pair(o) \in Book /\ Qty \in Nat /\ TypeOK
      /\ fetched \in Answer /\ seen[o].filled \in Nat
  BY StreamTypes, QtyAssumption DEF PassTypes, ApplyStatus
<1>2. mode = "up" /\ UNCHANGED <<mode, wire, broker>>
  BY DEF ApplyStatus, LockFree
<1>3. \A x \in Order : SameReach(x)
  BY <1>2 DEF SameReach
<1>4. CASE UNCHANGED <<mem, durable>>
  BY <1>2, <1>3, <1>4, SameMirrors
<1>5. CASE /\ StatusRequiresUpdate(fetched.state)
           /\ Update(o, PolledBooks(Pair(o), seen[o], fetched))
  <2>1. PICK n : Books(Pair(o), PolledBooks(Pair(o), seen[o], fetched), n)
    BY <1>1, <1>5, PolledBooksGap
  <2>. QED  BY <1>1, <1>2, <1>3, <1>5, <2>1, BookedMirrors
<1>. QED  BY <1>4, <1>5 DEF ApplyStatus

\* After a crash, the replay of the log, the return of recover() or a
\* maintenance script.
LEMMA LifeMirrors ==
  ASSUME TypeOK, \A x \in Order : Mirrored(x),
         Maintenance \/ CrashRec \/ StartThreads \/ Recover
  PROVE  \A x \in Order : Mirrored(x)'
<1>1. /\ broker \in [Order -> BrokerRec] /\ durable \in [Order -> OrderRec]
      /\ mem \in [Order -> OrderRec]
  BY DEF TypeOK
<1>2. CASE Maintenance
  <2>1. /\ UNCHANGED <<mode, mem, durable, wire>>
        /\ \/ broker' = broker
           \/ broker' = [o \in Order |-> IF LiveAtBroker(broker[o])
                                         THEN [broker[o] EXCEPT !.state = "CANCELED"]
                                         ELSE broker[o]]
    BY <1>2 DEF Maintenance, Flatten, ZeroOut, BookFeeOffset, vars
  <2>2. \A x \in Order : SameReach(x)
    BY <2>1 DEF SameReach, LiveAtBroker
  <2>. QED  BY <2>1, <2>2, SameMirrors
<1>3. CASE CrashRec
  <2>1. /\ mode' = "down" /\ mem' = [o \in Order |-> Unknown] /\ durable' = durable
        /\ wire' \subseteq wire /\ broker' = broker
    BY <1>3 DEF CrashRec, Crash, Stop
  <2>. QED  BY <2>1 DEF Mirrored
<1>4. CASE StartThreads
  <2>1. /\ mode = "recovering" /\ mode' = "up"
        /\ UNCHANGED <<mem, durable, wire, broker>>
    BY <1>4 DEF StartThreads, RecoverReturns
  <2>2. \A x \in Order : SameReach(x)
    BY <2>1 DEF SameReach
  <2>. QED  BY <2>1, <2>2, SameMirrors
<1>5. CASE Recover
  <2>1. /\ mode' = "recovering" /\ UNCHANGED <<durable, wire, broker>>
        /\ mem' = [o \in Order |-> IF durable[o].state = "NONE" THEN mem[o]
                     ELSE [durable[o] EXCEPT !.fills = mem[o].fills + @]]
    BY <1>5 DEF Recover, ReplayLog
  <2>2. ASSUME NEW x \in Order PROVE Mirrored(x)'
    <3>1. Agree([live |-> Unknown, dur |-> Unknown])
      BY DEF Agree
    <3>2. CASE durable[x].state = "NONE"
      <4>1. mem'[x] = mem[x] /\ durable'[x] = durable[x]
        BY <2>1, <3>2
      <4>2. Agree(Pair(x))
        BY <3>1, <3>2 DEF Mirrored, Pair
      <4>. QED  BY <2>1, <4>1, <4>2 DEF Mirrored, Pair, Agree
    <3>3. CASE durable[x].state # "NONE"
      <4>1. durable[x] \in OrderRec
        BY <1>1
      <4>2. /\ mem'[x].filled = durable[x].filled /\ mem'[x].bid = durable[x].bid
            /\ mem'[x].fsm = durable[x].fsm
        BY <2>1, <3>3, <4>1 DEF OrderRec
      <4>3. Agree(Pair(x))'
        BY <2>1, <4>2 DEF Agree, Pair
      <4>. QED  BY <2>1, <3>3, <4>3 DEF Mirrored
    <3>. QED  BY <3>2, <3>3
  <2>. QED  BY <2>2
<1>. QED  BY <1>2, <1>3, <1>4, <1>5

\* The types and the likeness hold from the start.
LEMMA RecMirroredInit == ASSUME InitRec PROVE PassTypes /\ \A o \in Order : Mirrored(o)
<1>1. TypeOK /\ Unknown.state = "NONE"
  BY TypeInit DEF InitRec, Unknown
<1>2. \A o \in Order : seen[o].filled \in Nat
  BY DEF InitRec
<1>3. \A o \in Order : Mirrored(o)
  BY <1>1 DEF InitRec, Init, Mirrored, Agree, Pair
<1>. QED  BY <1>1, <1>2, <1>3 DEF InitRec, PassTypes

\* After any step of the system, memory and log are alike.
LEMMA RecMirrors ==
  ASSUME PassTypes, \A o \in Order : Mirrored(o), [NextRec]_allVars
  PROVE  \A o \in Order : Mirrored(o)'
<1>1. TypeOK
  BY DEF PassTypes
<1>2. CASE UNCHANGED vars
  BY <1>2, SameMirrors DEF vars, SameReach
<1>3. ASSUME NEW o \in Order, OmsOrBroker(o) PROVE \A x \in Order : Mirrored(x)'
  BY <1>1, <1>3, OmsMirrors
<1>4. ASSUME NEW o \in Order, ApplyStatus(o) PROVE \A x \in Order : Mirrored(x)'
  BY <1>4, ApplyMirrors
<1>5. CASE Maintenance \/ CrashRec \/ StartThreads \/ (Recover /\ UNCHANGED recVars)
  BY <1>1, <1>5, LifeMirrors
<1>. QED
  BY <1>2, <1>3, <1>4, <1>5
     DEF NextRec, PassStep, StartPass, ComputeExpected, ComparePositions,
         FetchStatus, SumFills, FetchFails, PositionsUnavailable, Heartbeat, allVars

\* With a reconciler polling beside the OMS, maintenance between two lives and
\* recover() run any number of times, a crash still loses nothing the process
\* knew, and every order the broker has or is being sent is in the log:
\* CrashLosesNothing and IntentBeforeBroker.  What a poll books twice, the log
\* counts twice as well.
THEOREM NothingLostBesideReconciler ==
  SpecRec => [](CrashLosesNothing /\ IntentBeforeBroker)
<1>. DEFINE Alike == PassTypes /\ \A o \in Order : Mirrored(o)
<1>1. InitRec => Alike
  BY RecMirroredInit
<1>2. Alike /\ [NextRec]_allVars => Alike'
  BY RecTypes, RecMirrors
<1>3. Alike => CrashLosesNothing /\ IntentBeforeBroker
  BY DEF Mirrored, Agree, Pair, CrashLosesNothing, IntentBeforeBroker
<1>. QED  BY <1>1, <1>2, <1>3, PTL DEF SpecRec

-----------------------------------------------------------------------------
(* OperatorIsTold.  Fairness speaks of ENABLED, which no prover here       *)
(* expands: the three theorems below take from PassesCompare,              *)
(* OpenOrdersAreAsked and TradingEnds that the passes come to what they do *)
(* and that trading ends, and prove what comes of it.                      *)

\* Whatever was announced last, the operator heard it or its message was lost.
AnnouncedIsTold == told \in {announced, Silence}

\* Every step keeps it, and a comparison announces what the switch has become.
LEMMA TellingStep ==
  ASSUME AnnouncedIsTold, [NextRec]_allVars
  PROVE  /\ AnnouncedIsTold'
         /\ ComparePositions => (told \in {kill, Silence})'
<1>1. CASE ComparePositions \/ PositionsUnavailable
  BY <1>1 DEF ComparePositions, PositionsUnavailable, Announce, AnnouncedIsTold
<1>2. CASE CrashRec
  <2>1. announced' = "OK" /\ told' = "OK"
    BY <1>2 DEF CrashRec
  <2>2. ~ComparePositions
    BY <1>2 DEF CrashRec, Crash, Stop, ComparePositions, LockFree, vars
  <2>. QED  BY <2>1, <2>2 DEF AnnouncedIsTold
<1>3. CASE UNCHANGED alertVars
  BY <1>1, <1>3 DEF alertVars, AnnouncedIsTold
<1>. QED  BY <1>1, <1>2, <1>3
          DEF NextRec, PassStep, OmsOrBroker, recVars, allVars, StartPass, FetchStatus,
              FetchFails, ApplyStatus, ComputeExpected, SumFills, Heartbeat, Maintenance,
              Flatten, ZeroOut, BookFeeOffset, StartThreads

\* OperatorIsTold: as long as passes come to their comparison, the operator is
\* told of every change of the switch, whoever made it and whenever, but for lost messages
\* (reconcile_once).
THEOREM EveryChangeIsTold == SpecRec /\ PassesCompare => OperatorIsTold
<1>. DEFINE Told == told \in {kill, Silence}
<1>1. InitRec => AnnouncedIsTold
  BY DEF InitRec, AnnouncedIsTold
<1>2. AnnouncedIsTold /\ [NextRec]_allVars => AnnouncedIsTold'
  BY TellingStep
<1>3. AnnouncedIsTold /\ [NextRec]_allVars /\ <<ComparePositions>>_allVars => Told'
  BY TellingStep
<1>. HIDE DEF Told
<1>4. SpecRec /\ PassesCompare => (<>[](mode = "up") => []<>Told)
  BY <1>1, <1>2, <1>3, PTL DEF SpecRec, PassesCompare
<1>. QED  BY <1>4 DEF OperatorIsTold, Told

-----------------------------------------------------------------------------
(* EndedOrderIsSettled.  The invariant of polling says what memory, log,   *)
(* broker and the answer a pass holds know of one another, whatever the    *)
(* reconciler booked twice; by it an open order that has ended at the      *)
(* broker has an arc to its end.  It is closed by its third answer: the    *)
(* first discards what the pass noted before the order ended, the second   *)
(* makes up for the missing quantity, the third finds none missing.        *)

\* The states of an order at the broker, and the events, that go with a fill.
FillStates == {"PARTIALLY_FILLED", "FILLED"}

\* The broker's side of an order beside the reconciler: quantities fit states,
\* and an event on its way is of an order that the broker has.
AtBroker(o) ==
  /\ Short(broker[o])
  /\ broker[o].state \in FillStates => broker[o].filled > 0
  /\ stream[o] # <<>> => broker[o].state # "NONE"
  /\ \A i \in DOMAIN stream[o] :
       /\ Counts(stream[o][i])
       /\ stream[o][i].state \in FillStates => broker[o].filled > 0

\* What the log says of an order the broker has said.
InLog(o) ==
  /\ durable[o].state = "NONE" =>
       mem[o].state = "NONE" /\ call # o /\ o \notin pending /\ o \notin todo
  /\ durable[o].state # "NONE" => Logged(durable[o])
  /\ durable[o].bid => broker[o].state # "NONE"
  /\ durable[o].filled > 0 => broker[o].filled > 0

\* And so has the answer that a pass holds.
AnswerIsReal ==
  fetched # NoStatus =>
    /\ pass = "orders" /\ fetched.order \in todo
    /\ fetched.state # "NONE" => broker[fetched.order].state # "NONE"
    /\ fetched.filled > 0 => broker[fetched.order].filled > 0

\* The invariant of polling.
PollInv ==
  /\ PassTypes /\ AnswerIsReal
  /\ \A o \in Order : Mirrored(o) /\ AtBroker(o) /\ InLog(o)

\* A step beside which neither orders, log nor broker move.
LEMMA QuietPass ==
  StartPass \/ ComputeExpected \/ ComparePositions \/ PositionsUnavailable \/ Heartbeat
  \/ (\E o \in Order : FetchStatus(o) \/ SumFills(o) \/ FetchFails(o))
  \/ ZeroOut(TRUE) \/ ZeroOut(FALSE) \/ (\E s \in Symbol : BookFeeOffset(s))
    => UNCHANGED vars
BY DEF StartPass, ComputeExpected, ComparePositions, PositionsUnavailable, Heartbeat,
       FetchStatus, SumFills, FetchFails, ZeroOut, BookFeeOffset

\* The steps of the system: of the OMS and the broker, of a life, a poll, the
\* flattening of the account, and those that concern none of them.
LEMMA RecSteps ==
  ASSUME [NextRec]_allVars
  PROVE  \/ UNCHANGED vars \/ Flatten
         \/ \E o \in Order : ApplyStatus(o)
         \/ (\E o \in Order : OmsOrBroker(o)) /\ Next
         \/ (CrashRec \/ StartThreads \/ (Recover /\ UNCHANGED recVars)) /\ Next
<1>1. ASSUME NEW o \in Order, OmsOrBroker(o) PROVE Next
  BY <1>1 DEF OmsOrBroker, Next, OmsStep
<1>2. CrashRec \/ StartThreads \/ Recover => Next
  BY DEF CrashRec, StartThreads, Next
<1>3. CASE Maintenance
  BY <1>3, QuietPass DEF Maintenance
<1>. QED  BY <1>1, <1>2, <1>3, QuietPass DEF NextRec, PassStep, allVars

\* What a step does to the broker's side of an order.
LEMMA RecBrokerMoves ==
  ASSUME PassTypes, NEW x \in Order, Short(broker[x]), [NextRec]_allVars
  PROVE  Kept(x) \/ Moved(x)
<1>1. TypeOK /\ broker \in [Order -> BrokerRec] /\ broker[x].filled \in Nat
  BY StreamTypes DEF PassTypes, TypeOK
<1>2. broker[x].state = "NONE" => broker[x].filled = 0
  BY DEF Short
<1>3. CASE UNCHANGED vars
  BY <1>3 DEF vars, Kept
<1>4. CASE Flatten
  <2>1. /\ stream' = stream
        /\ broker' = [o \in Order |-> IF LiveAtBroker(broker[o])
                                      THEN [broker[o] EXCEPT !.state = "CANCELED"]
                                      ELSE broker[o]]
    BY <1>4 DEF Flatten
  <2>2. CASE ~LiveAtBroker(broker[x])
    BY <2>1, <2>2 DEF Kept
  <2>3. CASE LiveAtBroker(broker[x])
    <3>1. broker'[x].state = "CANCELED" /\ broker'[x].filled = broker[x].filled
      BY <1>1, <2>1, <2>3 DEF BrokerRec
    <3>2. LET e == [state |-> "CANCELED"] IN e.state = "CANCELED" /\ Counts(e)
      BY DEF Counts
    <3>. QED  BY <2>1, <2>3, <3>1, <3>2 DEF Moved, LiveAtBroker, Short
  <2>. QED  BY <2>2, <2>3
<1>5. ASSUME NEW o \in Order, ApplyStatus(o) PROVE Kept(x)
  BY <1>5 DEF ApplyStatus, Kept
<1>6. CASE Next
  BY <1>1, <1>2, <1>6, BrokerMovesOn
<1>. QED  BY <1>3, <1>4, <1>5, <1>6, RecSteps

\* The broker executes more, and says so with more executed.
LEMMA BrokerExecutes ==
  ASSUME PassTypes, NEW x \in Order, [NextRec]_allVars
  PROVE  /\ broker'[x].filled >= broker[x].filled
         /\ broker'[x].state \in FillStates =>
              broker'[x].state = broker[x].state \/ broker'[x].filled > 0
<1>1. TypeOK /\ broker \in [Order -> BrokerRec] /\ broker[x].filled \in Nat
  BY StreamTypes DEF PassTypes, TypeOK
<1>2. CASE broker' = broker
  BY <1>1, <1>2
<1>3. ASSUME NEW o \in Order, NEW s, s \notin FillStates,
             broker' = [broker EXCEPT ![o].state = s]
      PROVE  /\ broker'[x].filled = broker[x].filled
             /\ broker'[x].state \in FillStates => broker'[x].state = broker[x].state
  <2>1. CASE x = o
    BY <1>1, <1>3, <2>1 DEF BrokerRec
  <2>2. CASE x # o
    BY <1>1, <1>3, <2>2
  <2>. QED  BY <2>1, <2>2
<1>4. CASE Flatten
  <2>1. broker' = [o \in Order |-> IF LiveAtBroker(broker[o])
                                   THEN [broker[o] EXCEPT !.state = "CANCELED"]
                                   ELSE broker[o]]
    BY <1>4 DEF Flatten
  <2>2. /\ broker'[x].filled = broker[x].filled
        /\ broker'[x].state \in {"CANCELED", broker[x].state}
    BY <1>1, <2>1 DEF BrokerRec
  <2>. QED  BY <1>1, <2>2 DEF FillStates
<1>5. ASSUME NEW o \in Order, BrokerFills(o)
      PROVE  /\ broker'[x].filled >= broker[x].filled
             /\ broker'[x] = broker[x] \/ broker'[x].filled > 0
  <2>1. PICK k \in 1..(Qty - broker[o].filled), s \in {"PARTIALLY_FILLED", "FILLED"} :
          broker' = [broker EXCEPT ![o] = [state |-> s, filled |-> broker[o].filled + k]]
    BY <1>5 DEF BrokerFills
  <2>2. broker[o].filled \in Nat
    BY <1>1, StreamTypes
  <2>3. x = o => broker'[x].filled = broker[o].filled + k
    BY <1>1, <2>1
  <2>4. x # o => broker'[x] = broker[x]
    BY <1>1, <2>1
  <2>. QED  BY <1>1, <2>2, <2>3, <2>4
<1>6. ASSUME NEW o \in Order, OmsOrBroker(o), ~BrokerFills(o)
      PROVE  \/ broker' = broker
             \/ \E s : s \notin FillStates /\ broker' = [broker EXCEPT ![o].state = s]
  BY <1>6 DEF OmsOrBroker, SubmitOrder, SubmitAccepted, SubmitRejected, SubmitUnavailable,
              CancelOrder, DeliverEvent, ReconcileOpenOrder, CrashInCatchUp, Stop,
              BrokerStep, BrokerReceives, BrokerEnds, LoseEvent, FillStates
<1>7. CASE UNCHANGED vars \/ (\E o \in Order : ApplyStatus(o)) \/ CrashRec
           \/ StartThreads \/ Recover
  <2>1. broker' = broker
    BY <1>7 DEF vars, ApplyStatus, CrashRec, Crash, Stop, StartThreads, RecoverReturns,
                Recover
  <2>. QED  BY <1>2, <2>1
<1>. QED
  <2>1. CASE \E o \in Order : OmsOrBroker(o)
    BY <1>1, <1>2, <1>3, <1>5, <1>6, <2>1
  <2>. QED  BY <1>4, <1>7, <2>1, RecSteps

\* The broker's side of an order stays as it should be.
LEMMA AtBrokerStep ==
  ASSUME PassTypes, PassTypes', NEW x \in Order, AtBroker(x), [NextRec]_allVars
  PROVE  /\ AtBroker(x)'
         /\ broker[x].state # "NONE" => broker'[x].state # "NONE"
         /\ broker[x].filled > 0 => broker'[x].filled > 0
<1>1. /\ stream[x] \in Seq(BrokerEvent) /\ stream'[x] \in Seq(BrokerEvent)
      /\ broker[x].filled \in Nat /\ broker'[x].filled \in Nat
  BY QtyAssumption DEF PassTypes, TypeOK, BrokerRec
<1>2. Kept(x) \/ Moved(x)
  BY RecBrokerMoves DEF AtBroker
<1>3. /\ broker'[x].filled >= broker[x].filled
      /\ broker'[x].state \in FillStates =>
           broker'[x].state = broker[x].state \/ broker'[x].filled > 0
  BY BrokerExecutes
<1>4. broker'[x].state \in FillStates => broker'[x].filled > 0
  BY <1>1, <1>3 DEF AtBroker
<1>5. broker[x].state # "NONE" => broker'[x].state # "NONE"
  BY <1>2 DEF Kept, Moved
<1>6. Short(broker'[x])
  BY <1>2 DEF AtBroker, Kept, Moved
<1>7. stream'[x] # <<>> => broker'[x].state # "NONE"
  BY <1>2, <1>5 DEF AtBroker, Kept, Moved
<1>8. ASSUME NEW i \in DOMAIN stream'[x]
      PROVE  /\ Counts(stream'[x][i])
             /\ stream'[x][i].state \in FillStates => broker'[x].filled > 0
  <2>1. ASSUME NEW j \in DOMAIN stream[x], stream'[x][i] = stream[x][j]
        PROVE  /\ Counts(stream'[x][i])
               /\ stream'[x][i].state \in FillStates => broker'[x].filled > 0
    BY <1>1, <1>3, <2>1 DEF AtBroker
  <2>2. CASE stream'[x] = stream[x]
    BY <2>1, <2>2
  <2>3. CASE stream'[x] = <<>>
    BY <2>3
  <2>4. CASE stream[x] # <<>> /\ stream'[x] = Tail(stream[x])
    <3>1. i + 1 \in DOMAIN stream[x] /\ stream'[x][i] = stream[x][i + 1]
      BY <1>1, <2>4
    <3>. QED  BY <2>1, <3>1
  <2>5. ASSUME NEW e, Counts(e), e.state = broker'[x].state,
               stream'[x] = Append(stream[x], e)
        PROVE  /\ Counts(stream'[x][i])
               /\ stream'[x][i].state \in FillStates => broker'[x].filled > 0
    <3>1. \/ i \in DOMAIN stream[x] /\ stream'[x][i] = stream[x][i]
          \/ stream'[x][i] = e
      BY <1>1, <2>5
    <3>. QED  BY <1>4, <2>1, <2>5, <3>1
  <2>. QED  BY <1>2, <2>2, <2>3, <2>4, <2>5 DEF Kept, Moved
<1>9. broker[x].filled > 0 => broker'[x].filled > 0
  BY <1>1, <1>3
<1>. QED  BY <1>4, <1>5, <1>6, <1>7, <1>8, <1>9 DEF AtBroker, Short, Counts

\* What the log says of an order after a step, given what the broker has of it.
LogsWell(o) ==
  /\ durable'[o].bid => broker[o].state # "NONE"
  /\ durable'[o].filled > 0 => broker[o].filled > 0

\* A handler that writes an order's id only when the broker has the order, and
\* quantity only when the broker has some.
LEMMA WrittenWell ==
  ASSUME TypeOK, NEW o \in Order, NEW n \in Nat, NEW q, Books(Pair(o), q, n),
         Update(o, q), mode # "down", Mirrored(o), InLog(o),
         durable[o].state # "NONE",
         q.live.bid => mem[o].bid \/ broker[o].state # "NONE",
         n # 0 => mem[o].filled > 0 \/ broker[o].filled > 0
  PROVE  LogsWell(o) /\ durable'[o].state # "NONE"
<1>1. /\ Pair(o).live = mem[o] /\ Pair(o).dur = durable[o] /\ Agree(Pair(o))
      /\ mem[o].filled \in Nat /\ durable[o].filled \in Nat
  BY StreamTypes DEF Pair, Mirrored, OrderRec
<1>2. durable'[o] = q.dur
  BY UpdateType DEF Books
<1>3. /\ Agree(q) /\ q.dur.filled = durable[o].filled + n
      /\ q.dur.state # "NONE"
  BY <1>1 DEF Books
<1>4. mem[o].bid = durable[o].bid /\ mem[o].filled = durable[o].filled
  BY <1>1 DEF Agree
<1>. QED  BY <1>1, <1>2, <1>3, <1>4 DEF LogsWell, InLog, Agree

\* An event that tells of no fill books none.
LEMMA EventWithoutFill ==
  ASSUME NEW p \in Book, NEW e \in BrokerEvent, e.state \notin FillStates
  PROVE  Books(p, OnBrokerEvent(p, e), 0)
BY BooksNothing, RecordAcceptedBooks, EndHandlersBook
   DEF OnBrokerEvent, FillStates, BrokerEvent, BrokerState

\* What a step of the OMS on an order leaves in the log.
LEMMA OmsLogsWell ==
  ASSUME PassTypes, NEW o \in Order, Mirrored(o), AtBroker(o), InLog(o), OmsStep(o)
  PROVE  /\ LogsWell(o)
         /\ durable'[o].state = "NONE" =>
              /\ durable[o].state = "NONE"
              /\ mem'[o].state = "NONE" /\ call' # o /\ o \notin pending'
<1>1. /\ TypeOK /\ Pair(o) \in Book /\ Pair(o).live = mem[o] /\ Pair(o).dur = durable[o]
      /\ broker[o] \in BrokerRec /\ stream[o] \in Seq(BrokerEvent) /\ Qty \in Nat
      /\ durable \in [Order -> OrderRec] /\ mem[o].filled \in Nat
      /\ broker[o].filled \in Nat /\ durable[o].filled \in Nat
      /\ call \in Order \cup {NoOrder} /\ pending \subseteq Order
  BY StreamTypes, QtyAssumption DEF Pair, TypeOK, PassTypes, OrderRec
<1>2. CASE SubmitOrder(o)
  <2>1. PICK q \in Book : /\ Update(o, q) /\ Agree(q) /\ q.dur.filled = 0
                          /\ q.dur.state # "NONE"
    BY <1>1, <1>2, SubmitWrites
  <2>2. durable'[o] = q.dur
    BY <1>1, <2>1, UpdateType
  <2>3. durable'[o].fsm = "SUBMITTED" /\ Logged(durable'[o])
    <3>1. \A i \in DOMAIN stream[o] : Counts(stream[o][i])
      BY DEF AtBroker
    <3>2. Logged(durable'[o])
      BY <1>1, <2>1, <2>2, <3>1, LogRowStep DEF InLog
    <3>. QED  BY <1>1, <1>2, <3>2, SubmitStarts
  <2>4. ~durable'[o].bid
    BY <2>3 DEF Logged, Replays
  <2>. QED  BY <2>1, <2>2, <2>4 DEF LogsWell
<1>3. CASE UNCHANGED <<mem, durable>> /\ call' \in {call, NoOrder} /\ pending' \subseteq pending
  BY <1>1, <1>3, NoOrderAssumption DEF LogsWell, InLog
<1>4. CASE SubmitAccepted(o) \/ SubmitRejected(o)
  <2>1. mode = "up" /\ call = o
    BY <1>4 DEF SubmitAccepted, SubmitRejected
  <2>2. durable[o].state # "NONE"
    BY <2>1 DEF InLog
  <2>3. /\ Books(Pair(o), RecordAccepted(Pair(o)), 0)
        /\ Books(Pair(o), HandleRejection(Pair(o)), 0)
        /\ HandleRejection(Pair(o)).live.bid = mem[o].bid
    BY <1>1, RecordAcceptedBooks, EndHandlersBook, EndsKeepBid
  <2>4. \/ UNCHANGED <<mem, durable>> /\ call' = NoOrder /\ pending' = pending
        \/ Update(o, RecordAccepted(Pair(o))) /\ broker[o].state # "NONE"
        \/ Update(o, HandleRejection(Pair(o)))
    BY <1>4 DEF SubmitAccepted, SubmitRejected
  <2>. QED  BY <1>1, <1>3, <2>1, <2>2, <2>3, <2>4, WrittenWell
<1>5. CASE SubmitUnavailable(o)
  BY <1>3, <1>5 DEF SubmitUnavailable
<1>6. CASE CancelOrder(o)
  <2>. DEFINE q == Transition(Append1(Pair(o), "CANCELLED", 0), "CANCEL")
  <2>1. /\ mode = "up" /\ durable[o].state # "NONE" /\ UNCHANGED <<call, pending>>
        /\ Update(o, q) \/ UNCHANGED <<mem, durable>>
    BY <1>6 DEF CancelOrder, LockFree, IsOpen, InLog
  <2>2. Books(Pair(o), q, 0) /\ q.live.bid = mem[o].bid
    BY <1>1, EndBooks, EndsKeepBid
  <2>. HIDE DEF q
  <2>. QED  BY <1>1, <1>3, <2>1, <2>2, WrittenWell
<1>7. CASE DeliverEvent(o)
  <2>. DEFINE e == Head(stream[o])
              q == OnBrokerEvent(Pair(o), e)
  <2>1. /\ stream[o] # <<>> /\ Update(o, q) /\ mode = "up" /\ UNCHANGED <<call, pending>>
        /\ broker[o].state # "NONE"
    BY <1>7 DEF DeliverEvent, AtBroker
  <2>2. 1 \in DOMAIN stream[o] /\ e = stream[o][1] /\ e \in BrokerEvent /\ e.qty \in Nat
    BY <1>1, <2>1, EventTypes
  <2>3. e.state \in FillStates => broker[o].filled > 0
    BY <2>2 DEF AtBroker
  <2>4. CASE durable[o].state = "NONE"
    <3>1. q = Pair(o)
      BY <1>1, <2>4 DEF OnBrokerEvent, InLog
    <3>2. mem'[o] = mem[o] /\ durable'[o] = durable[o]
      BY <1>1, <2>1, <3>1, UpdateType
    <3>. QED  BY <2>1, <3>2 DEF LogsWell, InLog
  <2>5. CASE durable[o].state # "NONE"
    <3>1. PICK n \in Nat : Books(Pair(o), q, n) /\ (n # 0 => broker[o].filled > 0)
      <4>1. CASE e.state \in FillStates
        BY <1>1, <2>2, <2>3, <4>1, OnBrokerEventBooks
      <4>2. CASE e.state \notin FillStates
        BY <1>1, <2>2, <4>2, EventWithoutFill
      <4>. QED  BY <4>1, <4>2
    <3>. HIDE DEF q
    <3>. QED  BY <1>1, <2>1, <2>5, <3>1, WrittenWell
  <2>. QED  BY <2>4, <2>5
<1>8. CASE ReconcileOpenOrder(o)
  <2>. DEFINE rejected == HandleRejection(Pair(o))
              caughtUp == CatchUpFromBroker(Pair(o), broker[o])
  <2>1. /\ mode = "recovering" /\ durable[o].state # "NONE"
        /\ call' = call /\ pending' \subseteq pending
    BY <1>8 DEF ReconcileOpenOrder, InLog
  <2>2. Books(Pair(o), rejected, 0) /\ rejected.live.bid = mem[o].bid
    BY <1>1, EndHandlersBook, EndsKeepBid
  <2>3. ASSUME broker[o].state # "NONE"
        PROVE  \E n \in Nat : /\ Books(Pair(o), caughtUp, n)
                              /\ n # 0 => mem[o].filled > 0 \/ broker[o].filled > 0
    <3>1. PICK n \in Nat : /\ Books(Pair(o), caughtUp, n)
                           /\ mem[o].filled <= broker[o].filled
                                => n = broker[o].filled - mem[o].filled
      BY <1>1, <2>3, CatchUpBooks
    <3>. HIDE DEF caughtUp
    <3>. QED  BY <1>1, <3>1
  <2>4. \/ Update(o, rejected) \/ UNCHANGED <<mem, durable>>
        \/ broker[o].state # "NONE" /\ Update(o, caughtUp)
    BY <1>8 DEF ReconcileOpenOrder
  <2>. HIDE DEF rejected, caughtUp
  <2>. QED  BY <1>1, <1>3, <2>1, <2>2, <2>3, <2>4, WrittenWell
<1>9. CASE CrashInCatchUp(o)
  <2>1. /\ mode = "recovering" /\ durable[o].state # "NONE" /\ broker[o].state # "NONE"
        /\ call' = NoOrder /\ pending' = {}
    BY <1>9 DEF CrashInCatchUp, Stop, InLog
  <2>2. PICK p \in {RecordAccepted(Pair(o)), CatchUpFill(Pair(o), broker[o])} :
          durable' = [durable EXCEPT ![o] = p.dur]
    BY <1>9 DEF CrashInCatchUp
  <2>3. PICK n \in Nat : /\ Books(Pair(o), p, n)
                         /\ n # 0 => mem[o].filled > 0 \/ broker[o].filled > 0
    <3>1. Books(Pair(o), RecordAccepted(Pair(o)), 0)
      BY <1>1, RecordAcceptedBooks
    <3>2. PICK n \in Nat : /\ Books(Pair(o), CatchUpFill(Pair(o), broker[o]), n)
                           /\ mem[o].filled <= broker[o].filled
                                => n = broker[o].filled - mem[o].filled
      BY <1>1, CatchUpFillBooks
    <3>. QED  BY <1>1, <2>2, <3>1, <3>2
  <2>4. durable'[o] = p.dur /\ p.dur.filled = durable[o].filled + n
        /\ p.dur.state # "NONE"
    BY <1>1, <2>1, <2>2, <2>3 DEF Books
  <2>5. mem[o].filled = durable[o].filled
    BY <1>1, <2>1 DEF Mirrored, Agree
  <2>. QED  BY <1>1, <2>1, <2>3, <2>4, <2>5 DEF LogsWell, InLog
<1>. QED  BY <1>2, <1>4, <1>5, <1>6, <1>7, <1>8, <1>9 DEF OmsStep

\* What a poll makes the OMS log.
LEMMA PolledReplays ==
  ASSUME NEW p \in Book, Logged(p.dur), NEW s, s.filled \in Nat, NEW b \in Answer,
         StatusRequiresUpdate(b.state), Qty \in Nat
  PROVE  Logged(PolledBooks(p, s, b).dur)
<1>1. b.filled \in Nat
  BY DEF Answer
<1>2. CASE b.state \in {"PARTIALLY_FILLED", "FILLED"} /\ b.filled > s.filled
  <2>1. b.filled - s.filled \in Nat \ {0}
    BY <1>1, <1>2
  <2>2. PolledBooks(p, s, b) = HandleFill(p, b.filled - s.filled)
    BY <1>1, <1>2 DEF PolledBooks
  <2>. QED  BY <2>1, <2>2, HandlersReplay
<1>3. CASE b.state = "FILLED" /\ ~(b.filled > s.filled)
  <2>1. PolledBooks(p, s, b) = ForceCloseFilled(p)
    BY <1>1, <1>3 DEF PolledBooks
  <2>. QED  BY <2>1, HandlersReplay
<1>4. CASE b.state = "PARTIALLY_FILLED" /\ ~(b.filled > s.filled)
  <2>1. PolledBooks(p, s, b) = p
    BY <1>1, <1>4 DEF PolledBooks
  <2>. QED  BY <2>1
<1>5. CASE b.state \in {"CANCELED", "REJECTED", "EXPIRED"}
  <2>. DEFINE e == [state |-> b.state, qty |-> 0]
  <2>1. PolledBooks(p, s, b) = OnBrokerEvent(p, e)
    BY <1>5 DEF PolledBooks
  <2>2. /\ e.qty \in Nat /\ e.state \in BrokerState \ {"NONE"}
        /\ e.state \in {"PARTIALLY_FILLED", "FILLED"} => e.qty > 0
    BY <1>5 DEF BrokerState
  <2>. HIDE DEF e
  <2>. QED  BY <2>1, <2>2, EventReplays
<1>. QED  BY <1>2, <1>3, <1>4, <1>5 DEF StatusRequiresUpdate

\* What a poll leaves in the log.
LEMMA PollLogsWell ==
  ASSUME PassTypes, AnswerIsReal, NEW o \in Order, Mirrored(o), InLog(o), ApplyStatus(o)
  PROVE  /\ LogsWell(o) /\ durable'[o].state # "NONE" /\ Logged(durable'[o])
<1>1. /\ TypeOK /\ Pair(o) \in Book /\ Pair(o).live = mem[o] /\ Pair(o).dur = durable[o]
      /\ fetched \in Answer /\ seen[o].filled \in Nat /\ Qty \in Nat
      /\ fetched # NoStatus /\ fetched.order = o /\ o \in todo /\ mode = "up"
      /\ fetched.filled \in Nat
  BY StreamTypes, QtyAssumption
     DEF Pair, PassTypes, ApplyStatus, LockFree, AnswerIsReal, Answer
<1>2. durable[o].state # "NONE" /\ Logged(durable[o])
  BY <1>1 DEF InLog
<1>3. CASE UNCHANGED <<mem, durable>>
  BY <1>2, <1>3 DEF InLog, LogsWell
<1>4. CASE /\ StatusRequiresUpdate(fetched.state)
           /\ Update(o, PolledBooks(Pair(o), seen[o], fetched))
  <2>. DEFINE q == PolledBooks(Pair(o), seen[o], fetched)
  <2>1. PICK n \in Nat : Books(Pair(o), q, n) /\ (n # 0 => n = fetched.filled - seen[o].filled)
    BY <1>1, <1>4, PolledBooksGap
  <2>2. n # 0 => fetched.filled > 0
    BY <1>1, <2>1
  <2>3. broker[o].state # "NONE" /\ (n # 0 => broker[o].filled > 0)
    BY <1>1, <1>4, <2>2 DEF AnswerIsReal, StatusRequiresUpdate
  <2>4. Logged(q.dur) /\ Update(o, q)
    BY <1>1, <1>2, <1>4, PolledReplays
  <2>. HIDE DEF q
  <2>5. LogsWell(o) /\ durable'[o].state # "NONE"
    BY <1>1, <1>2, <2>1, <2>3, <2>4, WrittenWell
  <2>6. durable'[o] = q.dur
    BY <1>1, <2>1, <2>4, UpdateType DEF Books
  <2>. QED  BY <2>4, <2>5, <2>6
<1>. QED  BY <1>3, <1>4 DEF ApplyStatus

\* An order that a pass comes to have to ask about is one that the OMS knows.
LEMMA AskedIsKnown ==
  ASSUME [NextRec]_allVars, NEW x \in Order, x \in todo', x \notin todo
  PROVE  mem[x].state # "NONE" /\ UNCHANGED vars
BY DEF NextRec, PassStep, OmsOrBroker, recVars, passVars, allVars, StartPass, FetchStatus,
       FetchFails, ApplyStatus, ComputeExpected, SumFills, ComparePositions,
       PositionsUnavailable, Heartbeat, Maintenance, Flatten, ZeroOut, BookFeeOffset,
       CrashRec, StartThreads, IsOpen

\* A step that is about no order in the OMS leaves the log as it is.
LEMMA LogKeptBeside ==
  ASSUME TypeOK, NEW x \in Order, Mirrored(x), InLog(x),
         \/ UNCHANGED vars \/ Flatten \/ StartThreads \/ CrashRec \/ Recover
         \/ \E o \in Order : BrokerStep(o)
  PROVE  /\ durable'[x] = durable[x]
         /\ durable[x].state = "NONE" =>
              mem'[x].state = "NONE" /\ call' # x /\ x \notin pending'
<1>1. mem \in [Order -> OrderRec] /\ Unknown.state = "NONE"
  BY DEF TypeOK, Unknown
<1>2. CASE UNCHANGED <<mem, durable>> /\ call' \in {call, NoOrder} /\ pending' \subseteq pending
  BY <1>2, NoOrderAssumption DEF InLog
<1>3. CASE UNCHANGED vars \/ Flatten \/ StartThreads \/ \E o \in Order : BrokerStep(o)
  BY <1>2, <1>3 DEF vars, Flatten, StartThreads, RecoverReturns, BrokerStep, BrokerReceives,
                    BrokerFills, BrokerEnds, LoseEvent
<1>4. CASE CrashRec
  <2>1. /\ mem' = [o \in Order |-> Unknown] /\ call' = NoOrder /\ pending' = {}
        /\ durable' = durable
    BY <1>4 DEF CrashRec, Crash, Stop
  <2>. QED  BY <1>1, <2>1, NoOrderAssumption
<1>5. CASE Recover
  <2>1. /\ durable' = durable /\ call' = call
        /\ mem' = [o \in Order |-> IF durable[o].state = "NONE" THEN mem[o]
                     ELSE [durable[o] EXCEPT !.fills = mem[o].fills + @]]
        /\ pending' = {o \in Order : IsOpen(mem'[o])}
    BY <1>5 DEF Recover, ReplayLog
  <2>2. durable[x].state = "NONE" => mem'[x] = mem[x]
    BY <2>1
  <2>. QED  BY <2>1, <2>2 DEF InLog, IsOpen
<1>. QED  BY <1>3, <1>4, <1>5

\* The log's side of the invariant.
LEMMA InLogStep ==
  ASSUME PollInv, PassTypes', NEW x \in Order, [NextRec]_allVars
  PROVE  InLog(x)'
<1>1. /\ PassTypes /\ TypeOK /\ AnswerIsReal /\ \A o \in Order : Mirrored(o)
      /\ AtBroker(x) /\ InLog(x) /\ Mirrored(x)
  BY DEF PollInv, PassTypes
<1>2. /\ broker[x].state # "NONE" => broker'[x].state # "NONE"
      /\ broker[x].filled > 0 => broker'[x].filled > 0
  BY <1>1, AtBrokerStep
<1>3. SUFFICES /\ LogsWell(x) /\ (durable'[x].state # "NONE" => Logged(durable'[x]))
               /\ durable'[x].state = "NONE" =>
                    /\ durable[x].state = "NONE"
                    /\ mem'[x].state = "NONE" /\ call' # x /\ x \notin pending'
  <2>1. durable[x].state = "NONE" => x \notin todo'
    <3>1. durable[x].state = "NONE" => x \notin todo /\ mem[x].state = "NONE"
      BY <1>1 DEF InLog
    <3>. QED  BY <3>1, AskedIsKnown
  <2>. QED  BY <1>2, <1>3, <2>1 DEF InLog, LogsWell
<1>4. ASSUME /\ durable'[x] = durable[x]
             /\ durable[x].state = "NONE" =>
                  mem'[x].state = "NONE" /\ call' # x /\ x \notin pending'
      PROVE  /\ LogsWell(x) /\ (durable'[x].state # "NONE" => Logged(durable'[x]))
             /\ durable'[x].state = "NONE" =>
                  /\ durable[x].state = "NONE"
                  /\ mem'[x].state = "NONE" /\ call' # x /\ x \notin pending'
  BY <1>1, <1>4 DEF InLog, LogsWell
<1>5. CASE \/ UNCHANGED vars \/ Flatten \/ StartThreads \/ CrashRec \/ Recover
           \/ \E o \in Order : BrokerStep(o)
  BY <1>1, <1>4, <1>5, LogKeptBeside
<1>6. ASSUME NEW o \in Order, OmsStep(o)
      PROVE  /\ LogsWell(x) /\ (durable'[x].state # "NONE" => Logged(durable'[x]))
             /\ durable'[x].state = "NONE" =>
                  /\ durable[x].state = "NONE"
                  /\ mem'[x].state = "NONE" /\ call' # x /\ x \notin pending'
  <2>1. CASE x = o
    <3>1. \A i \in DOMAIN stream[o] : Counts(stream[o][i])
      BY <1>1, <2>1 DEF AtBroker
    <3>2. durable'[o].state # "NONE" => Logged(durable'[o])
      BY <1>1, <1>6, <2>1, <3>1, LogRowStep DEF InLog
    <3>. QED  BY <1>1, <1>6, <2>1, <3>2, OmsLogsWell
  <2>2. CASE x # o
    <3>1. durable'[x] = durable[x]
      BY <1>1, <1>6, <2>2, StepFrame
    <3>2. mem'[x] \in {mem[x], Unknown} /\ call' \in {call, o, NoOrder}
          /\ pending' \subseteq pending
      BY <1>1, <1>6, <2>2 DEF OmsStep, SubmitOrder, SubmitAccepted, SubmitRejected,
         SubmitUnavailable, CancelOrder, DeliverEvent, ReconcileOpenOrder, CrashInCatchUp,
         Stop, Update, TypeOK
    <3>. QED  BY <1>1, <1>4, <2>2, <3>1, <3>2, NoOrderAssumption DEF InLog, Unknown
  <2>. QED  BY <2>1, <2>2
<1>7. ASSUME NEW o \in Order, ApplyStatus(o)
      PROVE  /\ LogsWell(x) /\ (durable'[x].state # "NONE" => Logged(durable'[x]))
             /\ durable'[x].state = "NONE" =>
                  /\ durable[x].state = "NONE"
                  /\ mem'[x].state = "NONE" /\ call' # x /\ x \notin pending'
  <2>1. CASE x = o
    BY <1>1, <1>7, <2>1, PollLogsWell
  <2>2. CASE x # o
    <3>1. mem'[x] = mem[x] /\ durable'[x] = durable[x] /\ UNCHANGED <<call, pending>>
      BY <1>1, <1>7, <2>2, ApplyWrites DEF ApplyStatus
    <3>. QED  BY <1>1, <1>4, <3>1 DEF InLog
  <2>. QED  BY <2>1, <2>2
<1>. QED  BY <1>5, <1>6, <1>7, RecSteps DEF OmsOrBroker, OmsStep

\* The answer that a pass holds stays one the broker gave.
LEMMA AnswerStep ==
  ASSUME PassTypes, AnswerIsReal, \A o \in Order : AtBroker(o), [NextRec]_allVars,
         \A o \in Order : /\ broker[o].state # "NONE" => broker'[o].state # "NONE"
                          /\ broker[o].filled > 0 => broker'[o].filled > 0
  PROVE  AnswerIsReal'
<1>1. fetched \in Answer \cup {NoStatus} /\ \A a \in Answer : a.order \in Order
  BY DEF PassTypes, Answer
<1>2. CASE fetched' = fetched /\ todo' = todo /\ pass' = pass
  BY <1>1, <1>2 DEF AnswerIsReal
<1>3. CASE fetched' = NoStatus
  BY <1>3 DEF AnswerIsReal
<1>4. ASSUME NEW o \in Order, FetchStatus(o) PROVE AnswerIsReal'
  <2>1. /\ pass' = pass /\ pass = "orders" /\ todo' = todo /\ o \in todo
        /\ fetched' = [order |-> o, state |-> broker[o].state, filled |-> broker[o].filled]
    BY <1>4 DEF FetchStatus
  <2>. QED  BY <2>1 DEF AnswerIsReal
<1>5. CASE /\ StartPass \/ ComputeExpected \/ ComparePositions \/ PositionsUnavailable
              \/ \E o \in Order : SumFills(o) \/ FetchFails(o)
  <2>1. fetched' = fetched /\ fetched = NoStatus
    BY <1>5 DEF StartPass, ComputeExpected, ComparePositions, PositionsUnavailable,
                SumFills, FetchFails, AnswerIsReal
  <2>. QED  BY <1>3, <2>1
<1>6. CASE (\E o \in Order : ApplyStatus(o)) \/ CrashRec
  BY <1>3, <1>6 DEF ApplyStatus, CrashRec
<1>7. CASE \/ UNCHANGED allVars \/ Heartbeat \/ Maintenance \/ StartThreads
           \/ (Recover /\ UNCHANGED recVars) \/ \E o \in Order : OmsOrBroker(o)
  BY <1>2, <1>7 DEF allVars, recVars, passVars, Heartbeat, Maintenance, Flatten, ZeroOut,
                    BookFeeOffset, StartThreads, OmsOrBroker
<1>. QED  BY <1>4, <1>5, <1>6, <1>7 DEF NextRec, PassStep

\* The invariant of polling holds from the start.
LEMMA PollInit == ASSUME InitRec PROVE PollInv
<1>1. PassTypes /\ (\A o \in Order : Mirrored(o)) /\ Unknown.state = "NONE"
      /\ Unknown.bid = FALSE /\ Unknown.filled = 0
  BY RecMirroredInit DEF Unknown
<1>2. ASSUME NEW o \in Order PROVE AtBroker(o) /\ InLog(o)
  BY <1>1, QtyAssumption, NoOrderAssumption
     DEF InitRec, Init, AtBroker, InLog, Short, FillStates
<1>. QED  BY <1>1, <1>2 DEF PollInv, AnswerIsReal, InitRec

\* A step keeps it, whoever takes it.
LEMMA PollStep == ASSUME PollInv, [NextRec]_allVars PROVE PollInv'
<1>1. PassTypes' /\ \A o \in Order : Mirrored(o)'
  BY RecTypes, RecMirrors DEF PollInv
<1>2. \A o \in Order : /\ AtBroker(o)'
                       /\ broker[o].state # "NONE" => broker'[o].state # "NONE"
                       /\ broker[o].filled > 0 => broker'[o].filled > 0
  BY <1>1, AtBrokerStep DEF PollInv
<1>3. AnswerIsReal'
  BY <1>2, AnswerStep DEF PollInv
<1>4. \A o \in Order : InLog(o)'
  BY <1>1, InLogStep
<1>. QED  BY <1>1, <1>2, <1>3, <1>4 DEF PollInv

\* So it is an invariant.
LEMMA Polling == SpecRec => []PollInv
BY PollInit, PollStep, PTL DEF SpecRec

\* An order the broker has ended and that is open here.
Unsettled(o) ==
  /\ mode = "up"
  /\ IsOpen(mem[o]) /\ mem[o].bid /\ mem[o].state = mem[o].fsm
  /\ ~LiveAtBroker(broker[o])

\* Such an order is worked on here, and every end that it has at the broker has
\* an arc.
LEMMA UnsettledWorks ==
  ASSUME PollInv, NEW o \in Order, Unsettled(o)
  PROVE  /\ Working(mem[o])
         /\ broker[o].state \in {"FILLED", "CANCELED", "REJECTED", "EXPIRED"}
         /\ broker[o].state = "REJECTED" => mem[o].fsm = "ACCEPTED"
<1>1. /\ TypeOK /\ mem[o] \in OrderRec /\ durable[o] \in OrderRec
      /\ broker[o] \in BrokerRec /\ durable[o].filled \in Nat
      /\ Agree(Pair(o)) /\ AtBroker(o) /\ InLog(o)
  BY StreamTypes DEF PollInv, PassTypes, Unsettled, Mirrored
<1>2. /\ mem[o].fsm \notin TerminalStates /\ mem[o].fsm \in OrderState
      /\ mem[o].state # "NONE"
  BY <1>1 DEF Unsettled, IsOpen, OrderRec
<1>3. durable[o].fsm = mem[o].fsm /\ durable[o].bid /\ durable[o].filled = mem[o].filled
  BY <1>1, <1>2 DEF Agree, Pair, Unsettled, TerminalStates
<1>4. Logged(durable[o]) /\ broker[o].state # "NONE"
  BY <1>1, <1>2, <1>3 DEF InLog
<1>5. mem[o].fsm \in {"ACCEPTED", "PARTIAL"}
  BY <1>2, <1>3, <1>4 DEF Logged, Replays, OrderState, TerminalStates
<1>6. broker[o].state \in {"FILLED", "CANCELED", "REJECTED", "EXPIRED"}
  BY <1>1, <1>4 DEF Unsettled, LiveAtBroker, BrokerRec, BrokerState
<1>7. broker[o].state = "REJECTED" => mem[o].fsm = "ACCEPTED"
  <2>1. broker[o].state = "REJECTED" => broker[o].filled = 0
    BY <1>1 DEF AtBroker, Short
  <2>2. mem[o].fsm = "PARTIAL" => broker[o].filled > 0
    BY <1>1, <1>3, <1>4 DEF Logged, Replays, InLog
  <2>. QED  BY <1>5, <2>1, <2>2
<1>. QED  BY <1>5, <1>6, <1>7 DEF Working, Unsettled

\* The same of the state after a step.
LEMMA StillWorks ==
  ASSUME NEW o \in Order
  PROVE  PollInv' /\ Unsettled(o)' => Working(mem'[o])
<1>1. PollInv /\ Unsettled(o) => Working(mem[o])
  BY UnsettledWorks
<1>2. (PollInv /\ Unsettled(o) => Working(mem[o]))'
  BY <1>1, PTL
<1>. QED  BY <1>2

\* A step of the OMS on an order, other than its submission and the crash in
\* its catch-up, writes what a handler booked, or nothing.
LEMMA StepWrites ==
  ASSUME TypeOK, NEW o \in Order, OmsStep(o), ~SubmitOrder(o), ~CrashInCatchUp(o)
  PROVE  \/ UNCHANGED <<mem, durable>>
         \/ \E n \in Nat, q \in Book : Books(Pair(o), q, n) /\ Update(o, q)
<1>1. /\ Pair(o) \in Book /\ Qty \in Nat /\ stream[o] \in Seq(BrokerEvent)
      /\ broker[o] \in BrokerRec
  BY StreamTypes, QtyAssumption
<1>2. ASSUME NEW n \in Nat, NEW q, Books(Pair(o), q, n), Update(o, q)
      PROVE  \E m \in Nat, r \in Book : Books(Pair(o), r, m) /\ Update(o, r)
  <2>1. q \in Book
    BY <1>2 DEF Books
  <2>. QED  BY <1>2, <2>1
<1>3. /\ Books(Pair(o), RecordAccepted(Pair(o)), 0)
      /\ Books(Pair(o), HandleRejection(Pair(o)), 0)
      /\ Books(Pair(o), Transition(Append1(Pair(o), "CANCELLED", 0), "CANCEL"), 0)
  BY <1>1, RecordAcceptedBooks, EndHandlersBook, EndBooks
<1>4. CASE SubmitAccepted(o) \/ SubmitRejected(o) \/ SubmitUnavailable(o) \/ CancelOrder(o)
  BY <1>2, <1>3, <1>4 DEF SubmitAccepted, SubmitRejected, SubmitUnavailable, CancelOrder
<1>5. CASE DeliverEvent(o)
  <2>1. stream[o] # <<>> /\ Update(o, OnBrokerEvent(Pair(o), Head(stream[o])))
    BY <1>5 DEF DeliverEvent
  <2>2. 1 \in DOMAIN stream[o] /\ Head(stream[o]) = stream[o][1]
    BY <1>1, <2>1
  <2>3. Head(stream[o]) \in BrokerEvent /\ Head(stream[o]).qty \in Nat
    BY <1>1, <2>2, EventTypes
  <2>4. PICK n \in Nat : Books(Pair(o), OnBrokerEvent(Pair(o), Head(stream[o])), n)
    BY <1>1, <2>3, OnBrokerEventBooks
  <2>. QED  BY <1>2, <2>1, <2>4
<1>6. CASE ReconcileOpenOrder(o)
  <2>1. broker[o].state # "NONE" =>
          \E n \in Nat : Books(Pair(o), CatchUpFromBroker(Pair(o), broker[o]), n)
    BY <1>1, CatchUpBooks
  <2>2. \/ UNCHANGED <<mem, durable>> \/ Update(o, HandleRejection(Pair(o)))
        \/ /\ broker[o].state # "NONE"
           /\ Update(o, CatchUpFromBroker(Pair(o), broker[o]))
    BY <1>6 DEF ReconcileOpenOrder
  <2>. QED  BY <1>2, <1>3, <2>1, <2>2
<1>. QED  BY <1>4, <1>5, <1>6 DEF OmsStep

\* Nor does a poll write anything else.
LEMMA PollWrites ==
  ASSUME PassTypes, NEW o \in Order, ApplyStatus(o)
  PROVE  \/ UNCHANGED <<mem, durable>>
         \/ \E n \in Nat, q \in Book : Books(Pair(o), q, n) /\ Update(o, q)
<1>1. /\ Pair(o) \in Book /\ Qty \in Nat /\ fetched \in Answer /\ seen[o].filled \in Nat
  BY StreamTypes, QtyAssumption DEF PassTypes, ApplyStatus
<1>2. CASE /\ StatusRequiresUpdate(fetched.state)
           /\ Update(o, PolledBooks(Pair(o), seen[o], fetched))
  <2>1. PICK n \in Nat : Books(Pair(o), PolledBooks(Pair(o), seen[o], fetched), n)
    BY <1>1, <1>2, PolledBooksGap
  <2>2. PolledBooks(Pair(o), seen[o], fetched) \in Book
    BY <2>1 DEF Books
  <2>. QED  BY <1>2, <2>1, <2>2
<1>. QED  BY <1>2 DEF ApplyStatus

\* A step of the OMS on one order leaves the memory of the others.
LEMMA OthersKept ==
  ASSUME TypeOK, NEW o \in Order, OmsStep(o), ~CrashInCatchUp(o), NEW x \in Order, x # o
  PROVE  mem'[x] = mem[x]
BY DEF OmsStep, SubmitOrder, SubmitAccepted, SubmitRejected, SubmitUnavailable, CancelOrder,
       DeliverEvent, ReconcileOpenOrder, Update, TypeOK

\* While the process is up and no new submission starts an order over, what it
\* has booked only grows.
LEMMA BooksGrow ==
  ASSUME PassTypes, NEW o \in Order, [NextRec]_allVars, mode = "up", mode' = "up",
         ~SubmitOrder(o)
  PROVE  mem'[o].filled >= mem[o].filled
<1>1. TypeOK /\ Pair(o).live = mem[o] /\ mem[o].filled \in Nat
  BY StreamTypes DEF Pair, PassTypes, OrderRec
<1>2. ASSUME NEW n \in Nat, NEW q \in Book, Books(Pair(o), q, n), Update(o, q)
      PROVE  mem'[o].filled >= mem[o].filled
  <2>1. mem'[o] = q.live /\ q.live.filled = mem[o].filled + n
    BY <1>1, <1>2, UpdateType DEF Books
  <2>. QED  BY <1>1, <2>1
<1>3. CASE mem'[o] = mem[o]
  BY <1>1, <1>3
<1>4. ASSUME NEW x \in Order, OmsStep(x) PROVE mem'[o].filled >= mem[o].filled
  <2>1. ~CrashInCatchUp(x)
    BY DEF CrashInCatchUp
  <2>2. CASE x = o
    BY <1>1, <1>2, <1>3, <1>4, <2>1, <2>2, StepWrites
  <2>3. CASE x # o
    BY <1>1, <1>3, <1>4, <2>1, <2>3, OthersKept
  <2>. QED  BY <2>2, <2>3
<1>5. ASSUME NEW x \in Order, BrokerStep(x) PROVE mem' = mem
  BY <1>5 DEF BrokerStep, BrokerReceives, BrokerFills, BrokerEnds, LoseEvent
<1>6. ASSUME NEW x \in Order, ApplyStatus(x) PROVE mem'[o].filled >= mem[o].filled
  BY <1>2, <1>3, <1>6, PollWrites, ApplyWrites
<1>7. CASE UNCHANGED vars \/ Flatten
  BY <1>3, <1>7 DEF vars, Flatten
<1>. QED
  BY <1>3, <1>4, <1>5, <1>6, <1>7, RecSteps
     DEF OmsOrBroker, OmsStep, CrashRec, Crash, Stop, StartThreads, RecoverReturns, Recover

\* As long as an order stays so, the broker's side of it stands still.
LEMMA UnsettledStays ==
  ASSUME PollInv, PollInv', NEW o \in Order, Unsettled(o), Unsettled(o)',
         [NextRec]_allVars
  PROVE  broker'[o] = broker[o] /\ mem'[o].filled >= mem[o].filled
<1>1. Kept(o) \/ Moved(o)
  BY RecBrokerMoves DEF PollInv, AtBroker
<1>2. broker'[o] = broker[o]
  BY <1>1, UnsettledWorks DEF Kept, Moved, Unsettled
<1>3. Working(mem'[o])
  BY StillWorks
<1>4. ~SubmitOrder(o)
  BY <1>3, SubmitStarts DEF Working, PollInv, PassTypes
<1>. QED  BY <1>2, <1>4, BooksGrow DEF PollInv, Unsettled

\* What a pass notes of an order, and what it is told of it.
LEMMA PassNotes ==
  ASSUME PassTypes, NEW o \in Order, [NextRec]_allVars
  PROVE  /\ pass' = "orders" /\ o \in todo' =>
              \/ pass = "orders" /\ o \in todo /\ seen' = seen
              \/ seen'[o].filled = mem[o].filled
         /\ \/ fetched' \in {fetched, NoStatus}
            \/ /\ fetched'.order = o => /\ fetched'.state = broker[o].state
                                        /\ fetched'.filled = broker[o].filled
<1>1. CASE UNCHANGED passVars
  BY <1>1 DEF passVars
<1>2. CASE StartPass
  <2>1. fetched' = fetched /\ seen' = [p \in Order |-> [state |-> mem[p].state,
                                                        filled |-> mem[p].filled]]
    BY <1>2 DEF StartPass
  <2>. QED  BY <2>1
<1>3. ASSUME NEW p \in Order, FetchStatus(p) PROVE
         /\ UNCHANGED <<pass, todo, seen>>
         /\ fetched'.order = o => /\ fetched'.state = broker[o].state
                                  /\ fetched'.filled = broker[o].filled
  <2>1. /\ UNCHANGED <<pass, todo, seen>>
        /\ fetched' = [order |-> p, state |-> broker[p].state, filled |-> broker[p].filled]
    BY <1>3 DEF FetchStatus
  <2>. QED  BY <2>1
<1>4. CASE \/ ComputeExpected \/ ComparePositions \/ PositionsUnavailable \/ CrashRec
           \/ \E p \in Order : SumFills(p) \/ FetchFails(p) \/ ApplyStatus(p)
  BY <1>4 DEF ComputeExpected, ComparePositions, PositionsUnavailable, CrashRec, SumFills,
              FetchFails, ApplyStatus
<1>5. CASE \/ UNCHANGED allVars \/ Heartbeat \/ Maintenance \/ StartThreads
           \/ (Recover /\ UNCHANGED recVars) \/ \E p \in Order : OmsOrBroker(p)
  BY <1>1, <1>5 DEF allVars, recVars, Heartbeat, Maintenance, Flatten, ZeroOut,
                    BookFeeOffset, StartThreads, OmsOrBroker
<1>. QED  BY <1>2, <1>3, <1>4, <1>5 DEF NextRec, PassStep

\* What the pass holds about the order since it was last asked about.
Noted(o) ==
  /\ pass = "orders" /\ o \in todo => seen[o].filled <= mem[o].filled
  /\ fetched # NoStatus /\ fetched.order = o =>
       fetched.state = broker[o].state /\ fetched.filled = broker[o].filled

\* And since it was asked about a second time.
Matched(o) ==
  /\ mem[o].filled >= broker[o].filled
  /\ pass = "orders" /\ o \in todo => seen[o].filled >= broker[o].filled

\* Both stay as long as the order stays open and ended.
LEMMA NotesStay ==
  ASSUME PollInv, PollInv', NEW o \in Order, Unsettled(o), Unsettled(o)',
         [NextRec]_allVars
  PROVE  /\ Noted(o) => Noted(o)'
         /\ Matched(o) => Matched(o)'
<1>1. /\ PassTypes /\ mem[o].filled \in Nat /\ mem'[o].filled \in Nat
      /\ broker[o].filled \in Nat /\ seen[o].filled \in Nat
      /\ fetched' \in Answer \cup {NoStatus}
  <2>1. PassTypes /\ TypeOK /\ PassTypes' /\ TypeOK'
    BY DEF PollInv, PassTypes
  <2>2. /\ mem[o] \in OrderRec /\ mem'[o] \in OrderRec /\ broker[o] \in BrokerRec
        /\ broker[o].filled \in Nat
    BY <2>1, StreamTypes DEF TypeOK
  <2>. QED  BY <2>1, <2>2 DEF OrderRec, PassTypes
<1>2. broker'[o] = broker[o] /\ mem'[o].filled >= mem[o].filled
  BY UnsettledStays
<1>3. /\ pass' = "orders" /\ o \in todo' =>
           \/ pass = "orders" /\ o \in todo /\ seen' = seen
           \/ seen'[o].filled = mem[o].filled
      /\ \/ fetched' \in {fetched, NoStatus}
         \/ /\ fetched'.order = o => /\ fetched'.state = broker[o].state
                                     /\ fetched'.filled = broker[o].filled
  BY <1>1, PassNotes
<1>4. ASSUME Noted(o) PROVE Noted(o)'
  BY <1>1, <1>2, <1>3, <1>4 DEF Noted
<1>5. ASSUME Matched(o) PROVE Matched(o)'
  BY <1>1, <1>2, <1>3, <1>5 DEF Matched
<1>. QED  BY <1>4, <1>5

\* Being asked about notes the order afresh; the next time its quantity is
\* made up for; and the time after that it is closed.
LEMMA AskingSettles ==
  ASSUME PollInv, PollInv', NEW o \in Order, Unsettled(o), Unsettled(o)',
         [NextRec]_allVars, ApplyStatus(o)
  PROVE  Noted(o)' /\ (Noted(o) => Matched(o)') /\ ~(Noted(o) /\ Matched(o))
<1>1. /\ TypeOK /\ Pair(o) \in Book /\ Pair(o).live = mem[o] /\ mem[o].filled \in Nat
      /\ broker[o].filled \in Nat /\ seen[o].filled \in Nat /\ Qty \in Nat
      /\ pass = "orders" /\ o \in todo /\ fetched # NoStatus /\ fetched.order = o
      /\ fetched' = NoStatus /\ o \notin todo' /\ fetched.filled \in Nat
  BY StreamTypes, QtyAssumption
     DEF PollInv, PassTypes, Pair, OrderRec, AnswerIsReal, ApplyStatus, Answer
<1>2. Noted(o)'
  BY <1>1 DEF Noted
<1>3. /\ broker'[o] = broker[o] /\ Working(mem[o])
      /\ broker[o].state \in {"FILLED", "CANCELED", "REJECTED", "EXPIRED"}
      /\ broker[o].state = "REJECTED" => mem[o].fsm = "ACCEPTED"
      /\ Working(mem'[o])
  BY UnsettledStays, UnsettledWorks, StillWorks
<1>. SUFFICES ASSUME Noted(o)
             PROVE  mem'[o].filled >= broker[o].filled /\ ~Matched(o)
  BY <1>1, <1>2, <1>3 DEF Matched
<1>4. /\ fetched.state = broker[o].state /\ fetched.filled = broker[o].filled
      /\ seen[o].filled <= mem[o].filled
  BY <1>1 DEF Noted
<1>5. Update(o, PolledBooks(Pair(o), seen[o], fetched))
  BY <1>3, <1>4 DEF ApplyStatus, StatusRequiresUpdate
<1>6. ASSUME NEW q \in Book, Update(o, q) PROVE mem'[o] = q.live
  BY <1>1, <1>6, UpdateType
<1>7. fetched.state = "FILLED" /\ fetched.filled > seen[o].filled
  <2>1. CASE fetched.state \in {"CANCELED", "REJECTED", "EXPIRED"}
    <3>. DEFINE e == [state |-> fetched.state, qty |-> 0]
    <3>1. PolledBooks(Pair(o), seen[o], fetched) = OnBrokerEvent(Pair(o), e)
      BY <2>1 DEF PolledBooks
    <3>2. mem[o].state \notin TerminalStates /\ mem[o].state # "NONE"
      BY DEF Unsettled, IsOpen
    <3>3. PICK k \in {"CANCELLED", "REJECTED", "EXPIRED"},
               t \in {"CANCEL", "REJECT", "EXPIRE"} :
            /\ \/ k = "CANCELLED" /\ t = "CANCEL"
               \/ k = "REJECTED" /\ t = "REJECT"
               \/ k = "EXPIRED" /\ t = "EXPIRE"
            /\ k = "REJECTED" => fetched.state = "REJECTED"
            /\ OnBrokerEvent(Pair(o), e) = Transition(Append1(Pair(o), k, 0), t)
      <4>1. CASE fetched.state = "CANCELED"
        BY <1>1, <3>2, <4>1 DEF OnBrokerEvent, HandleCancellation
      <4>2. CASE fetched.state = "REJECTED"
        BY <1>1, <3>2, <4>2 DEF OnBrokerEvent, HandleRejection
      <4>3. CASE fetched.state = "EXPIRED"
        BY <1>1, <3>2, <4>3 DEF OnBrokerEvent, HandleExpiry
      <4>. QED  BY <2>1, <4>1, <4>2, <4>3
    <3>. DEFINE q == Transition(Append1(Pair(o), k, 0), t)
    <3>4. q.live.state = k
      BY <1>1, <1>3, <1>4, <3>3, EndCloses DEF Working
    <3>5. q \in Book
      BY <1>1, <3>3, EndBooks DEF Books
    <3>6. Update(o, q)
      BY <1>5, <3>1, <3>3
    <3>. HIDE DEF q
    <3>7. mem'[o].state = k
      BY <1>6, <3>4, <3>5, <3>6
    <3>. QED  BY <1>3, <3>7 DEF Working
  <2>2. CASE fetched.state = "FILLED" /\ ~(fetched.filled > seen[o].filled)
    <3>1. PolledBooks(Pair(o), seen[o], fetched) = ForceCloseFilled(Pair(o))
      BY <1>1, <2>2 DEF PolledBooks
    <3>. DEFINE q == ForceCloseFilled(Pair(o))
    <3>2. CanTrigger(mem[o].fsm, "FULL_FILL") /\ Trigger(mem[o].fsm, "FULL_FILL") = "FILLED"
      BY <1>3, OpenArcs DEF Working
    <3>3. mem[o].state \notin TerminalStates
      BY DEF Unsettled, IsOpen
    <3>4. q.live.state = "FILLED"
      BY <1>1, <3>2, <3>3, Moves DEF ForceCloseFilled
    <3>5. q \in Book /\ Update(o, q)
      BY <1>1, <1>5, <3>1, ForceCloseBooks DEF Books
    <3>. HIDE DEF q
    <3>6. mem'[o].state = "FILLED"
      BY <1>6, <3>4, <3>5
    <3>. QED  BY <1>3, <3>6 DEF Working
  <2>. QED  BY <1>3, <1>4, <2>1, <2>2
<1>8. ~Matched(o)
  BY <1>1, <1>4, <1>7 DEF Matched
<1>9. mem'[o].filled >= broker[o].filled
  <2>. DEFINE n == fetched.filled - seen[o].filled
              q == HandleFill(Pair(o), n)
  <2>1. n \in Nat
    BY <1>1, <1>7
  <2>2. PolledBooks(Pair(o), seen[o], fetched) = q
    BY <1>1, <1>7 DEF PolledBooks
  <2>3. Books(Pair(o), q, n)
    BY <1>1, <2>1, HandleFillBooks
  <2>4. q \in Book /\ q.live.filled = mem[o].filled + n
    BY <1>1, <2>3 DEF Books
  <2>5. Update(o, q)
    BY <1>5, <2>2
  <2>. HIDE DEF q
  <2>6. mem'[o].filled = mem[o].filled + n
    BY <1>6, <2>4, <2>5
  <2>. QED  BY <1>1, <1>4, <1>7, <2>6
<1>. QED  BY <1>8, <1>9

\* EndedOrderIsSettled: as long as passes come to ask about every order that is
\* open, what the broker has ended does not stay open here: the third answer at the
\* latest closes it (_reconcile_orders, _apply_broker_status).
THEOREM PollingSettles == SpecRec /\ OpenOrdersAreAsked => EndedOrderIsSettled
<1>. SUFFICES ASSUME NEW o \in Order
             PROVE  SpecRec /\ OpenOrdersAreAsked =>
                      (<>[](mode = "up") =>
                         []<>~(/\ IsOpen(mem[o]) /\ mem[o].bid /\ mem[o].state = mem[o].fsm
                               /\ ~LiveAtBroker(broker[o])))
  BY DEF EndedOrderIsSettled
<1>. DEFINE U == Unsettled(o)
            I == Noted(o)
            J == Matched(o)
            P == IsOpen(mem[o]) /\ mem[o].bid
            E == /\ IsOpen(mem[o]) /\ mem[o].bid /\ mem[o].state = mem[o].fsm
                 /\ ~LiveAtBroker(broker[o])
<1>1. PollInv /\ PollInv' /\ U /\ U' /\ [NextRec]_allVars => (I => I') /\ (J => J')
  BY NotesStay
<1>2. PollInv /\ PollInv' /\ U /\ U' /\ [NextRec]_allVars /\ <<ApplyStatus(o)>>_allVars
        => I' /\ (I => J') /\ ~(I /\ J)
  BY AskingSettles
<1>3. (mode = "up") /\ E => U
  BY DEF Unsettled
<1>4. U => mode = "up" /\ IsOpen(mem[o]) /\ mem[o].bid
  BY DEF Unsettled
<1>5. OpenOrdersAreAsked =>
        (<>[](mode = "up" /\ IsOpen(mem[o]) /\ mem[o].bid) => []<><<ApplyStatus(o)>>_allVars)
  BY DEF OpenOrdersAreAsked
<1>. HIDE DEF U, I, J, E
<1>6. SpecRec /\ OpenOrdersAreAsked => (<>[](mode = "up") => []<>~E)
  BY <1>1, <1>2, <1>3, <1>4, <1>5, Polling, PTL DEF SpecRec
<1>. QED  BY <1>6 DEF E

-----------------------------------------------------------------------------
(* DifferenceIsNoticed.  Once nothing trades, the sum a pass builds up      *)
(* order by order, releasing the lock between two of them, is the position *)
(* at every moment of it.                                                  *)

\* What is counted, of an order that the OMS knows and of one it does not.
Known(o) ==
  /\ mem[o].state = "NONE" => mem[o].fills = 0
  /\ mode # "down" /\ durable[o].state # "NONE" => mem[o].state # "NONE"

\* The amounts of the books and of the comparison.
BookTypes ==
  /\ ghost \in [Symbol -> Int] /\ zeroed \in [Symbol -> Int]
  /\ sold \in [Symbol -> Int] /\ expected \in [Symbol -> Int]

\* The invariant of the comparison.
CountInv == PollInv /\ BookTypes /\ \A o \in Order : Known(o)

\* The sums of an instrument are integers.
LEMMA AmountsAreInts ==
  ASSUME IsFiniteSet(Order), TypeOK, BookTypes, NEW s \in Symbol
  PROVE  /\ SumOf([o \in Order |-> mem[o].fills], OrdersOf(s)) \in Int
         /\ Position(s) \in Int /\ BrokerPosition(s) \in Int /\ NetLogged(s) \in Int
<1>1. IsFiniteSet(OrdersOf(s)) /\ OrdersOf(s) \subseteq Order
  BY FS_Subset DEF OrdersOf
<1>2. ASSUME NEW f \in [Order -> Int] PROVE SumOf(f, OrdersOf(s)) \in Int
  <2>1. SumOver(f, OrdersOf(s)) \in Int
    BY <1>1, SumIsInt
  <2>. QED  BY <2>1 DEF SumOf, SumOver
<1>3. /\ [o \in Order |-> mem[o].fills] \in [Order -> Int]
      /\ [o \in Order |-> durable[o].fills] \in [Order -> Int]
      /\ [o \in Order |-> broker[o].filled] \in [Order -> Int]
  BY QtyAssumption DEF TypeOK, OrderRec, BrokerRec
<1>4. ghost[s] \in Int /\ zeroed[s] \in Int /\ sold[s] \in Int
  BY DEF BookTypes
<1>. QED  BY <1>2, <1>3, <1>4 DEF Position, BrokerPosition, NetLogged

\* The amounts stay integers.
LEMMA BookTypesStep ==
  ASSUME IsFiniteSet(Order), PassTypes, BookTypes, [NextRec]_allVars
  PROVE  BookTypes'
<1>1. TypeOK /\ mem \in [Order -> OrderRec] /\ \A o \in Order : SymbolOf[o] \in Symbol
  BY SymbolAssumption DEF PassTypes, TypeOK
<1>2. \A s \in Symbol : BrokerPosition(s) \in Int /\ NetLogged(s) \in Int
  BY <1>1, AmountsAreInts
<1>3. CASE UNCHANGED <<bookVars, expected>>
  BY <1>3 DEF BookTypes, bookVars
<1>4. CASE ComparePositions
  <2>1. /\ ghost' = [s \in Symbol |-> AdoptOrphanPosition(s)]
        /\ UNCHANGED <<zeroed, sold, expected>>
    BY <1>4 DEF ComparePositions
  <2>2. \A s \in Symbol : AdoptOrphanPosition(s) \in Int
    BY <1>2 DEF AdoptOrphanPosition, BookTypes
  <2>. QED  BY <2>1, <2>2 DEF BookTypes
<1>5. CASE ComputeExpected
  <2>1. expected' = [s \in Symbol |-> ghost[s] - zeroed[s]] /\ UNCHANGED bookVars
    BY <1>5 DEF ComputeExpected
  <2>. QED  BY <2>1 DEF BookTypes, bookVars
<1>6. ASSUME NEW o \in Order, SumFills(o) PROVE BookTypes'
  <2>1. /\ expected' = [expected EXCEPT ![SymbolOf[o]] = @ + mem[o].fills]
        /\ UNCHANGED bookVars
    BY <1>6 DEF SumFills
  <2>2. mem[o].fills \in Int /\ SymbolOf[o] \in Symbol
    BY <1>1 DEF OrderRec
  <2>3. expected' \in [Symbol -> Int]
    BY <2>1, <2>2 DEF BookTypes
  <2>. QED  BY <2>1, <2>3 DEF BookTypes, bookVars
<1>7. CASE CrashRec
  <2>1. expected' = [s \in Symbol |-> 0] /\ UNCHANGED bookVars
    BY <1>7 DEF CrashRec
  <2>. QED  BY <2>1 DEF BookTypes, bookVars
<1>8. CASE Flatten
  <2>1. /\ sold' = [s \in Symbol |-> sold[s] + BrokerPosition(s)]
        /\ UNCHANGED <<ghost, zeroed, expected>>
    BY <1>8 DEF Flatten, passVars
  <2>2. \A s \in Symbol : sold[s] + BrokerPosition(s) \in Int
    BY <1>2 DEF BookTypes
  <2>. QED  BY <2>1, <2>2 DEF BookTypes
<1>9. ASSUME NEW execute \in BOOLEAN, ZeroOut(execute) PROVE BookTypes'
  <2>1. /\ zeroed' = [s \in Symbol |->
                        IF execute /\ NetLogged(s) > 0 THEN NetLogged(s) ELSE 0]
        /\ UNCHANGED <<ghost, sold, expected>>
    BY <1>9 DEF ZeroOut, passVars
  <2>. QED  BY <1>2, <2>1 DEF BookTypes
<1>10. ASSUME NEW s \in Symbol, BookFeeOffset(s) PROVE BookTypes'
  <2>1. ghost' = [ghost EXCEPT ![s] = @ - FeeQty] /\ UNCHANGED <<zeroed, sold, expected>>
    BY <1>10 DEF BookFeeOffset, passVars
  <2>. QED  BY <2>1, FeeAssumption DEF BookTypes
<1>11. CASE \/ UNCHANGED allVars \/ StartPass \/ PositionsUnavailable \/ Heartbeat
            \/ StartThreads \/ (Recover /\ UNCHANGED recVars)
            \/ \E o \in Order : OmsOrBroker(o) \/ FetchStatus(o) \/ FetchFails(o)
                                \/ ApplyStatus(o)
  BY <1>3, <1>11 DEF allVars, recVars, passVars, StartPass, PositionsUnavailable, Heartbeat,
       StartThreads, OmsOrBroker, FetchStatus, FetchFails, ApplyStatus
<1>. QED  BY <1>4, <1>5, <1>6, <1>7, <1>8, <1>9, <1>10, <1>11
          DEF NextRec, PassStep, Maintenance

\* What is counted stays so when a handler has written about a logged order.
LEMMA WrittenIsKnown ==
  ASSUME TypeOK, NEW x \in Order, NEW o \in Order, Known(x), mode' = mode, mode # "down",
         o = x => durable[x].state # "NONE",
         \/ UNCHANGED <<mem, durable>>
         \/ \E n \in Nat, q \in Book : Books(Pair(o), q, n) /\ Update(o, q)
  PROVE  Known(x)'
<1>1. CASE UNCHANGED <<mem, durable>>
  BY <1>1 DEF Known
<1>2. ASSUME NEW n \in Nat, NEW q \in Book, Books(Pair(o), q, n), Update(o, q)
      PROVE  Known(x)'
  <2>1. CASE x = o
    <3>1. mem[o].state # "NONE"
      BY <2>1 DEF Known
    <3>2. mem'[o].state # "NONE"
      BY <1>2, <3>1, UpdateType DEF Books, Pair
    <3>. QED  BY <2>1, <3>2 DEF Known
  <2>2. CASE x # o
    <3>1. mem'[x] = mem[x] /\ durable'[x] = durable[x]
      BY <1>2, <2>2, UpdateType
    <3>. QED  BY <3>1 DEF Known
  <2>. QED  BY <2>1, <2>2
<1>. QED  BY <1>1, <1>2

\* What is counted stays so.
LEMMA KnownStep ==
  ASSUME PollInv, NEW x \in Order, Known(x), [NextRec]_allVars
  PROVE  Known(x)'
<1>1. /\ PassTypes /\ TypeOK /\ mem \in [Order -> OrderRec]
      /\ AnswerIsReal /\ \A o \in Order : InLog(o)
      /\ Unknown.state = "NONE" /\ Unknown.fills = 0
  BY DEF PollInv, PassTypes, TypeOK, Unknown
<1>2. CASE \/ UNCHANGED vars \/ Flatten \/ StartThreads \/ \E o \in Order : BrokerStep(o)
  <2>1. UNCHANGED <<mem, durable>> /\ (mode' # "down" => mode # "down")
    BY <1>2 DEF vars, Flatten, StartThreads, RecoverReturns, BrokerStep, BrokerReceives,
                BrokerFills, BrokerEnds, LoseEvent
  <2>. QED  BY <2>1 DEF Known
<1>3. CASE Stop
  <2>1. mem'[x] = Unknown /\ mode' = "down"
    BY <1>3 DEF Stop
  <2>. QED  BY <1>1, <2>1 DEF Known
<1>4. CASE Recover
  <2>1. /\ durable' = durable
        /\ mem'[x] = IF durable[x].state = "NONE" THEN mem[x]
                     ELSE [durable[x] EXCEPT !.fills = mem[x].fills + @]
    BY <1>4 DEF Recover, ReplayLog
  <2>2. durable[x].state # "NONE" => mem'[x].state = durable[x].state
    BY <1>1, <2>1 DEF TypeOK, OrderRec
  <2>. QED  BY <2>1, <2>2 DEF Known
<1>5. ASSUME NEW o \in Order, OmsStep(o) PROVE Known(x)'
  <2>1. CASE SubmitOrder(o)
    <3>1. x = o => mem'[x].state # "NONE"
      BY <1>1, <2>1, SubmitStarts
    <3>2. x # o => mem'[x] = mem[x] /\ durable'[x] = durable[x]
      BY <1>1, <1>5, <2>1, OthersKept, StepFrame DEF SubmitOrder, CrashInCatchUp, LockFree
    <3>3. mode' = mode
      BY <2>1 DEF SubmitOrder
    <3>. QED  BY <3>1, <3>2, <3>3 DEF Known
  <2>2. CASE CrashInCatchUp(o)
    BY <1>3, <2>2 DEF CrashInCatchUp
  <2>3. CASE ~SubmitOrder(o) /\ ~CrashInCatchUp(o)
    <3>1. mode' = mode /\ mode # "down"
      BY <1>5, <2>3 DEF OmsStep, SubmitAccepted, SubmitRejected, SubmitUnavailable,
         CancelOrder, DeliverEvent, ReconcileOpenOrder, LockFree
    <3>2. CASE durable[o].state # "NONE" \/ x # o
      BY <1>1, <1>5, <2>3, <3>1, <3>2, StepWrites, WrittenIsKnown
    <3>3. CASE durable[o].state = "NONE" /\ x = o
      <4>1. mem[o].state = "NONE" /\ call # o /\ o \notin pending
        BY <1>1, <3>3 DEF InLog
      <4>2. DeliverEvent(o)
        BY <1>5, <2>3, <4>1 DEF OmsStep, SubmitAccepted, SubmitRejected, SubmitUnavailable,
           CancelOrder, IsOpen, ReconcileOpenOrder
      <4>3. Update(o, Pair(o))
        BY <4>1, <4>2 DEF DeliverEvent, OnBrokerEvent, Pair
      <4>4. mem'[o] = mem[o] /\ durable'[o] = durable[o]
        BY <1>1, <4>3 DEF Update, Pair, TypeOK
      <4>. QED  BY <3>1, <3>3, <4>4 DEF Known
    <3>. QED  BY <3>2, <3>3
  <2>. QED  BY <2>1, <2>2, <2>3
<1>6. ASSUME NEW o \in Order, ApplyStatus(o) PROVE Known(x)'
  <2>1. mode' = mode /\ mode # "down" /\ o \in todo
    BY <1>1, <1>6 DEF ApplyStatus, LockFree, AnswerIsReal
  <2>2. durable[o].state # "NONE"
    BY <1>1, <2>1 DEF InLog
  <2>. QED  BY <1>1, <1>6, <2>1, <2>2, PollWrites, WrittenIsKnown
<1>. QED  BY <1>2, <1>3, <1>4, <1>5, <1>6, RecSteps DEF OmsOrBroker, OmsStep, CrashRec, Crash

\* The invariant of the comparison holds throughout.
LEMMA Counting == ASSUME IsFiniteSet(Order) PROVE SpecRec => []CountInv
<1>1. InitRec => BookTypes /\ \A o \in Order : Known(o)
  BY DEF InitRec, Init, Unknown, BookTypes, Known
<1>2. PollInv /\ BookTypes /\ [NextRec]_allVars => BookTypes'
  BY BookTypesStep DEF PollInv
<1>3. PollInv /\ (\A o \in Order : Known(o)) /\ [NextRec]_allVars => (\A o \in Order : Known(o))'
  BY KnownStep
<1>4. CountInv <=> PollInv /\ BookTypes /\ \A o \in Order : Known(o)
  BY DEF CountInv
<1>. QED  BY <1>1, <1>2, <1>3, <1>4, Polling, PTL DEF SpecRec

\* The quantity booked, by order.
Fills == [o \in Order |-> mem[o].fills]

\* A pass that has come to the positions has summed up the books as they are,
\* but for the orders it still has to sum up.
Fresh ==
  pass = "positions" =>
    \A s \in Symbol :
      expected[s] = ghost[s] - zeroed[s] + SumOf(Fills, OrdersOf(s) \ todo)

\* No order trades in the step.
Quiet == \A o \in Order : UNCHANGED Traded(o)

\* It stays so while nothing trades.
LEMMA FreshStays ==
  ASSUME IsFiniteSet(Order), CountInv, Fresh, [NextRec]_allVars, Quiet,
         mode = "up", mode' = "up"
  PROVE  Fresh'
<1>1. /\ PassTypes /\ TypeOK /\ BookTypes /\ mem \in [Order -> OrderRec]
      /\ \A o \in Order : Known(o)
  BY DEF CountInv, PollInv, PassTypes, TypeOK
<1>2. Fills' = Fills
  BY DEF Quiet, Traded, Fills
<1>3. \A o \in Order : Fills[o] \in Int
  BY <1>1 DEF Fills, OrderRec
<1>4. ASSUME NEW s \in Symbol
      PROVE  IsFiniteSet(OrdersOf(s)) /\ OrdersOf(s) \subseteq Order
  BY FS_Subset DEF OrdersOf
<1>5. CASE pass' # "positions"
  BY <1>5 DEF Fresh
<1>6. CASE UNCHANGED <<pass, todo, expected, ghost, zeroed>>
  BY <1>2, <1>6 DEF Fresh
<1>7. CASE ComputeExpected
  <2>1. /\ todo' = {o \in Order : mem[o].state # "NONE"} /\ UNCHANGED <<ghost, zeroed>>
        /\ expected' = [s \in Symbol |-> ghost[s] - zeroed[s]]
    BY <1>7 DEF ComputeExpected, bookVars
  <2>2. ASSUME NEW s \in Symbol PROVE SumOf(Fills, OrdersOf(s) \ todo') = 0
    <3>1. IsFiniteSet(OrdersOf(s) \ todo')
      BY <1>4, FS_Subset
    <3>2. \A o \in OrdersOf(s) \ todo' : Fills[o] = 0
      BY <1>1, <1>4, <2>1 DEF Fills, Known
    <3>3. SumOver(Fills, OrdersOf(s) \ todo') = 0
      BY <3>1, <3>2, SumOfZeros
    <3>. QED  BY <3>3 DEF SumOf, SumOver
  <2>3. ASSUME NEW s \in Symbol
        PROVE  expected'[s] = ghost'[s] - zeroed'[s] + SumOf(Fills', OrdersOf(s) \ todo')
    <3>1. expected'[s] = ghost[s] - zeroed[s] /\ ghost[s] - zeroed[s] \in Int
      BY <1>1, <2>1 DEF BookTypes
    <3>2. SumOf(Fills', OrdersOf(s) \ todo') = 0
      BY <1>2, <2>2
    <3>. QED  BY <2>1, <3>1, <3>2
  <2>. QED  BY <2>3 DEF Fresh, OrdersOf
<1>8. ASSUME NEW o \in Order, SumFills(o) PROVE Fresh'
  <2>1. /\ pass = "positions" /\ o \in todo /\ todo' = todo \ {o}
        /\ UNCHANGED <<ghost, zeroed>>
        /\ expected' = [expected EXCEPT ![SymbolOf[o]] = @ + mem[o].fills]
    BY <1>8 DEF SumFills, bookVars
  <2>2. ASSUME NEW s \in Symbol
        PROVE  expected'[s] = ghost'[s] - zeroed'[s] + SumOf(Fills', OrdersOf(s) \ todo')
    <3>. DEFINE rest == OrdersOf(s) \ todo
    <3>1. expected[s] = ghost[s] - zeroed[s] + SumOf(Fills, rest)
      BY <2>1 DEF Fresh
    <3>2. IsFiniteSet(rest) /\ rest \subseteq Order /\ o \notin rest
      BY <1>4, <2>1, FS_Subset
    <3>3. CASE SymbolOf[o] # s
      <4>1. OrdersOf(s) \ todo' = rest
        BY <2>1, <3>3 DEF OrdersOf
      <4>2. expected'[s] = expected[s]
        BY <1>1, <2>1, <3>3 DEF BookTypes
      <4>. HIDE DEF rest
      <4>. QED  BY <1>2, <2>1, <3>1, <4>1, <4>2
    <3>4. CASE SymbolOf[o] = s
      <4>1. OrdersOf(s) \ todo' = rest \cup {o}
        BY <2>1, <3>4 DEF OrdersOf
      <4>2. expected'[s] = expected[s] + Fills[o]
        BY <1>1, <2>1, <3>4 DEF BookTypes, Fills
      <4>. HIDE DEF rest
      <4>3. SumOver(Fills, rest \cup {o}) = Fills[o] + SumOver(Fills, rest)
        BY <1>3, <3>2, SumAdds
      <4>4. SumOver(Fills, rest) \in Int
        BY <1>3, <3>2, SumIsInt
      <4>5. SumOf(Fills, rest \cup {o}) = Fills[o] + SumOf(Fills, rest)
            /\ SumOf(Fills, rest) \in Int
        BY <4>3, <4>4 DEF SumOf, SumOver
      <4>6. ghost[s] \in Int /\ zeroed[s] \in Int /\ Fills[o] \in Int
        BY <1>1, <1>3 DEF BookTypes
      <4>7. \A g, z, t, f \in Int : g - z + t + f = g - z + (f + t)
        OBVIOUS
      <4>8. expected'[s] = ghost[s] - zeroed[s] + SumOf(Fills, rest \cup {o})
        BY <3>1, <4>2, <4>5, <4>6, <4>7
      <4>. QED  BY <1>2, <2>1, <4>1, <4>8
    <3>. QED  BY <3>3, <3>4
  <2>. QED  BY <2>2 DEF Fresh, OrdersOf
<1>9. ASSUME \/ StartPass \/ ComparePositions \/ PositionsUnavailable \/ Heartbeat
             \/ Maintenance \/ CrashRec \/ StartThreads \/ (Recover /\ UNCHANGED recVars)
             \/ UNCHANGED allVars
             \/ \E o \in Order : OmsOrBroker(o) \/ FetchStatus(o) \/ FetchFails(o)
                                 \/ ApplyStatus(o)
      PROVE  pass' # "positions" \/ UNCHANGED <<pass, todo, expected, ghost, zeroed>>
  BY <1>9 DEF StartPass, ComparePositions, PositionsUnavailable, Heartbeat, Maintenance,
       Flatten, ZeroOut, BookFeeOffset, CrashRec, StartThreads, OmsOrBroker, FetchStatus,
       FetchFails, ApplyStatus, allVars, recVars, passVars, bookVars
<1>. QED  BY <1>5, <1>6, <1>7, <1>8, <1>9 DEF NextRec, PassStep

\* What the operator can see: no difference that counts, or a tripped switch.
Noticed ==
  \/ \A s \in Symbol : Tolerated(s, Position(s), BrokerPosition(s))
  \/ kill = "RECONCILIATION_BREAK"

\* Equal amounts do not differ.
LEMMA EqualIsTolerated ==
  ASSUME NEW s \in Symbol, NEW b \in Int
  PROVE  Tolerated(s, b, b)
<1>1. Drift(b, b) = 0
  BY DEF Drift
<1>2. /\ QtyTolerance \in Nat \ {0} /\ DollarTolerance \in Nat
      /\ (IF b = 0 THEN 0 ELSE Price[s]) \in Nat
  BY ToleranceAssumption
<1>3. \A p \in Nat : 0 * p = 0
  OBVIOUS
<1>. QED  BY <1>1, <1>2, <1>3 DEF Tolerated

\* A comparison of books that were summed up as they are leaves none unseen.
LEMMA ComparingNotices ==
  ASSUME IsFiniteSet(Order), CountInv, Fresh, ComparePositions
  PROVE  Noticed'
<1>1. TypeOK /\ BookTypes
  BY DEF CountInv, PollInv, PassTypes
<1>2. /\ pass = "positions" /\ todo = {} /\ UNCHANGED <<vars, zeroed, sold>>
      /\ ghost' = [s \in Symbol |-> AdoptOrphanPosition(s)]
      /\ Mismatched # {} => kill' = "RECONCILIATION_BREAK"
  BY DEF ComparePositions
<1>3. ASSUME NEW s \in Symbol, s \notin Mismatched
      PROVE  Tolerated(s, Position(s)', BrokerPosition(s)')
  <2>. DEFINE sum == SumOf(Fills, OrdersOf(s))
              bp == BrokerPosition(s)
  <2>1. OrdersOf(s) \ todo = OrdersOf(s)
    BY <1>2
  <2>2. expected[s] = ghost[s] - zeroed[s] + sum
    BY <1>2, <2>1 DEF Fresh
  <2>3. /\ sum \in Int /\ bp \in Int /\ ghost[s] \in Int /\ zeroed[s] \in Int
    BY <1>1, AmountsAreInts DEF BookTypes, Fills
  <2>4. bp' = bp
    BY <1>2 DEF vars, BrokerPosition
  <2>5. Position(s)' = ghost'[s] - zeroed[s] + sum
    BY <1>2 DEF vars, Position, Fills
  <2>6. CASE IsOrphan(s)
    <3>1. ghost'[s] = ghost[s] + bp /\ expected[s] = 0
      BY <1>2, <2>6 DEF AdoptOrphanPosition, IsOrphan
    <3>. HIDE DEF sum, bp
    <3>2. \A g, z, t, b \in Int : g - z + t = 0 => (g + b) - z + t = b
      OBVIOUS
    <3>3. Position(s)' = bp
      BY <2>2, <2>3, <2>5, <3>1, <3>2
    <3>4. Tolerated(s, bp, bp)
      BY <2>3, EqualIsTolerated
    <3>5. BrokerPosition(s)' = bp
      BY <2>4 DEF bp
    <3>. QED  BY <3>3, <3>4, <3>5, Zenon
  <2>7. CASE ~IsOrphan(s)
    <3>1. ghost'[s] = ghost[s] /\ Tolerated(s, expected[s], bp)
      BY <1>2, <1>3, <2>7 DEF AdoptOrphanPosition, Mismatched, Differs
    <3>2. Position(s)' = expected[s]
      BY <2>2, <2>5, <3>1
    <3>3. Tolerated(s, expected[s], bp) /\ BrokerPosition(s)' = bp
      BY <2>4, <3>1
    <3>. HIDE DEF bp, sum
    <3>. QED  BY <3>2, <3>3, Zenon
  <2>. QED  BY <2>6, <2>7
<1>. QED  BY <1>2, <1>3 DEF Noticed

\* DifferenceIsNoticed: once trading has come to rest, whatever of it was lost
\* or counted twice, the second comparison leaves no difference between books and
\* broker that counts and that the switch does not report (_reconcile_positions,
\* adopt_orphan_position).
THEOREM DifferencesAreNoticed ==
  ASSUME IsFiniteSet(Order)
  PROVE  SpecRec /\ PassesCompare /\ TradingEnds => DifferenceIsNoticed
<1>1. CountInv /\ Fresh /\ [NextRec]_allVars /\ [Quiet]_allVars /\ mode = "up" /\ (mode = "up")'
        => Fresh'
  <2>1. UNCHANGED allVars => Quiet
    BY DEF allVars, vars, Quiet, Traded
  <2>. QED  BY <2>1, FreshStays
<1>2. <<ComparePositions>>_allVars => Fresh'
  BY DEF ComparePositions, Fresh
<1>3. CountInv /\ Fresh /\ <<ComparePositions>>_allVars => Noticed'
  BY ComparingNotices
<1>4. TradingEnds => (<>[](mode = "up") => <>[][Quiet]_allVars)
  BY DEF TradingEnds, Quiet
<1>5. SpecRec => []CountInv
  BY Counting
<1>. HIDE DEF Fresh, Noticed, Quiet, CountInv
<1>6. SpecRec /\ PassesCompare /\ TradingEnds => (<>[](mode = "up") => []<>Noticed)
  BY <1>1, <1>2, <1>3, <1>4, <1>5, PTL DEF SpecRec, PassesCompare
<1>. QED  BY <1>6 DEF DifferenceIsNoticed, Noticed
=============================================================================
