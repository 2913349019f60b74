--------------------------- MODULE Budget_proofs ---------------------------
(***************************************************************************)
(* Theorems about the daily cap on language-model spending, for every      *)
(* finite number of calling threads, limit, cost of a call, number of days *)
(* and of torn files; and about the snapshots of equity, for any lengths   *)
(* of bucket and day, retention, faults and restarts.  Two are of what     *)
(* must come about: they assume that a fair step at its turn is enabled.   *)
(***************************************************************************)
EXTENDS Budget, Snapshots, SumTheorems, FiniteSetTheorems, TLAPS

-----------------------------------------------------------------------------
(* Calls under way, and what they may cost *)

\* Never more calls are under way than there are threads.
LEMMA InFlightSize ==
  /\ IsFiniteSet(InFlight)
  /\ Cardinality(InFlight) \in Nat
  /\ Cardinality(Thread) \in Nat
  /\ Cardinality(InFlight) <= Cardinality(Thread)
<1>1. InFlight \in SUBSET Thread
  BY DEF InFlight
<1>2. IsFiniteSet(Thread)
  BY ThreadAssumption
<1>3. IsFiniteSet(InFlight) /\ Cardinality(InFlight) <= Cardinality(Thread)
  BY <1>1, <1>2, FS_Subset
<1>. QED  BY <1>2, <1>3, FS_CardinalityType

\* Products grow with their second factor.
LEMMA TimesMonotone ==
  ASSUME NEW m \in Nat, NEW a \in Nat, NEW b \in Nat, a <= b
  PROVE  m * a \in Nat /\ m * b \in Nat /\ m * a <= m * b
<1>1. m * b = m * a + m * (b - a)
  OBVIOUS
<1>2. m * a \in Nat /\ m * b \in Nat /\ m * (b - a) \in Nat
  OBVIOUS
<1>. QED  BY <1>1, <1>2

\* One call less frees the cost of one call.
LEMMA TimesLess ==
  ASSUME NEW m \in Nat, NEW a \in Nat \ {0}
  PROVE  m * (a - 1) = m * a - m /\ m * a \in Nat
OBVIOUS

\* The bound is a number, and there is room below it for every call at once.
LEMMA MostSpentType ==
  /\ MostSpent \in Nat
  /\ MaxCost * Cardinality(InFlight) \in Nat
  /\ \A paid \in Nat :
       paid < Limit => paid + MaxCost * Cardinality(InFlight) <= MostSpent
<1>1. /\ Limit \in Nat /\ Limit >= 1 /\ MaxCost \in Nat
  BY LimitAssumption
<1>2. /\ MaxCost * Cardinality(InFlight) \in Nat
      /\ MaxCost * Cardinality(Thread) \in Nat
      /\ MaxCost * Cardinality(InFlight) <= MaxCost * Cardinality(Thread)
  BY <1>1, InFlightSize, TimesMonotone
<1>. QED  BY <1>1, <1>2 DEF MostSpent

-----------------------------------------------------------------------------
(* Types *)

\* A new amount on an account is an account.
LEMMA RecordSpendType ==
  ASSUME NEW l \in Account, NEW d \in Day, NEW cost \in Nat
  PROVE  /\ RecordSpend(l, d, cost) \in Account
         /\ RecordSpend(l, d, cost).day = d
         /\ RecordSpend(l, d, cost).total
              = (IF l.day = d THEN l.total ELSE 0) + cost
<1>1. d \in 0..Days
  BY BoundAssumption DEF Day
<1>2. (IF l.day = d THEN l.total ELSE 0) + cost \in Nat
  BY DEF Account
<1>. QED  BY <1>1, <1>2 DEF RecordSpend, Account

\* The empty account, and the file as it is loaded, are accounts.
LEMMA LoadType ==
  ASSUME TypeOK
  PROVE  Empty \in Account /\ Load \in Account
BY BoundAssumption DEF TypeOK, Empty, Load, Account, Day

\* Every step keeps the types.
LEMMA TypeStep ==
  ASSUME TypeOK, [Next]_vars
  PROVE  TypeOK'
<1>. USE DEF TypeOK
<1>1. ASSUME NEW t \in Thread, StartCall(t) \/ CallFails(t)  PROVE TypeOK'
  <2>1. /\ calls' \in [Thread -> 0..Days]
        /\ UNCHANGED <<up, today, ledgerVars, haltVars>>
    BY <1>1, BoundAssumption DEF StartCall, CallFails, Day
  <2>. QED  BY <2>1 DEF ledgerVars, haltVars
<1>2. ASSUME NEW t \in Thread, EndCall(t)  PROVE TypeOK'
  <2>1. calls[t] \in Day
    BY <1>2, BoundAssumption DEF EndCall, Day
  <2>2. PICK cost \in 1..MaxCost :
          /\ ledger' = RecordSpend(ledger, calls[t], cost)
          /\ recorded' = [recorded EXCEPT ![calls[t]] = @ + cost]
    BY <1>2 DEF EndCall
  <2>3. cost \in Nat
    BY <2>2, LimitAssumption
  <2>4. ledger' \in Account /\ file' \in Account
    BY <1>2, <2>1, <2>2, <2>3, RecordSpendType DEF EndCall
  <2>5. recorded' \in [Day -> Nat]
    BY <2>1, <2>2, <2>3
  <2>6. calls' \in [Thread -> 0..Days]
    BY <1>2, BoundAssumption DEF EndCall
  <2>7. straddled' \in BOOLEAN
    BY <1>2 DEF EndCall
  <2>. QED  BY <1>2, <2>4, <2>5, <2>6, <2>7 DEF EndCall, haltVars
<1>3. ASSUME WatchReads \/ WatchTrips \/ WatchLatches \/ JobMisfires
             \/ JobResetsWatcher
      PROVE  TypeOK'
  BY <1>3 DEF WatchReads, WatchTrips, WatchLatches, JobMisfires,
              JobResetsWatcher, ledgerVars, KillSwitchState
<1>4. ASSUME JobResetsKill \/ Heartbeat \/ ReconcileOnce  PROVE TypeOK'
  BY <1>4 DEF JobResetsKill, Heartbeat, ReconcileOnce, ledgerVars, ResetDaily,
              RecordHeartbeat, ClearReconciliationBreak, CheckHeartbeat,
              ClearCause, KillSwitchState
<1>5. CASE NewDay
  <2>1. today + 1 \in Day
    BY <1>5, BoundAssumption DEF NewDay, Day
  <2>. QED  BY <1>5, <2>1 DEF NewDay, ledgerVars
<1>6. CASE JobResetsLedger
  <2>1. ResetIfNewDay(ledger) \in Account
    BY BoundAssumption DEF ResetIfNewDay, Account, Day
  <2>. QED  BY <1>6, <2>1 DEF JobResetsLedger
<1>7. ASSUME Crash \/ CrashInFlush  PROVE TypeOK'
  <2>1. ledger' \in Account /\ file' \in Account
    BY <1>7, LoadType DEF Crash, CrashInFlush, Stop
  <2>2. calls' \in [Thread -> 0..Days]
    <3>1. calls' = [t \in Thread |-> 0]
      BY <1>7 DEF Crash, CrashInFlush, Stop
    <3>2. 0 \in 0..Days
      BY BoundAssumption
    <3>. QED  BY <3>1, <3>2
  <2>3. torn' \in 0..MaxTorn
    BY <1>7, BoundAssumption DEF Crash, CrashInFlush
  <2>4. /\ up' \in BOOLEAN /\ tripped' \in BOOLEAN
        /\ watch' = "idle" /\ job' = "no" /\ kill' \in KillSwitchState
        /\ UNCHANGED <<today, recorded, straddled>>
    BY <1>7 DEF Crash, CrashInFlush, Stop, KillSwitchState
  <2>. QED  BY <2>1, <2>2, <2>3, <2>4
<1>8. CASE Restart
  BY <1>8, LoadType DEF Restart, haltVars
<1>9. CASE UNCHANGED vars
  BY <1>9 DEF vars, ledgerVars, haltVars
<1>. QED  BY <1>1, <1>2, <1>3, <1>4, <1>5, <1>6, <1>7, <1>8, <1>9
          DEF Next

\* The first state is well typed.
LEMMA TypeInit == Init => TypeOK
<1>. SUFFICES ASSUME Init  PROVE TypeOK
  OBVIOUS
<1>1. Empty \in Account
  BY BoundAssumption DEF Empty, Account
<1>2. 1 \in Day /\ 0 \in 0..Days /\ 0 \in 0..MaxTorn
  BY BoundAssumption DEF Day
<1>3. calls \in [Thread -> 0..Days] /\ recorded \in [Day -> Nat]
  BY <1>2 DEF Init
<1>. QED  BY <1>1, <1>2, <1>3 DEF Init, TypeOK, KillSwitchState

\* Every reachable state of the ledger, the callers, the watcher and the
\* midnight job is well typed.
THEOREM TypeCorrect == Spec => []TypeOK
<1>1. TypeOK /\ [Next]_vars => TypeOK'
  BY TypeStep
<1>. QED  BY <1>1, TypeInit, PTL DEF Spec

-----------------------------------------------------------------------------
(* What the day costs *)

\* Steps of the watcher, the job and the other writers of the switch leave the
\* account as it is.
LEMMA ExactUnrelated ==
  ASSUME BudgetInv,
         UNCHANGED <<up, today, ledger, file, calls, recorded, straddled, torn>>
  PROVE  BudgetInv'
BY DEF BudgetInv, Exact, InFlight

\* A call is let in while the day is below its limit, which leaves room for all
\* calls that can be under way.
LEMMA ExactStartCall ==
  ASSUME TypeOK, TypeOK', BudgetInv, NEW t \in Thread, StartCall(t)
  PROVE  BudgetInv'
<1>. SUFFICES ASSUME ~straddled, torn = 0  PROVE Exact'
  BY DEF BudgetInv, StartCall, ledgerVars
<1>1. /\ up /\ ledger.total < Limit
      /\ UNCHANGED <<up, today, ledger, file, recorded>>
  BY DEF StartCall, ledgerVars
<1>2. Exact
  BY DEF BudgetInv
<1>3. recorded[today] \in Nat /\ recorded[today] < Limit
  BY <1>1, <1>2, LimitAssumption DEF Exact, TypeOK, Account
<1>4. (\A paid \in Nat :
         paid < Limit => paid + MaxCost * Cardinality(InFlight) <= MostSpent)'
  BY MostSpentType, PTL
<1>5. recorded[today] + MaxCost * Cardinality(InFlight') <= MostSpent
  BY <1>3, <1>4 DEF MostSpent
<1>. QED  BY <1>1, <1>2, <1>5 DEF Exact, MostSpent

\* A call that fails makes room.
LEMMA ExactCallFails ==
  ASSUME TypeOK, BudgetInv, NEW t \in Thread, CallFails(t)
  PROVE  BudgetInv'
<1>. SUFFICES ASSUME ~straddled, torn = 0  PROVE Exact'
  BY DEF BudgetInv, CallFails, ledgerVars
<1>1. /\ t \in InFlight /\ InFlight' = InFlight \ {t}
      /\ UNCHANGED <<up, today, ledger, file, recorded>>
  BY DEF CallFails, InFlight, TypeOK, ledgerVars
<1>2. Exact
  BY DEF BudgetInv
<1>3. /\ Cardinality(InFlight') \in Nat
      /\ Cardinality(InFlight') <= Cardinality(InFlight)
  <2>1. /\ Cardinality(InFlight) \in Nat \ {0}
        /\ Cardinality(InFlight') = Cardinality(InFlight) - 1
    BY <1>1, InFlightSize, FS_RemoveElement, FS_EmptySet
  <2>. QED  BY <2>1
<1>4. MaxCost * Cardinality(InFlight') <= MaxCost * Cardinality(InFlight)
  BY <1>3, InFlightSize, LimitAssumption, TimesMonotone
<1>5. MaxCost * Cardinality(InFlight') \in Nat
  BY <1>3, InFlightSize, LimitAssumption, TimesMonotone
<1>6. recorded[today] + MaxCost * Cardinality(InFlight') <= MostSpent
  BY <1>2, <1>4, <1>5, MostSpentType DEF Exact, TypeOK
<1>. QED  BY <1>1, <1>2, <1>6 DEF Exact, MostSpent

\* A call charged to the day it began on uses the room it had.
LEMMA ExactEndCall ==
  ASSUME TypeOK, BudgetInv, NEW t \in Thread, EndCall(t)
  PROVE  BudgetInv'
<1>. SUFFICES ASSUME ~straddled', torn' = 0  PROVE Exact'
  BY DEF BudgetInv
<1>1. /\ ~straddled /\ torn = 0 /\ up /\ calls[t] = today
      /\ t \in InFlight /\ InFlight' = InFlight \ {t}
      /\ UNCHANGED <<up, today>>
  BY DEF EndCall, InFlight, TypeOK
<1>2. Exact
  BY <1>1 DEF BudgetInv
<1>3. PICK cost \in 1..MaxCost :
        /\ ledger' = RecordSpend(ledger, today, cost)
        /\ file' = ledger'
        /\ recorded' = [recorded EXCEPT ![today] = @ + cost]
  BY <1>1 DEF EndCall
<1>4. /\ today \in Day /\ today \in Nat /\ recorded[today] \in Nat
      /\ ledger \in Account /\ cost \in Nat /\ cost <= MaxCost
  BY <1>3, LimitAssumption, BoundAssumption DEF TypeOK, Day
<1>5. /\ ledger'.day = today
      /\ ledger'.total = (IF ledger.day = today THEN ledger.total ELSE 0) + cost
  BY <1>3, <1>4, RecordSpendType
<1>6. /\ recorded'[today] = recorded[today] + cost
      /\ \A d \in Day : d # today => recorded'[d] = recorded[d]
  BY <1>3, <1>4 DEF TypeOK
<1>7. ledger'.total = recorded'[today]
  BY <1>1, <1>2, <1>5, <1>6 DEF Exact
<1>8. /\ Cardinality(InFlight) \in Nat \ {0}
      /\ Cardinality(InFlight') = Cardinality(InFlight) - 1
  BY <1>1, InFlightSize, FS_RemoveElement, FS_EmptySet
<1>9. /\ MaxCost * Cardinality(InFlight')
           = MaxCost * Cardinality(InFlight) - MaxCost
      /\ MaxCost * Cardinality(InFlight) \in Nat
  BY <1>8, LimitAssumption, TimesLess
<1>10. recorded'[today] + MaxCost * Cardinality(InFlight') <= MostSpent
  BY <1>2, <1>4, <1>6, <1>9, MostSpentType, LimitAssumption DEF Exact
<1>11. MaxCost * Cardinality(InFlight') \in Nat
  BY <1>8, LimitAssumption, TimesMonotone
<1>12. recorded'[today] <= MostSpent
  BY <1>4, <1>6, <1>10, <1>11, MostSpentType
<1>13. \A d \in Day : recorded'[d] <= MostSpent
  BY <1>2, <1>6, <1>12 DEF Exact
<1>14. \A d \in Day : d > today => recorded'[d] = 0
  BY <1>2, <1>4, <1>6 DEF Exact, Day
<1>. QED  BY <1>1, <1>3, <1>4, <1>5, <1>7, <1>10, <1>13, <1>14
          DEF Exact, MostSpent

\* A new day starts from nothing: calls under way have all its room.
LEMMA ExactNewDay ==
  ASSUME TypeOK, TypeOK', BudgetInv, NewDay
  PROVE  BudgetInv'
<1>. SUFFICES ASSUME ~straddled, torn = 0  PROVE Exact'
  BY DEF BudgetInv, NewDay, ledgerVars
<1>1. /\ today' = today + 1 /\ InFlight' = InFlight
      /\ UNCHANGED <<up, ledger, file, recorded>>
  BY DEF NewDay, InFlight, ledgerVars
<1>2. Exact
  BY DEF BudgetInv
<1>3. /\ today \in Nat /\ today' \in Day
      /\ ledger.day \in Nat /\ file.day \in Nat
  BY BoundAssumption DEF TypeOK, Day, Account
<1>4. recorded[today'] = 0
  BY <1>1, <1>2, <1>3 DEF Exact
<1>5. ledger.day < today' /\ file.day < today'
  BY <1>1, <1>2, <1>3 DEF Exact
<1>6. recorded[today'] + MaxCost * Cardinality(InFlight') <= MostSpent
  BY <1>1, <1>4, MostSpentType, LimitAssumption
<1>7. \A d \in Day : d > today' => recorded[d] = 0
  BY <1>1, <1>2, <1>3 DEF Exact, Day
<1>. QED  BY <1>1, <1>2, <1>3, <1>4, <1>5, <1>6, <1>7 DEF Exact, MostSpent

\* The midnight job only ever throws away another day's account.
LEMMA ExactJob ==
  ASSUME TypeOK, BudgetInv, JobResetsLedger
  PROVE  BudgetInv'
<1>. SUFFICES ASSUME ~straddled, torn = 0  PROVE Exact'
  BY DEF BudgetInv, JobResetsLedger
<1>1. /\ up /\ InFlight' = InFlight /\ UNCHANGED <<up, today, recorded>>
      /\ ledger' = ResetIfNewDay(ledger)
      /\ file' = IF ledger.day = today THEN file ELSE ledger'
  BY DEF JobResetsLedger, InFlight
<1>2. Exact
  BY DEF BudgetInv
<1>3. today \in Nat
  BY BoundAssumption DEF TypeOK, Day
<1>4. CASE ledger.day = today
  <2>1. UNCHANGED <<ledger, file>>
    BY <1>1, <1>4 DEF ResetIfNewDay
  <2>. QED  BY <1>1, <1>2, <2>1 DEF Exact, MostSpent
<1>5. CASE ledger.day # today
  <2>1. /\ ledger' = [day |-> today, total |-> 0] /\ file' = ledger'
        /\ recorded[today] = 0
    BY <1>1, <1>2, <1>5 DEF ResetIfNewDay, Exact
  <2>. QED  BY <1>1, <1>2, <1>3, <2>1 DEF Exact, MostSpent
<1>. QED  BY <1>4, <1>5

\* The process dies: the file knows what the memory knew.
LEMMA ExactCrash ==
  ASSUME TypeOK, BudgetInv, Crash
  PROVE  BudgetInv'
<1>. SUFFICES ASSUME ~straddled, torn = 0  PROVE Exact'
  BY DEF BudgetInv, Crash, Stop
<1>1. /\ ~up' /\ ledger' = Empty /\ calls' = [t \in Thread |-> 0]
      /\ UNCHANGED <<today, recorded, file>>
  BY DEF Crash, Stop
<1>2. Exact
  BY DEF BudgetInv
<1>3. /\ InFlight' = {} /\ Cardinality(InFlight') = 0
  BY <1>1, FS_EmptySet DEF InFlight
<1>4. /\ today \in Day /\ today \in Nat /\ recorded[today] \in Nat
      /\ recorded[today] <= MostSpent
  BY <1>2, BoundAssumption DEF TypeOK, Day, Exact
<1>5. recorded[today] + MaxCost * Cardinality(InFlight') <= MostSpent
  BY <1>3, <1>4, LimitAssumption
<1>6. ledger'.day <= today
  BY <1>1, <1>4 DEF Empty
<1>. QED  BY <1>1, <1>2, <1>5, <1>6 DEF Exact, MostSpent

\* The process comes back with today's file, or with nothing.
LEMMA ExactRestart ==
  ASSUME TypeOK, BudgetInv, Restart
  PROVE  BudgetInv'
<1>. SUFFICES ASSUME ~straddled, torn = 0  PROVE Exact'
  BY DEF BudgetInv, Restart
<1>1. /\ InFlight' = InFlight /\ ledger' = Load
      /\ UNCHANGED <<today, recorded, file>>
  BY DEF Restart, InFlight
<1>2. Exact
  BY DEF BudgetInv
<1>3. today \in Nat /\ today >= 1
  BY BoundAssumption DEF TypeOK, Day
<1>4. /\ ledger'.day <= today
      /\ recorded[today] = IF ledger'.day = today THEN ledger'.total ELSE 0
  BY <1>1, <1>2, <1>3 DEF Load, Empty, Exact
<1>. QED  BY <1>1, <1>2, <1>4 DEF Exact, MostSpent

\* Every step keeps the account exact.
LEMMA ExactStep ==
  ASSUME TypeOK, TypeOK', BudgetInv, [Next]_vars
  PROVE  BudgetInv'
<1>1. ASSUME NEW t \in Thread, StartCall(t) \/ CallFails(t) \/ EndCall(t)
      PROVE  BudgetInv'
  BY <1>1, ExactStartCall, ExactCallFails, ExactEndCall
<1>2. CASE \/ WatchReads \/ WatchTrips \/ WatchLatches \/ JobMisfires
           \/ JobResetsWatcher \/ JobResetsKill \/ Heartbeat \/ ReconcileOnce
           \/ UNCHANGED vars
  <2>1. UNCHANGED <<up, today, ledger, file, calls, recorded, straddled, torn>>
    BY <1>2 DEF WatchReads, WatchTrips, WatchLatches, JobMisfires,
                JobResetsWatcher, JobResetsKill, Heartbeat, ReconcileOnce,
                vars, ledgerVars
  <2>. QED  BY <2>1, ExactUnrelated
<1>3. CASE NewDay \/ JobResetsLedger \/ Crash \/ Restart
  BY <1>3, ExactNewDay, ExactJob, ExactCrash, ExactRestart
<1>4. CASE CrashInFlush
  <2>1. torn' # 0
    BY <1>4 DEF CrashInFlush, TypeOK
  <2>. QED  BY <2>1 DEF BudgetInv
<1>. QED  BY <1>1, <1>2, <1>3, <1>4 DEF Next

\* Nothing is spent at first.
LEMMA ExactInit == Init => BudgetInv
<1>. SUFFICES ASSUME Init  PROVE Exact
  BY DEF BudgetInv
<1>1. 1 \in Day
  BY BoundAssumption DEF Day
<1>2. recorded[today] = 0 /\ \A d \in Day : recorded[d] = 0
  BY <1>1 DEF Init
<1>3. /\ recorded[today] + MaxCost * Cardinality(InFlight) <= MostSpent
      /\ \A d \in Day : recorded[d] <= MostSpent
  BY <1>2, MostSpentType, LimitAssumption
<1>. QED  BY <1>2, <1>3 DEF Init, Exact, Empty

\* The inductive invariant of the cap: memory, file and history agree on the
\* day, and the calls under way fit into the room it has left.
THEOREM Invariant == Spec => []BudgetInv
<1>1. TypeOK /\ TypeOK' /\ BudgetInv /\ [Next]_vars => BudgetInv'
  BY ExactStep
<1>. QED  BY <1>1, TypeCorrect, ExactInit, PTL DEF Spec

\* However calls overlap between the budget check and the recording of their
\* cost, a day costs at most one call of each thread beyond its limit.
THEOREM CapHolds == Spec => []SpendIsBounded
<1>1. BudgetInv => SpendIsBounded
  BY DEF BudgetInv, Exact, SpendIsBounded
<1>. QED  BY <1>1, Invariant, PTL

\* A restart, at any moment but inside a file write, takes up the day's total
\* where the ledger left it.
THEOREM RestartKeepsTotal == Spec => []CapSurvivesRestart
<1>1. BudgetInv => CapSurvivesRestart
  BY DEF BudgetInv, Exact, CapSurvivesRestart
<1>. QED  BY <1>1, Invariant, PTL

-----------------------------------------------------------------------------
(* Days and buckets *)

\* What division gives.
LEMMA DivisionIs ==
  ASSUME NEW n \in Nat \ {0}, NEW t \in Nat
  PROVE  t \div n \in Nat /\ n * (t \div n) <= t /\ t < n * (t \div n) + n
OBVIOUS

\* A product of the larger number is larger, by a whole factor.
LEMMA ProductGrows ==
  ASSUME NEW n \in Nat, NEW a \in Nat, NEW b \in Nat, a < b
  PROVE  n * a + n <= n * b /\ n * a \in Nat /\ n * b \in Nat
<1>1. n * b = n * a + n * (b - a) /\ n * (b - a) = n + n * (b - a - 1)
  OBVIOUS
<1>2. n * (b - a - 1) \in Nat /\ n * a \in Nat /\ n * b \in Nat
  OBVIOUS
<1> QED
  BY <1>1, <1>2

\* Later is not on an earlier day.
LEMMA DivisionGrows ==
  ASSUME NEW n \in Nat \ {0}, NEW t \in Nat, NEW u \in Nat, t <= u
  PROVE  t \div n <= u \div n
<1> DEFINE a == t \div n
           b == u \div n
<1>1. /\ a \in Nat /\ b \in Nat /\ n * a <= t /\ t < n * a + n
      /\ n * b <= u /\ u < n * b + n
  BY DivisionIs
<1> HIDE DEF a, b
<1>2. b < a => n * b + n <= n * a /\ n * a \in Nat /\ n * b \in Nat
  BY <1>1, ProductGrows
<1>3. a <= b
  BY <1>1, <1>2
<1> QED
  BY <1>3 DEF a, b

\* A day is a number of buckets.
LEMMA DayOfBuckets ==
  ASSUME NEW n \in Nat \ {0}, NEW c \in Nat \ {0}, NEW t \in Nat, NEW u \in Nat,
         t \div n = u \div n
  PROVE  ~(t \div (n * c) < u \div (n * c))
<1> DEFINE d == n * c
           a == t \div d
           b == u \div d
           k == t \div n
<1>1. d \in Nat \ {0}
  OBVIOUS
<1> HIDE DEF d
<1>2. /\ a \in Nat /\ b \in Nat /\ k \in Nat /\ t < d * a + d /\ d * b <= u
      /\ n * k <= t /\ u < n * k + n
  BY <1>1, DivisionIs
<1> HIDE DEF a, b, k
<1> SUFFICES ASSUME a < b PROVE FALSE
  BY DEF a, b, d
<1>3. d * a + d <= d * b /\ d * a \in Nat /\ d * b \in Nat
  BY <1>1, <1>2, ProductGrows
<1>4. d * b = n * (c * b) /\ c * b \in Nat
  BY <1>2 DEF d
<1>5. t < n * (c * b) /\ n * (c * b) <= u
  BY <1>1, <1>2, <1>3, <1>4
<1> DEFINE e == c * b
<1>6. e \in Nat /\ t < n * e /\ n * e <= u
  BY <1>4, <1>5
<1> HIDE DEF e
<1>7. k < e
  <2>1. e < k => n * e + n <= n * k /\ n * e \in Nat /\ n * k \in Nat
    BY <1>2, <1>6, ProductGrows
  <2>2. n * e \in Nat /\ n * k \in Nat
    BY <1>2, <1>6
  <2> QED
    BY <1>2, <1>6, <2>1, <2>2
<1>8. n * k + n <= n * e /\ n * k \in Nat /\ n * e \in Nat
  BY <1>2, <1>6, <1>7, ProductGrows
<1> QED
  BY <1>2, <1>6, <1>8

\* The rows of a bucket are of one day.
LEMMA BucketsAreInDays ==
  ASSUME NEW t \in Nat, NEW u \in Nat, BucketOf(t) = BucketOf(u)
  PROVE  DayOf(t) = DayOf(u)
<1>1. BucketLen \in Nat \ {0} /\ DayLen \in Nat \ {0} /\ DayLen % BucketLen = 0
  BY SnapshotsAssumption
<1> DEFINE c == DayLen \div BucketLen
<1>2. DayLen = BucketLen * c + (DayLen % BucketLen) /\ c \in Nat
  BY <1>1
<1> HIDE DEF c
<1>3. DayLen = BucketLen * c /\ c # 0
  BY <1>1, <1>2
<1>4. ~(DayOf(t) < DayOf(u)) /\ ~(DayOf(u) < DayOf(t))
  BY <1>1, <1>2, <1>3, DayOfBuckets DEF DayOf, BucketOf
<1>5. DayOf(t) \in Nat /\ DayOf(u) \in Nat
  BY <1>1, DivisionIs DEF DayOf
<1> QED
  BY <1>4, <1>5

-----------------------------------------------------------------------------
(* The snapshots *)

\* The row in the making is a record; while it is not written it is the latest.
TickTypes ==
  /\ DOMAIN tick = {"at", "ts", "nav", "listed"}
  /\ tick = [f \in {"at", "ts", "nav", "listed"} |-> tick[f]]
  /\ minute \in Nat /\ tick.ts \in -1..minute

\* What is stored was written, at a time gone by; of what is being made nothing
\* is.  A NAV is stored as long as its row.
Stored ==
  /\ DOMAIN rows = Table /\ rows = [k \in Table |-> rows[k]]
  /\ DOMAIN written = Table /\ written = [k \in Table |-> written[k]]
  /\ \A k \in Table : /\ rows[k] \subseteq written[k] /\ written[k] \subseteq 0..tick.ts
                      /\ tick.at \in {"account", "positions", "mark", "write"} =>
                           tick.ts \notin written[k] /\ tick.ts = minute
  /\ withNav \subseteq written["equity"] /\ navs = withNav \cap rows["equity"]
  /\ prunedOn \in Nat /\ prunedOn <= DayOf(minute)

\* What a prune of table R, with W ever written, may not have taken by day d.
KeptOf(R, W, d) ==
  \A t \in W : /\ d - DayOf(t) <= FullDays => t \in R
               /\ d - DayOf(t) <= KeptDays => FirstOfBucket(W, t) \in R

\* What one on day d has left.
LeftOf(R, W, d) ==
  \A t \in R : /\ d - DayOf(t) <= KeptDays
               /\ d - DayOf(t) > FullDays => t = FirstOfBucket(W, t)

SnapInv ==
  /\ TickTypes /\ Stored
  /\ \A k \in Table : /\ KeptOf(rows[k], written[k], DayOf(minute))
                      /\ LeftOf(rows[k], written[k], prunedOn)

\* The first row of a bucket.
LEMMA FirstIsFirst ==
  ASSUME NEW W, IsFiniteSet(W), W \subseteq Nat, NEW t \in W
  PROVE  /\ FirstOfBucket(W, t) \in W
         /\ BucketOf(FirstOfBucket(W, t)) = BucketOf(t)
         /\ \A u \in W : BucketOf(u) = BucketOf(t) => FirstOfBucket(W, t) <= u
         /\ DayOf(FirstOfBucket(W, t)) = DayOf(t)
<1> DEFINE B == {u \in W : BucketOf(u) = BucketOf(t)}
           m == Min(B)
<1>1. IsFiniteSet(B)
  BY FS_Subset
<1>2. t \in B /\ B \subseteq Int
  <2>1. B \subseteq W /\ W \subseteq Int
    OBVIOUS
  <2>2. t \in B
    OBVIOUS
  <2> QED
    BY <2>1, <2>2
<1> HIDE DEF B
<1>3. m \in B /\ \A u \in B : m <= u
  BY <1>1, <1>2, MinIsSmallest
<1> HIDE DEF m
<1>4. /\ m \in W /\ BucketOf(m) = BucketOf(t)
      /\ \A u \in W : BucketOf(u) = BucketOf(t) => m <= u
  BY <1>3 DEF B
<1>5. m \in Nat /\ t \in Nat
  BY <1>4
<1>6. DayOf(m) = DayOf(t)
  BY <1>4, <1>5, BucketsAreInDays
<1>7. FirstOfBucket(W, t) = m
  BY DEF FirstOfBucket, m, B
<1> QED
  BY <1>4, <1>6, <1>7

\* What is first in its bucket.
LEMMA FirstIsUnique ==
  ASSUME NEW W, IsFiniteSet(W), W \subseteq Nat, NEW t \in W, NEW f \in W,
         BucketOf(f) = BucketOf(t),
         \A u \in W : BucketOf(u) = BucketOf(t) => f <= u
  PROVE  FirstOfBucket(W, t) = f
<1> DEFINE g == FirstOfBucket(W, t)
<1>1. /\ g \in W /\ BucketOf(g) = BucketOf(t)
      /\ \A u \in W : BucketOf(u) = BucketOf(t) => g <= u
  BY FirstIsFirst
<1> HIDE DEF g
<1>2. g <= f /\ f <= g /\ g \in Int /\ f \in Int
  BY <1>1
<1>3. g = f
  BY <1>2
<1> QED
  BY <1>3 DEF g

\* The day of a time.
LEMMA DayIsNat == \A t \in Nat : DayOf(t) \in Nat
BY SnapshotsAssumption, DivisionIs DEF DayOf

\* And what is later is on no earlier day.
LEMMA LaterIsNoEarlierDay == \A t, u \in Nat : t <= u => DayOf(t) <= DayOf(u)
BY SnapshotsAssumption, DivisionGrows DEF DayOf

\* A row of now is added to what was there before.
LEMMA AddingKeeps ==
  ASSUME NEW R, NEW W, NEW n \in Nat, NEW p \in Nat, p <= DayOf(n),
         R \subseteq W, W \subseteq 0..n, n \notin W,
         KeptOf(R, W, DayOf(n)), LeftOf(R, W, p)
  PROVE  /\ KeptOf(R \cup {n}, W \cup {n}, DayOf(n))
         /\ LeftOf(R \cup {n}, W \cup {n}, p)
<1> DEFINE V == W \cup {n}
           D == DayOf(n)
<1>f. IsFiniteSet(0..n) /\ IsFiniteSet(W) /\ IsFiniteSet(V) /\ V \subseteq Nat /\ W \subseteq Nat
  <2>1. n \in Int /\ 0 \in Int
    OBVIOUS
  <2>2. IsFiniteSet(0..n)
    BY <2>1, FS_Interval
  <2>3. IsFiniteSet(W)
    BY <2>2, FS_Subset
  <2> QED
    BY <2>2, <2>3, FS_AddElement
<1>1. V \subseteq 0..n /\ W \subseteq V /\ n \in V /\ n \in Int /\ D \in Nat
  BY DayIsNat
<1>a. FullDays \in Nat /\ KeptDays \in Nat
  BY SnapshotsAssumption
<1>2. \A t \in V : DayOf(t) \in Nat /\ DayOf(t) <= D
  BY <1>1, DayIsNat, LaterIsNoEarlierDay
<1>3. ASSUME NEW t \in W PROVE FirstOfBucket(V, t) = FirstOfBucket(W, t)
  <2> DEFINE f == FirstOfBucket(W, t)
  <2>1. /\ f \in W /\ BucketOf(f) = BucketOf(t)
        /\ \A u \in W : BucketOf(u) = BucketOf(t) => f <= u
    BY <1>f, FirstIsFirst
  <2> HIDE DEF f
  <2>2. f \in V /\ t \in V /\ \A u \in V : BucketOf(u) = BucketOf(t) => f <= u
    BY <2>1
  <2> HIDE DEF V
  <2>3. FirstOfBucket(V, t) = f
    BY <1>f, <2>1, <2>2, FirstIsUnique
  <2> QED
    BY <2>3 DEF f
<1>4. FirstOfBucket(V, n) \in V /\ DayOf(FirstOfBucket(V, n)) = D
  BY <1>f, <1>1, FirstIsFirst
<1>5. ASSUME NEW t \in V, D - DayOf(t) <= FullDays PROVE t \in R \cup {n}
  BY <1>5 DEF KeptOf
<1>6. FirstOfBucket(V, n) \in R \cup {n}
  <2>1. D - DayOf(FirstOfBucket(V, n)) <= FullDays
    BY <1>1, <1>4, <1>a
  <2> HIDE DEF V, D
  <2> QED
    BY <1>4, <1>5, <2>1
<1>7. ASSUME NEW t \in V, D - DayOf(t) <= KeptDays
      PROVE  FirstOfBucket(V, t) \in R \cup {n}
  <2>1. t \in W => FirstOfBucket(W, t) \in R
    BY <1>7 DEF KeptOf
  <2>2. t \in W \/ t = n
    OBVIOUS
  <2> HIDE DEF V, D
  <2> QED
    BY <1>3, <1>6, <2>1, <2>2
<1>8. KeptOf(R \cup {n}, V, D)
  BY <1>5, <1>7 DEF KeptOf
<1>9. ASSUME NEW t \in R \cup {n}
      PROVE  /\ p - DayOf(t) <= KeptDays
             /\ p - DayOf(t) > FullDays => t = FirstOfBucket(V, t)
  <2>1. CASE t = n
    <3>1. p - D <= 0 /\ p - D \in Int
      BY <1>1
    <3> HIDE DEF D, V
    <3>2. p - D <= KeptDays /\ ~(p - D > FullDays)
      BY <1>a, <3>1
    <3> QED
      BY <2>1, <3>2 DEF D
  <2>2. CASE t \in R
    <3>1. t \in W /\ FirstOfBucket(V, t) = FirstOfBucket(W, t)
      BY <1>3, <2>2
    <3> QED
      BY <2>2, <3>1 DEF LeftOf
  <2> QED
    BY <2>1, <2>2
<1>10. LeftOf(R \cup {n}, V, p)
  BY <1>9 DEF LeftOf
<1> QED
  BY <1>8, <1>10

\* A prune takes only what it may, and leaves no more.
LEMMA PruningKeeps ==
  ASSUME NEW R, NEW W, minute \in Nat, R \subseteq W, W \subseteq 0..minute,
         KeptOf(R, W, DayOf(minute))
  PROVE  /\ KeptOf(Retained(R), W, DayOf(minute))
         /\ LeftOf(Retained(R), W, DayOf(minute))
         /\ Retained(R) \subseteq R
<1> DEFINE D == DayOf(minute)
           kept == R \ Older(R, KeptDays)
           O == Older(kept, FullDays)
<1>1. D \in Nat /\ FullDays \in Nat /\ KeptDays \in Nat /\ FullDays <= KeptDays
  BY DayIsNat, SnapshotsAssumption
<1>2. \A t \in W : t \in Nat /\ DayOf(t) \in Nat
  BY DayIsNat
<1>f. IsFiniteSet(W) /\ IsFiniteSet(O) /\ W \subseteq Nat /\ O \subseteq Nat
  <2>1. 0 \in Int /\ minute \in Int
    OBVIOUS
  <2>2. IsFiniteSet(0..minute)
    BY <2>1, FS_Interval
  <2>3. IsFiniteSet(W) /\ O \subseteq W
    BY <2>2, FS_Subset DEF Older
  <2>4. IsFiniteSet(O)
    BY <2>3, FS_Subset
  <2>5. W \subseteq Nat
    OBVIOUS
  <2> HIDE DEF O
  <2> QED
    BY <2>3, <2>4, <2>5
<1>3. \A t \in R : t \in kept <=> D - DayOf(t) <= KeptDays
  BY <1>1, <1>2 DEF Older
<1>4. \A t \in kept : t \in O <=> D - DayOf(t) > FullDays
  BY <1>1, <1>2 DEF Older
<1>5. /\ Retained(R) = {t \in kept : t \in O => t = FirstOfBucket(O, t)}
      /\ O \subseteq kept /\ kept \subseteq R
  BY DEF Retained, Thinned, Older
<1> HIDE DEF D, kept, O
<1>6. ASSUME NEW t \in W, D - DayOf(t) <= KeptDays, D - DayOf(t) > FullDays
      PROVE  /\ FirstOfBucket(W, t) \in O
             /\ t \in O => FirstOfBucket(O, t) = FirstOfBucket(W, t)
             /\ FirstOfBucket(O, FirstOfBucket(W, t)) = FirstOfBucket(W, t)
  <2> DEFINE f == FirstOfBucket(W, t)
  <2>1. /\ f \in W /\ BucketOf(f) = BucketOf(t) /\ DayOf(f) = DayOf(t)
        /\ \A u \in W : BucketOf(u) = BucketOf(t) => f <= u
    BY <1>f, FirstIsFirst
  <2>2. f \in R
    BY <1>6 DEF KeptOf, D
  <2> HIDE DEF f
  <2>3. f \in kept
    BY <1>3, <1>6, <2>1, <2>2
  <2>4. f \in O
    BY <1>4, <1>6, <2>1, <2>3
  <2>5. \A u \in O : BucketOf(u) = BucketOf(t) => f <= u
    BY <1>5, <2>1
  <2>6. t \in O => FirstOfBucket(O, t) = f
    BY <1>f, <2>1, <2>4, <2>5, FirstIsUnique
  <2>7. FirstOfBucket(O, f) = f
    <3>1. \A u \in O : BucketOf(u) = BucketOf(f) => f <= u
      BY <2>1, <2>5
    <3> QED
      BY <1>f, <2>4, <3>1, FirstIsUnique
  <2> QED
    BY <2>4, <2>6, <2>7 DEF f
<1>7. ASSUME NEW t \in W, D - DayOf(t) <= FullDays PROVE t \in Retained(R)
  <2>1. t \in R
    BY <1>7 DEF KeptOf, D
  <2>2. D - DayOf(t) <= KeptDays /\ ~(D - DayOf(t) > FullDays)
    BY <1>1, <1>2, <1>7
  <2> QED
    BY <1>3, <1>4, <1>5, <2>1, <2>2
<1>8. ASSUME NEW t \in W, D - DayOf(t) <= KeptDays
      PROVE  FirstOfBucket(W, t) \in Retained(R)
  <2>1. CASE D - DayOf(t) > FullDays
    BY <1>5, <1>6, <1>8, <2>1
  <2>2. CASE ~(D - DayOf(t) > FullDays)
    <3>1. FirstOfBucket(W, t) \in W /\ DayOf(FirstOfBucket(W, t)) = DayOf(t)
      BY <1>f, FirstIsFirst
    <3>2. D - DayOf(t) <= FullDays
      BY <1>1, <1>2, <2>2
    <3> QED
      BY <1>7, <3>1, <3>2
  <2> QED
    BY <2>1, <2>2
<1>9. ASSUME NEW t \in Retained(R)
      PROVE  /\ D - DayOf(t) <= KeptDays
             /\ D - DayOf(t) > FullDays => t = FirstOfBucket(W, t)
  <2>1. t \in kept /\ t \in R /\ t \in W /\ (t \in O => t = FirstOfBucket(O, t))
    BY <1>5
  <2>2. D - DayOf(t) <= KeptDays
    BY <1>3, <2>1
  <2> QED
    BY <1>4, <1>6, <2>1, <2>2
<1>10. KeptOf(Retained(R), W, D) /\ LeftOf(Retained(R), W, D)
  BY <1>7, <1>8, <1>9 DEF KeptOf, LeftOf
<1> QED
  BY <1>5, <1>10 DEF D

\* The prune of an older day has left no less.
LEMMA LaterKeeps ==
  ASSUME NEW R, NEW W, NEW d \in Nat, NEW e \in Nat, d <= e, W \subseteq Nat,
         KeptOf(R, W, d)
  PROVE  KeptOf(R, W, e)
<1>1. FullDays \in Nat /\ KeptDays \in Nat /\ \A t \in W : DayOf(t) \in Nat
  BY SnapshotsAssumption, DayIsNat
<1>2. ASSUME NEW t \in W, NEW n \in Nat, e - DayOf(t) <= n PROVE d - DayOf(t) <= n
  BY <1>1, <1>2
<1> QED
  BY <1>1, <1>2 DEF KeptOf

\* A step that leaves the tables alone and starts no row.
LEMMA TablesStay ==
  ASSUME SnapInv, TickTypes', UNCHANGED <<tables, prunedOn>>,
         tick'.ts = tick.ts, minute' \in {minute, minute + 1},
         tick'.at \in {"account", "positions", "mark", "write"} =>
           tick.at \in {"account", "positions", "mark", "write"} /\ minute' = minute
  PROVE  SnapInv'
<1>1. minute \in Nat /\ minute' \in Nat /\ minute <= minute'
  BY DEF SnapInv, TickTypes
<1>2. DayOf(minute) \in Nat /\ DayOf(minute') \in Nat /\ DayOf(minute) <= DayOf(minute')
  BY <1>1, DayIsNat, LaterIsNoEarlierDay
<1>3. /\ rows' = rows /\ written' = written /\ navs' = navs /\ withNav' = withNav
      /\ prunedOn' = prunedOn
  BY DEF tables
<1>4. Stored'
  BY <1>1, <1>2, <1>3 DEF SnapInv, Stored, DayOf
<1>5. ASSUME NEW k \in Table
      PROVE  KeptOf(rows[k], written[k], DayOf(minute'))
  <2>1. written[k] \subseteq Nat
    BY DEF SnapInv, Stored
  <2>2. KeptOf(rows[k], written[k], DayOf(minute))
    BY DEF SnapInv
  <2> QED
    BY <1>2, <2>1, <2>2, LaterKeeps
<1>6. \A k \in Table : KeptOf(rows'[k], written'[k], DayOf(minute'))
  BY <1>3, <1>5
<1>7. \A k \in Table : LeftOf(rows'[k], written'[k], prunedOn')
  BY <1>3 DEF SnapInv
<1> QED
  BY <1>4, <1>6, <1>7 DEF SnapInv, KeptOf, LeftOf, FirstOfBucket, DayOf, BucketOf

\* The steps that leave the tables alone.
LEMMA QuietKeeps ==
  ASSUME SnapInv,
         \/ AccountAnswers \/ PositionsAnswer \/ BrokerCallFails \/ MarkSleeves
         \/ TrackerNeverReturns \/ Minute \/ Outage \/ Trade \/ EndProcess \/ StartProcess
  PROVE  SnapInv'
<1>1. TickTypes
  BY DEF SnapInv
<1>2. CASE \/ AccountAnswers \/ PositionsAnswer \/ BrokerCallFails
           \/ MarkSleeves \/ TrackerNeverReturns
  <2>1. /\ DOMAIN tick' = {"at", "ts", "nav", "listed"}
        /\ tick' = [f \in {"at", "ts", "nav", "listed"} |-> tick'[f]]
        /\ tick'.ts = tick.ts
    <3>1. CASE AccountAnswers
      BY <1>1, <3>1 DEF TickTypes, AccountAnswers
    <3>2. CASE PositionsAnswer
      BY <1>1, <3>2 DEF TickTypes, PositionsAnswer
    <3>3. CASE BrokerCallFails
      BY <1>1, <3>3 DEF TickTypes, BrokerCallFails
    <3>4. CASE MarkSleeves
      BY <1>1, <3>4 DEF TickTypes, MarkSleeves
    <3>5. CASE TrackerNeverReturns
      BY <1>1, <3>5 DEF TickTypes, TrackerNeverReturns
    <3> QED
      BY <1>2, <3>1, <3>2, <3>3, <3>4, <3>5
  <2>2. /\ UNCHANGED <<minute, tables, prunedOn>>
        /\ tick.at \in {"account", "positions", "mark"}
    BY <1>2 DEF AccountAnswers, PositionsAnswer, BrokerCallFails, MarkSleeves,
         TrackerNeverReturns, tables
  <2>3. TickTypes' /\ tick'.ts = tick.ts
    BY <1>1, <2>1, <2>2 DEF TickTypes
  <2> QED
    BY <2>2, <2>3, TablesStay
<1>3. CASE Minute
  <2>1. /\ minute' = minute + 1 /\ tick' = tick /\ UNCHANGED <<tables, prunedOn>>
        /\ tick.at \in {"off", "stuck", "idle", "prune"}
    BY <1>3 DEF Minute, tables
  <2>2. TickTypes'
    BY <1>1, <2>1 DEF TickTypes
  <2> QED
    BY <2>1, <2>2, TablesStay
<1>4. CASE Outage \/ Trade
  <2>1. UNCHANGED <<minute, tick, tables, prunedOn>>
    BY <1>4 DEF Outage, Trade, tables
  <2>2. TickTypes'
    BY <1>1, <2>1 DEF TickTypes
  <2> QED
    BY <2>1, <2>2, TablesStay
<1>5. CASE EndProcess \/ StartProcess
  <2>1. PICK at \in {"off", "idle"} : tick' = Row(at, tick.ts)
    BY <1>5 DEF EndProcess, StartProcess
  <2>2. UNCHANGED <<minute, tables, prunedOn>>
    BY <1>5 DEF EndProcess, StartProcess, tables
  <2>3. TickTypes' /\ tick'.ts = tick.ts /\ tick'.at = at
    BY <1>1, <2>1, <2>2 DEF TickTypes, Row
  <2> QED
    BY <2>1, <2>2, <2>3, TablesStay
<1> QED
  BY <1>2, <1>3, <1>4, <1>5

\* A tick starts: its row is later than every other.
LEMMA StartKeeps == SnapInv /\ StartTick => SnapInv'
<1> SUFFICES ASSUME SnapInv, StartTick PROVE SnapInv'
  OBVIOUS
<1>1. /\ tick' = Row("account", minute) /\ tick.ts < minute
      /\ UNCHANGED <<minute, rows, navs, written, withNav, prunedOn>>
  BY DEF StartTick, tables
<1>2. TickTypes' /\ tick'.ts = minute /\ minute \in Nat /\ tick.ts \in Int
  <2>1. minute \in Nat /\ tick.ts \in Int
    BY DEF SnapInv, TickTypes
  <2>2. minute \in -1..minute
    BY <2>1
  <2> QED
    BY <1>1, <2>1, <2>2 DEF TickTypes, Row
<1>3. ASSUME NEW k \in Table PROVE written[k] \subseteq 0..minute /\ minute \notin written[k]
  <2>1. written[k] \subseteq 0..tick.ts
    BY DEF SnapInv, Stored
  <2> QED
    BY <1>1, <1>2, <2>1
<1>4. Stored'
  BY <1>1, <1>2, <1>3 DEF SnapInv, Stored, DayOf
<1>5. \A k \in Table : /\ KeptOf(rows'[k], written'[k], DayOf(minute'))
                       /\ LeftOf(rows'[k], written'[k], prunedOn')
  BY <1>1 DEF SnapInv
<1> QED
  BY <1>2, <1>4, <1>5 DEF SnapInv, KeptOf, LeftOf, FirstOfBucket, DayOf, BucketOf

\* The rows are written, or none is.
LEMMA WritingKeeps == SnapInv /\ WriteRows => SnapInv'
<1> SUFFICES ASSUME SnapInv, WriteRows PROVE SnapInv'
  OBVIOUS
<1> DEFINE into == {"equity"} \cup tick.listed
           n == minute
           with == IF tick.nav THEN {n} ELSE {}
<1>1. /\ tick.ts = minute /\ minute \in Nat /\ tick.at = "write"
      /\ \A k \in Table : /\ rows[k] \subseteq written[k] /\ written[k] \subseteq 0..n
                           /\ n \notin written[k]
  <2>1. tick.at = "write"
    BY DEF WriteRows
  <2>2. "equity" \in Table /\ minute \in Nat
    BY DEF SnapInv, TickTypes, Table
  <2>3. \A k \in Table : /\ rows[k] \subseteq written[k] /\ written[k] \subseteq 0..tick.ts
                         /\ tick.ts \notin written[k] /\ tick.ts = minute
    BY <2>1 DEF SnapInv, Stored
  <2> QED
    BY <2>1, <2>2, <2>3
<1>2. TickTypes' /\ tick'.ts = tick.ts /\ tick'.at = "prune" /\ UNCHANGED <<minute, prunedOn>>
  BY DEF WriteRows, SnapInv, TickTypes
<1>3. CASE UNCHANGED <<rows, navs, written, withNav>>
  BY <1>2, <1>3, TablesStay DEF tables
<1>4. CASE /\ rows' = [k \in Table |-> IF k \in into THEN rows[k] \cup {n} ELSE rows[k]]
           /\ written' = [k \in Table |-> IF k \in into THEN written[k] \cup {n}
                                         ELSE written[k]]
           /\ navs' = navs \cup with /\ withNav' = withNav \cup with
  <2>1. ASSUME NEW k \in Table
        PROVE  \/ rows'[k] = rows[k] /\ written'[k] = written[k] /\ k # "equity"
               \/ rows'[k] = rows[k] \cup {n} /\ written'[k] = written[k] \cup {n}
    BY <1>4
  <2>2. /\ withNav \subseteq written["equity"] /\ navs = withNav \cap rows["equity"]
        /\ prunedOn \in Nat /\ prunedOn <= DayOf(minute) /\ "equity" \in Table
    BY DEF SnapInv, Stored, Table
  <2>3. /\ DOMAIN rows' = Table /\ rows' = [k \in Table |-> rows'[k]]
        /\ DOMAIN written' = Table /\ written' = [k \in Table |-> written'[k]]
    BY <1>4
  <2>4. /\ rows'["equity"] = rows["equity"] \cup {n}
        /\ written'["equity"] = written["equity"] \cup {n}
    BY <2>1, <2>2
  <2> HIDE DEF into
  <2>5. /\ withNav' \subseteq written'["equity"]
        /\ navs' = withNav' \cap rows'["equity"]
    <3>1. with \subseteq {n} /\ n \notin withNav
      BY <1>1, <2>2
    <3> HIDE DEF with, n
    <3> QED
      BY <1>4, <2>2, <2>4, <3>1
  <2>6. ASSUME NEW k \in Table
        PROVE  /\ rows'[k] \subseteq written'[k] /\ written'[k] \subseteq 0..n
               /\ KeptOf(rows'[k], written'[k], DayOf(n))
               /\ LeftOf(rows'[k], written'[k], prunedOn)
    <3>1. /\ KeptOf(rows[k], written[k], DayOf(n))
          /\ LeftOf(rows[k], written[k], prunedOn)
      BY DEF SnapInv
    <3>2. /\ rows[k] \subseteq written[k] /\ written[k] \subseteq 0..n
          /\ n \notin written[k] /\ n \in Nat
      BY <1>1
    <3> HIDE DEF n
    <3>3. /\ KeptOf(rows[k] \cup {n}, written[k] \cup {n}, DayOf(n))
          /\ LeftOf(rows[k] \cup {n}, written[k] \cup {n}, prunedOn)
      BY <2>2, <3>1, <3>2, AddingKeeps DEF n
    <3>4. n \in 0..n
      BY <3>2
    <3>5. rows[k] \cup {n} \subseteq written[k] \cup {n} /\ written[k] \cup {n} \subseteq 0..n
      BY <3>2, <3>4
    <3>6. CASE rows'[k] = rows[k] /\ written'[k] = written[k]
      BY <3>1, <3>2, <3>6
    <3>7. CASE rows'[k] = rows[k] \cup {n} /\ written'[k] = written[k] \cup {n}
      BY <3>3, <3>5, <3>7
    <3> QED
      BY <2>1, <3>6, <3>7
  <2>7. Stored'
    BY <1>1, <1>2, <2>2, <2>3, <2>5, <2>6 DEF Stored, DayOf
  <2>8. \A k \in Table : /\ KeptOf(rows'[k], written'[k], DayOf(minute'))
                         /\ LeftOf(rows'[k], written'[k], prunedOn')
    BY <1>2, <2>6
  <2> QED
    BY <1>2, <2>7, <2>8 DEF SnapInv, KeptOf, LeftOf, FirstOfBucket, DayOf, BucketOf
<1> QED
  BY <1>1, <1>3, <1>4 DEF WriteRows

\* The tables are thinned out, or not, or in vain.
LEMMA PruneKeeps == SnapInv /\ Prune => SnapInv'
<1> SUFFICES ASSUME SnapInv, Prune PROVE SnapInv'
  OBVIOUS
<1>1. /\ TickTypes' /\ tick'.ts = tick.ts /\ tick'.at = "idle" /\ minute' = minute
      /\ UNCHANGED <<written, withNav>>
  BY DEF Prune, SnapInv, TickTypes
<1>2. CASE UNCHANGED <<rows, navs, prunedOn>>
  BY <1>1, <1>2, TablesStay DEF tables
<1>3. CASE /\ rows' = [k \in Table |-> Retained(rows[k])]
           /\ navs' = navs \cap rows'["equity"]
           /\ prunedOn' = DayOf(minute)
  <2>1. /\ withNav \subseteq written["equity"] /\ navs = withNav \cap rows["equity"]
        /\ minute \in Nat /\ "equity" \in Table /\ tick.ts \in -1..minute
        /\ DOMAIN written = Table /\ written = [k \in Table |-> written[k]]
    BY DEF SnapInv, Stored, Table, TickTypes
  <2>2. ASSUME NEW k \in Table
        PROVE  /\ rows[k] \subseteq written[k] /\ written[k] \subseteq 0..tick.ts
               /\ rows'[k] \subseteq rows[k]
               /\ KeptOf(rows'[k], written[k], DayOf(minute))
               /\ LeftOf(rows'[k], written[k], DayOf(minute))
    <3>1. rows[k] \subseteq written[k] /\ written[k] \subseteq 0..tick.ts
      BY DEF SnapInv, Stored
    <3>2. written[k] \subseteq 0..minute
      BY <2>1, <3>1
    <3>3. KeptOf(rows[k], written[k], DayOf(minute))
      BY DEF SnapInv
    <3>4. /\ KeptOf(Retained(rows[k]), written[k], DayOf(minute))
          /\ LeftOf(Retained(rows[k]), written[k], DayOf(minute))
          /\ Retained(rows[k]) \subseteq rows[k]
      BY <2>1, <3>1, <3>2, <3>3, PruningKeeps
    <3>5. rows'[k] = Retained(rows[k])
      BY <1>3
    <3> QED
      BY <3>1, <3>4, <3>5
  <2>3. navs' = withNav \cap rows'["equity"]
    BY <1>3, <2>1, <2>2
  <2>4. DOMAIN rows' = Table /\ rows' = [k \in Table |-> rows'[k]]
    BY <1>3
  <2>5. DayOf(minute) \in Nat /\ DayOf(minute) <= DayOf(minute)
    BY <2>1, DayIsNat
  <2>6. Stored'
    BY <1>1, <1>3, <2>1, <2>2, <2>3, <2>4, <2>5 DEF Stored, DayOf
  <2>7. \A k \in Table : /\ KeptOf(rows'[k], written'[k], DayOf(minute'))
                         /\ LeftOf(rows'[k], written'[k], prunedOn')
    BY <1>1, <1>3, <2>2
  <2> QED
    BY <1>1, <2>6, <2>7 DEF SnapInv, KeptOf, LeftOf, FirstOfBucket, DayOf, BucketOf
<1> QED
  BY <1>2, <1>3 DEF Prune

\* The tables are empty at first.
LEMMA SnapshotsStart == InitSnap => SnapInv
<1> SUFFICES ASSUME InitSnap PROVE SnapInv
  OBVIOUS
<1>1. TickTypes
  BY DEF InitSnap, TickTypes, Row
<1>2. 0 <= DayOf(0)
  BY DayIsNat
<1>3. Stored
  BY <1>2 DEF InitSnap, Stored, Table, Row
<1>4. \A k \in Table : rows[k] = {} /\ written[k] = {}
  BY DEF InitSnap
<1> QED
  BY <1>1, <1>3, <1>4 DEF SnapInv, KeptOf, LeftOf

\* Every step of the thread and of the world keeps them as they should be.
LEMMA SnapshotsStep == SnapInv /\ [NextSnap]_snapVars => SnapInv'
<1> SUFFICES ASSUME SnapInv, [NextSnap]_snapVars PROVE SnapInv'
  OBVIOUS
<1>1. CASE UNCHANGED snapVars
  <2>1. TickTypes' /\ UNCHANGED <<tables, prunedOn, tick, minute>>
    BY <1>1 DEF snapVars, tables, SnapInv, TickTypes
  <2> QED
    BY <2>1, TablesStay DEF SnapInv, TickTypes
<1> QED
  BY <1>1, QuietKeeps, StartKeeps, WritingKeeps, PruneKeeps DEF NextSnap

\* Whatever fails and however often the process restarts, a prune takes only
\* what it may, and the day's P&L of the dashboard starts at the day's first
\* NAV (prune_old_snapshots, _nav_and_day_pnl).
THEOREM SnapshotsAreKept == SpecSnap => []HistoryIsKept
<1>1. SnapInv => HistoryIsKept
  <2> SUFFICES ASSUME SnapInv PROVE HistoryIsKept
    OBVIOUS
  <2> DEFINE D == DayOf(minute)
  <2>1. ASSUME NEW k \in Table, NEW t \in written[k]
        PROVE  /\ D - DayOf(t) <= FullDays => t \in rows[k]
               /\ D - DayOf(t) <= KeptDays => FirstOfBucket(written[k], t) \in rows[k]
    BY DEF SnapInv, KeptOf
  <2>2. ASSUME NEW k \in Table, NEW t \in rows[k]
        PROVE  /\ prunedOn - DayOf(t) <= KeptDays
               /\ prunedOn - DayOf(t) > FullDays => t = FirstOfBucket(written[k], t)
    BY DEF SnapInv, LeftOf
  <2>3. ASSUME withNav # {}, D - DayOf(Max(withNav)) <= FullDays
        PROVE  NavAndFirstOfDay(navs) = NavAndFirstOfDay(withNav)
    <3>1. /\ "equity" \in Table /\ withNav \subseteq written["equity"]
          /\ navs = withNav \cap rows["equity"] /\ minute \in Nat
          /\ written["equity"] \subseteq 0..tick.ts /\ tick.ts \in Int
      BY DEF SnapInv, Stored, TickTypes, Table
    <3>2. IsFiniteSet(withNav) /\ withNav \subseteq Int /\ IsFiniteSet(navs) /\ navs \subseteq Int
      <4>1. 0 \in Int
        OBVIOUS
      <4>2. IsFiniteSet(0..tick.ts)
        BY <3>1, <4>1, FS_Interval
      <4>3. IsFiniteSet(withNav) /\ withNav \subseteq Int
        BY <3>1, <4>2, FS_Subset
      <4> QED
        BY <3>1, <4>3, FS_Subset
    <3> DEFINE m == Max(withNav)
    <3>3. m \in withNav /\ \A t \in withNav : t <= m
      BY <2>3, <3>2, MaxIsLargest
    <3>4. \A t \in withNav : DayOf(t) = DayOf(m) => t \in navs
      BY <2>1, <2>3, <3>1
    <3>5. m \in navs /\ navs \subseteq withNav
      BY <3>1, <3>3, <3>4
    <3>6. Max(navs) = m
      <4> HIDE DEF m
      <4>1. navs # {}
        BY <3>5
      <4>2. Max(navs) \in navs /\ \A t \in navs : t <= Max(navs)
        BY <3>2, <4>1, MaxIsLargest
      <4> DEFINE x == Max(navs)
      <4>3. x \in Int /\ m \in Int /\ x <= m /\ m <= x
        BY <3>2, <3>3, <3>5, <4>2
      <4> HIDE DEF x
      <4>4. x = m
        BY <4>3
      <4> QED
        BY <4>4 DEF x
    <3>7. {t \in navs : DayOf(t) = DayOf(m)} = {t \in withNav : DayOf(t) = DayOf(m)}
      BY <3>4, <3>5
    <3> HIDE DEF m
    <3>8. navs # {} /\ withNav # {} /\ Max(withNav) = m
      BY <2>3, <3>5 DEF m
    <3> QED
      BY <3>6, <3>7, <3>8 DEF NavAndFirstOfDay
  <2> QED
    BY <2>1, <2>2, <2>3 DEF HistoryIsKept
<1> QED
  BY <1>1, SnapshotsStart, SnapshotsStep, PTL DEF SpecSnap

-----------------------------------------------------------------------------
(* The watcher and the snapshotter go on.  What ENABLED says is a hypothesis: *)
(* see WatcherCanRun and TickCanGoOn.                                        *)

\* A spent budget that is to be read, and one that was read.
Unread == up /\ ledger.total >= Limit /\ ~tripped /\ watch = "idle"
BeingTripped == up /\ ledger.total >= Limit /\ watch = "trip"
Answered == kill = "BUDGET_EXHAUSTED" \/ ledger.total < Limit \/ ~up

\* A spent budget stays so until it is read or answered for.
LEMMA UnreadStays ==
  TypeOK /\ TypeOK' /\ Unread /\ [Next]_vars => (Unread \/ BeingTripped \/ Answered)'
<1> SUFFICES ASSUME TypeOK, TypeOK', Unread, [Next]_vars, ~Answered'
             PROVE  (Unread \/ BeingTripped)'
  OBVIOUS
<1>1. up' /\ ledger'.total >= Limit
  <2>1. ledger'.total \in Nat /\ Limit \in Nat
    BY LimitAssumption DEF TypeOK, Account
  <2> QED
    BY <2>1 DEF Answered, TypeOK
<1>2. (watch' = "idle" /\ ~tripped') \/ watch' = "trip"
  BY <1>1 DEF Unread, Next, StartCall, CallFails, EndCall, WatchReads, WatchTrips, WatchLatches,
     NewDay, JobMisfires, JobResetsLedger, JobResetsWatcher, JobResetsKill, Heartbeat,
     ReconcileOnce, Crash, CrashInFlush, Restart, Stop, vars, haltVars
<1> QED
  BY <1>1, <1>2 DEF Unread, BeingTripped

\* And once read, until it is answered for.
LEMMA BeingTrippedStays ==
  TypeOK' /\ BeingTripped /\ [Next]_vars => (BeingTripped \/ Answered)'
<1> SUFFICES ASSUME TypeOK', BeingTripped, [Next]_vars, ~Answered'
             PROVE  BeingTripped'
  OBVIOUS
<1>1. up' /\ ledger'.total >= Limit
  <2>1. ledger'.total \in Nat /\ Limit \in Nat
    BY LimitAssumption DEF TypeOK, Account
  <2> QED
    BY <2>1 DEF Answered, TypeOK
<1>2. watch' = "trip"
  BY <1>1 DEF Answered, BeingTripped, Next, StartCall, CallFails, EndCall, WatchReads, WatchTrips,
     WatchLatches, NewDay, JobMisfires, JobResetsLedger, JobResetsWatcher, JobResetsKill, Heartbeat,
     ReconcileOnce, Crash, CrashInFlush, Restart, Stop, vars, haltVars
<1> QED
  BY <1>1, <1>2 DEF BeingTripped

\* ExhaustionTrips: a spent budget trips the kill switch, for any threads, costs
\* and crashes, as long as the watcher's thread runs (BudgetWatcher.check_once).
THEOREM SpentBudgetTrips == LiveSpec /\ []WatcherCanRun => ExhaustionTrips
<1>1. LiveSpec => []TypeOK
  BY TypeCorrect, PTL DEF LiveSpec
<1>2. Unread /\ <<WatchReads>>_vars => BeingTripped'
  BY DEF Unread, BeingTripped, WatchReads, ledgerVars
<1>3. BeingTripped /\ <<WatchTrips>>_vars => Answered'
  BY DEF Answered, WatchTrips
<1>4. WatcherCanRun => /\ Unread => ENABLED <<WatchReads>>_vars
                       /\ BeingTripped => ENABLED <<WatchTrips>>_vars
  BY DEF WatcherCanRun, Unread, BeingTripped
<1>5. LiveSpec /\ []WatcherCanRun => (Unread ~> Answered)
  BY <1>1, <1>2, <1>3, <1>4, UnreadStays, BeingTrippedStays, PTL DEF LiveSpec, Spec
<1> QED
  BY <1>5, PTL DEF ExhaustionTrips, Unread, Answered

\* The tick is at a stage; or it has come past its write, or is over, or in the
\* tracker for ever.
AtStage(s) == tick.at = s
TickEnds == tick.at \in {"prune", "off", "stuck"}

\* A step of the thread goes on to the next stage.
LEMMA TickAdvances ==
  ASSUME DOMAIN tick = {"at", "ts", "nav", "listed"}, TickStep
  PROVE  /\ AtStage("account") => AtStage("positions")'
         /\ AtStage("positions") => AtStage("mark")'
         /\ AtStage("mark") => (AtStage("write") \/ TickEnds)'
         /\ AtStage("write") => TickEnds'
<1>1. CASE StartTick
  BY <1>1 DEF StartTick, AtStage
<1>2. CASE AccountAnswers
  BY <1>2 DEF AccountAnswers, AtStage
<1>3. CASE PositionsAnswer
  BY <1>3 DEF PositionsAnswer, AtStage
<1>4. CASE BrokerCallFails
  BY <1>4 DEF BrokerCallFails, AtStage
<1>5. CASE MarkSleeves
  BY <1>5 DEF MarkSleeves, AtStage
<1>6. CASE WriteRows
  BY <1>6 DEF WriteRows, AtStage, TickEnds
<1>7. CASE Prune
  BY <1>7 DEF Prune, AtStage
<1>8. CASE TrackerNeverReturns
  BY <1>8 DEF TrackerNeverReturns, AtStage, TickEnds
<1> QED
  BY <1>1, <1>2, <1>3, <1>4, <1>5, <1>6, <1>7, <1>8 DEF TickStep

\* What else happens leaves the tick where it is, or ends the process.
LEMMA TickStays ==
  ASSUME DOMAIN tick = {"at", "ts", "nav", "listed"}, [NextSnap]_snapVars
  PROVE  /\ AtStage("account") => (AtStage("account") \/ AtStage("positions") \/ TickEnds)'
         /\ AtStage("positions") => (AtStage("positions") \/ AtStage("mark") \/ TickEnds)'
         /\ AtStage("mark") => (AtStage("mark") \/ AtStage("write") \/ TickEnds)'
         /\ AtStage("write") => (AtStage("write") \/ TickEnds)'
<1>1. CASE TickStep
  BY <1>1, TickAdvances
<1>2. CASE Minute \/ Outage \/ Trade \/ UNCHANGED snapVars
  BY <1>2 DEF Minute, Outage, Trade, snapVars, AtStage
<1>3. CASE EndProcess
  BY <1>3 DEF EndProcess, Row, TickEnds
<1>4. CASE StartProcess
  BY <1>4 DEF StartProcess, AtStage
<1> QED
  BY <1>1, <1>2, <1>3, <1>4 DEF NextSnap, TickStep

\* BrokerCannotStopTicks: every tick comes past its calls of the broker to its
\* write, for any outages, trades and failed writes, unless the process ends or
\* the tracker never returns (_call_with_timeout).
THEOREM TicksOutliveTheBroker == SpecSnap /\ []TickCanGoOn => BrokerCannotStopTicks
<1> DEFINE F == DOMAIN tick = {"at", "ts", "nav", "listed"}
<1>1. SpecSnap => []F
  <2>1. SpecSnap => []SnapInv
    BY SnapshotsStart, SnapshotsStep, PTL DEF SpecSnap
  <2>2. SnapInv => F
    BY DEF SnapInv, TickTypes
  <2> QED
    BY <2>1, <2>2, PTL
<1>2. F /\ <<TickStep>>_snapVars =>
        /\ AtStage("account") => AtStage("positions")'
        /\ AtStage("positions") => AtStage("mark")'
        /\ AtStage("mark") => (AtStage("write") \/ TickEnds)'
        /\ AtStage("write") => TickEnds'
  BY TickAdvances
<1>3. F /\ [NextSnap]_snapVars =>
        /\ AtStage("account") => (AtStage("account") \/ AtStage("positions") \/ TickEnds)'
        /\ AtStage("positions") => (AtStage("positions") \/ AtStage("mark") \/ TickEnds)'
        /\ AtStage("mark") => (AtStage("mark") \/ AtStage("write") \/ TickEnds)'
        /\ AtStage("write") => (AtStage("write") \/ TickEnds)'
  BY TickStays
<1> HIDE DEF F
<1>4. TickCanGoOn =>
        (AtStage("account") \/ AtStage("positions") \/ AtStage("mark") \/ AtStage("write")
           => ENABLED <<TickStep>>_snapVars)
  BY DEF TickCanGoOn, AtStage
<1>5. SpecSnap /\ []TickCanGoOn => (AtStage("account") ~> TickEnds)
  BY <1>1, <1>2, <1>3, <1>4, PTL DEF SpecSnap
<1>6. AtStage("account") <=> tick.at = "account"
  BY DEF AtStage
<1>7. TickEnds <=> tick.at \in {"prune", "off", "stuck"}
  BY DEF TickEnds
<1> QED
  BY <1>5, <1>6, <1>7, PTL DEF BrokerCannotStopTicks
=============================================================================
