------------------------------- MODULE Budget -------------------------------
(***************************************************************************)
(* The daily cap on language-model spending: the calls of agents/llm.py,   *)
(* the ledger and its watcher (execution/budget.py), the midnight job of   *)
(* app.py and the kill switch they share with the heartbeat and the        *)
(* reconciler.                                                             *)
(*                                                                         *)
(* A call checks the remaining budget, runs for up to a minute without a   *)
(* lock and records its cost under the day on which it began.  The ledger  *)
(* holds one day; a cost of any other day throws its contents away.  The   *)
(* file behind it is overwritten in place, so the process may die with     *)
(* half a file on disk, and is read back only if it is of the current day. *)
(*                                                                         *)
(* Costs are whole units.  The estimate a call is admitted by may be any   *)
(* positive amount: it is computed from the length of the prompt and does  *)
(* not bound the cost.                                                     *)
(***************************************************************************)
EXTENDS Integers, FiniteSets, KillState

CONSTANTS
  Thread,   \* threads that call a language model
  Limit,    \* daily_limit
  MaxCost,  \* the dearest call
  Days,     \* days that pass (a bound)
  MaxTorn   \* crashes in the middle of a file write (a bound)

ASSUME ThreadAssumption == IsFiniteSet(Thread)
ASSUME LimitAssumption == Limit \in Nat \ {0} /\ MaxCost \in Nat \ {0}
ASSUME BoundAssumption == Days \in Nat \ {0} /\ MaxTorn \in Nat

VARIABLES
  up,        \* the process runs
  today,     \* the current UTC day
  ledger,    \* BudgetLedger: _today (0 is None) and _total
  file,      \* daily_spend.json; of day 0 when absent or torn
  calls,     \* per thread, the day its call began, 0 without a call
  tripped,   \* BudgetWatcher._tripped
  watch,     \* the watcher inside check_once
  job,       \* the midnight job: no, due, or its next step
  kill,      \* the kill switch
  recorded,  \* history: per day, the cost of all calls recorded for it
  straddled, \* history: a call was recorded for a day that was over
  torn       \* history: how often a file was torn

ledgerVars == <<ledger, file, recorded, straddled, torn>>
haltVars == <<tripped, watch, job, kill>>
vars == <<up, today, calls, ledgerVars, haltVars>>

Day == 1..Days
Account == [day : 0..Days, total : Nat]
Empty == [day |-> 0, total |-> 0]
InFlight == {t \in Thread : calls[t] # 0}

Init ==
  /\ up = TRUE /\ today = 1
  /\ ledger = Empty /\ file = Empty
  /\ calls = [t \in Thread |-> 0]
  /\ tripped = FALSE /\ watch = "idle" /\ job = "no"
  /\ kill = "OK"
  /\ recorded = [d \in Day |-> 0]
  /\ straddled = FALSE /\ torn = 0

-----------------------------------------------------------------------------
(* LLMClient.call *)

\* Spent budget does not stop a call.
MutantStartCall(t) ==
  /\ up /\ calls[t] = 0
  /\ calls' = [calls EXCEPT ![t] = today]
  /\ UNCHANGED <<up, today, ledgerVars, haltVars>>

\* Some estimate fits into what remains; the time stamp is taken.
StartCall(t) ==
  /\ up /\ calls[t] = 0
  /\ ledger.total < Limit
  /\ calls' = [calls EXCEPT ![t] = today]
  /\ UNCHANGED <<up, today, ledgerVars, haltVars>>

\* Retries are used up, or the request is refused.
CallFails(t) ==
  /\ up /\ calls[t] # 0
  /\ calls' = [calls EXCEPT ![t] = 0]
  /\ UNCHANGED <<up, today, ledgerVars, haltVars>>

\* record_spend with _ensure_date.
RecordSpend(l, d, cost) ==
  [day |-> d, total |-> (IF l.day = d THEN l.total ELSE 0) + cost]

\* The answer arrives and its cost is recorded and flushed.
EndCall(t) ==
  /\ up /\ calls[t] # 0
  /\ \E cost \in 1..MaxCost :
       /\ ledger' = RecordSpend(ledger, calls[t], cost)
       /\ file' = ledger'
       /\ recorded' = [recorded EXCEPT ![calls[t]] = @ + cost]
  /\ calls' = [calls EXCEPT ![t] = 0]
  /\ straddled' = (straddled \/ calls[t] # today)
  /\ UNCHANGED <<up, today, torn, haltVars>>

-----------------------------------------------------------------------------
(* BudgetWatcher.check_once, outside the ledger's lock *)

WatchReads ==
  /\ up /\ watch = "idle" /\ ~tripped
  /\ ledger.total >= Limit
  /\ watch' = "trip"
  /\ UNCHANGED <<up, today, calls, ledgerVars, tripped, job, kill>>

\* The switch is not tripped before the latch is set.
MutantWatchTrips ==
  /\ up /\ watch = "trip"
  /\ watch' = "latch"
  /\ UNCHANGED <<up, today, calls, ledgerVars, tripped, job, kill>>

WatchTrips ==
  /\ up /\ watch = "trip"
  /\ kill' = "BUDGET_EXHAUSTED"
  /\ watch' = "latch"
  /\ UNCHANGED <<up, today, calls, ledgerVars, tripped, job>>

WatchLatches ==
  /\ up /\ watch = "latch"
  /\ tripped' = TRUE
  /\ watch' = "idle"
  /\ UNCHANGED <<up, today, calls, ledgerVars, job, kill>>

-----------------------------------------------------------------------------
(* Midnight, and _job_budget_reset in its three calls *)

\* The job takes less than a day.
NewDay ==
  /\ today < Days /\ job \in {"no", "due"}
  /\ today' = today + 1
  /\ job' = IF up THEN "due" ELSE "no"
  /\ UNCHANGED <<up, calls, ledgerVars, tripped, watch, kill>>

\* The scheduler drops a run it could not start for five minutes.
JobMisfires ==
  /\ up /\ job = "due"
  /\ job' = "no"
  /\ UNCHANGED <<up, today, calls, ledgerVars, tripped, watch, kill>>

\* reset_if_new_day.
ResetIfNewDay(l) == IF l.day = today THEN l ELSE [day |-> today, total |-> 0]

JobResetsLedger ==
  /\ up /\ job = "due"
  /\ ledger' = ResetIfNewDay(ledger)
  /\ file' = IF ledger.day = today THEN file ELSE ledger'
  /\ job' = "watcher"
  /\ UNCHANGED <<up, today, calls, recorded, straddled, torn,
                 tripped, watch, kill>>

JobResetsWatcher ==
  /\ up /\ job = "watcher"
  /\ tripped' = FALSE
  /\ job' = "kill"
  /\ UNCHANGED <<up, today, calls, ledgerVars, watch, kill>>

JobResetsKill ==
  /\ up /\ job = "kill"
  /\ kill' = ResetDaily(kill)
  /\ job' = "no"
  /\ UNCHANGED <<up, today, calls, ledgerVars, tripped, watch>>

-----------------------------------------------------------------------------
(* The other writers of the kill switch *)

Heartbeat ==
  /\ up
  /\ kill' = RecordHeartbeat(kill)
  /\ UNCHANGED <<up, today, calls, ledgerVars, tripped, watch, job>>

\* A reconciler pass: the heartbeat check, then the outcome for positions.
ReconcileOnce ==
  /\ up
  /\ \E overdue, mismatch \in BOOLEAN :
       kill' = IF mismatch THEN "RECONCILIATION_BREAK"
               ELSE ClearReconciliationBreak(CheckHeartbeat(kill, overdue))
  /\ UNCHANGED <<up, today, calls, ledgerVars, tripped, watch, job>>

-----------------------------------------------------------------------------
(* Crash and restart *)

\* Everything but the file is gone; a call under way is paid for and never
\* recorded.
Stop ==
  /\ up
  /\ up' = FALSE
  /\ ledger' = Empty
  /\ calls' = [t \in Thread |-> 0]
  /\ tripped' = FALSE /\ watch' = "idle" /\ job' = "no"
  /\ kill' = "OK"
  /\ UNCHANGED <<today, recorded, straddled>>

Crash == Stop /\ UNCHANGED <<file, torn>>

\* write_text truncates the file and is cut short.
CrashInFlush ==
  /\ torn < MaxTorn
  /\ \E t \in Thread : calls[t] # 0
  /\ Stop
  /\ file' = Empty
  /\ torn' = torn + 1

\* The total of the file is taken for today's.
MutantLoad == [file EXCEPT !.day = today]

\* _load: a file of another day, absent or corrupt is passed over.
Load == IF file.day = today THEN file ELSE Empty

Restart ==
  /\ ~up
  /\ up' = TRUE
  /\ ledger' = Load
  /\ UNCHANGED <<today, calls, file, recorded, straddled, torn, haltVars>>

Next ==
  \/ \E t \in Thread : StartCall(t) \/ CallFails(t) \/ EndCall(t)
  \/ WatchReads \/ WatchTrips \/ WatchLatches
  \/ NewDay \/ JobMisfires
  \/ JobResetsLedger \/ JobResetsWatcher \/ JobResetsKill
  \/ Heartbeat \/ ReconcileOnce
  \/ Crash \/ CrashInFlush \/ Restart

Spec == Init /\ [][Next]_vars

\* The watcher's thread runs for as long as the process does.
LiveSpec == Spec /\ WF_vars(WatchReads) /\ WF_vars(WatchTrips)

-----------------------------------------------------------------------------
TypeOK ==
  /\ up \in BOOLEAN
  /\ today \in Day
  /\ ledger \in Account
  /\ file \in Account
  /\ calls \in [Thread -> 0..Days]
  /\ tripped \in BOOLEAN
  /\ watch \in {"idle", "trip", "latch"}
  /\ job \in {"no", "due", "watcher", "kill"}
  /\ kill \in KillSwitchState
  /\ recorded \in [Day -> Nat]
  /\ straddled \in BOOLEAN
  /\ torn \in 0..MaxTorn

\* The budget is checked before a call and charged after it, so every thread
\* may be let in on the last unit: a day costs at most the dearest call of each
\* thread beyond the limit.  (Unless a call was charged to a day that was over,
\* or a file was torn: each throws away what the ledger knew.)
MostSpent == Limit - 1 + MaxCost * Cardinality(Thread)

SpendIsBounded ==
  ~straddled /\ torn = 0 => \A d \in Day : recorded[d] <= MostSpent

\* A restart loses nothing of what was recorded today.
CapSurvivesRestart ==
  up /\ ~straddled /\ torn = 0 =>
    recorded[today] = IF ledger.day = today THEN ledger.total ELSE 0

\* What the two rest on, step by step (Budget_proofs): while nothing was charged
\* to a day that was over and no file was torn, memory and file both hold exactly
\* what was recorded today, nothing is recorded for a day to come, and today
\* still has room for the calls under way.
Exact ==
  /\ ledger.day <= today /\ file.day <= today
  /\ \A d \in Day : d > today => recorded[d] = 0
  /\ recorded[today] = IF file.day = today THEN file.total ELSE 0
  /\ up => recorded[today] = IF ledger.day = today THEN ledger.total ELSE 0
  /\ recorded[today] + MaxCost * Cardinality(InFlight) <= MostSpent
  /\ \A d \in Day : recorded[d] <= MostSpent

BudgetInv == ~straddled /\ torn = 0 => Exact

\* A spent budget that the watcher has not latched yet is answered by the kill
\* switch, however calls, the midnight job and the other trips fall between the
\* watcher's steps, unless the ledger is reset first.
ExhaustionTrips ==
  (up /\ ledger.total >= Limit /\ ~tripped /\ watch = "idle")
    ~> (kill = "BUDGET_EXHAUSTED" \/ ledger.total < Limit \/ ~up)

\* What its proof takes from TLC: at the two steps' turn the watcher can run.
WatcherCanRun ==
  /\ up /\ ledger.total >= Limit /\ ~tripped /\ watch = "idle"
       => ENABLED <<WatchReads>>_vars
  /\ up /\ watch = "trip" => ENABLED <<WatchTrips>>_vars
=============================================================================
