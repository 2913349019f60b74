------------------------------ MODULE Tracker ------------------------------
(***************************************************************************)
(* The drawdown ladder and the bench of execution/agent_state_tracker.py   *)
(* for one sleeve, with the bench counters of KillSwitchEngine.            *)
(*                                                                         *)
(* Fills come from the OMS, marks from the dispatch jobs and the           *)
(* snapshotter, each on a thread of its own.  An update changes the record *)
(* under the tracker's lock and is one step; persisting it copies the      *)
(* record under the lock and writes the copy without it, two more steps.   *)
(* Nothing listens to the events the update publishes under the lock:      *)
(* module Ladder adds what the application subscribes.                     *)
(*                                                                         *)
(* The equity a mark finds is any of a few values: how it is computed is   *)
(* in LotLedger.  Whether a sale is a loss is open as long as the tracker  *)
(* knows a cost; the average itself is left out.                           *)
(***************************************************************************)
EXTENDS Integers, FiniteSets

CONSTANTS
  FillThread,     \* the thread that holds the OMS lock and publishes a fill
  MarkThread,     \* threads that mark: dispatch jobs and the snapshotter
  Equity,         \* equities a mark may find
  StartingEquity,
  Trigger,        \* CONSECUTIVE_LOSS_BENCH_TRIGGER
  RecoveryDays,   \* _RECOVERY_DAYS_REQUIRED
  Day,            \* ticks of the clock in a day, and so in a bench
  MaxTicks,       \* length of a behaviour (a bound)
  MaxPos,         \* largest position (a bound)
  MaxLosses,      \* losses in a row (a bound)
  NoThread

ASSUME EquityAssumption ==
  /\ Equity \subseteq Nat \ {0} /\ StartingEquity \in Equity
ASSUME CountAssumption ==
  /\ Trigger \in Nat \ {0} /\ RecoveryDays \in Nat \ {0, 1} /\ Day \in Nat \ {0}
  /\ MaxTicks \in Nat /\ MaxPos \in Nat /\ MaxLosses \in Nat
ASSUME ThreadAssumption ==
  FillThread \notin MarkThread /\ NoThread \notin MarkThread \cup {FillThread}

VARIABLES
  now,      \* the clock
  pos,      \* what the sleeve really holds
  held,     \* _open_qty: what the tracker knows a cost for
  rec,      \* the _PerAgentRecord
  stored,   \* its row in agent_tracker_state
  engine,   \* KillSwitchEngine: losses it was told of, end of its bench
  lock,     \* the thread that holds the tracker's lock
  pc,       \* per thread: idle, persist, write
  copy,     \* per thread: the row it is about to write
  run,      \* history: the last bucket read from marks, the days it was read
  overlap,  \* history: two threads were persisting at the same time
  lost      \* history: the process ended while a thread was persisting

Thread == MarkThread \cup {FillThread}
process == <<held, rec, engine, lock, pc, copy>>
trackerHistory == <<run, overlap, lost>>
trackerVars == <<now, pos, process, stored, trackerHistory>>

Bucket == 0..4    \* NORMAL, YELLOW, ORANGE, RED, FORCED_CASH: worse is higher
NoBucket == 5
Today == now \div Day
Dates == 0..(MaxTicks \div Day)
NoDate == -1
Record == [equity : Equity, peak : Equity, losses : Nat, bench : Nat,
           bucket : Bucket, target : Bucket \cup {NoBucket}, days : Nat,
           last : Dates \cup {NoDate}]
Fresh == [equity |-> StartingEquity, peak |-> StartingEquity, losses |-> 0,
          bench |-> 0, bucket |-> 0, target |-> NoBucket, days |-> 0,
          last |-> NoDate]
Idle == [t \in Thread |-> "idle"]

InitTracker ==
  /\ now = 0 /\ pos = 0 /\ held = 0
  /\ rec = Fresh /\ stored = Fresh
  /\ engine = [losses |-> 0, bench |-> 0]
  /\ lock = NoThread /\ pc = Idle /\ copy = [t \in Thread |-> Fresh]
  /\ run = [bucket |-> 0, days |-> {}] /\ overlap = FALSE /\ lost = FALSE

Enter(t, state) == pc[t] = state /\ lock = NoThread

-----------------------------------------------------------------------------
(* update_on_fill *)

Buy ==
  /\ Enter(FillThread, "idle") /\ pos < MaxPos
  /\ pos' = pos + 1
  /\ held' = held + 1
  /\ pc' = [pc EXCEPT ![FillThread] = "persist"]
  /\ UNCHANGED <<now, rec, engine, lock, copy, stored, trackerHistory>>

Sold ==
  /\ Enter(FillThread, "idle") /\ pos > 0
  /\ pos' = pos - 1
  /\ held' = IF held = 0 THEN 0 ELSE held - 1
  /\ pc' = [pc EXCEPT ![FillThread] = "persist"]
  /\ UNCHANGED <<now, lock, copy, stored, trackerHistory>>

\* record_agent_result(is_loss=True): the engine counts on its own.
Told(e) ==
  [losses |-> e.losses + 1,
   bench |-> IF e.losses + 1 >= Trigger THEN now + Day ELSE e.bench]

\* A sale below the cost; the engine is told from the Trigger-th loss on.
SellAtLoss ==
  /\ Sold /\ held > 0
  /\ rec.losses < MaxLosses /\ engine.losses < MaxLosses
  /\ LET n == rec.losses + 1
     IN IF n >= Trigger
        THEN /\ rec' = [rec EXCEPT !.losses = n, !.bench = now + Day]
             /\ engine' = Told(engine)
        ELSE rec' = [rec EXCEPT !.losses = n] /\ UNCHANGED engine

\* Any other sale, among them one whose cost was lost in a restart.
SellWell ==
  /\ Sold
  /\ rec' = [rec EXCEPT !.losses = 0, !.bench = 0]
  /\ UNCHANGED engine

-----------------------------------------------------------------------------
(* update_on_mark *)

Max2(a, b) == IF a > b THEN a ELSE b

\* classify_drawdown: 5, 10, 15 and 25 per cent below the peak.
Classify(peak, equity) ==
  LET down(pct) == (peak - equity) * 100 >= pct * peak
  IN IF down(25) THEN 4 ELSE IF down(15) THEN 3
     ELSE IF down(10) THEN 2 ELSE IF down(5) THEN 1 ELSE 0

\* A bench that is over is lifted.
Unbenched(r) ==
  IF r.bench # 0 /\ now >= r.bench THEN [r EXCEPT !.bench = 0, !.losses = 0]
  ELSE r

Tightened(r, raw) ==
  [r EXCEPT !.bucket = raw, !.target = NoBucket, !.days = 0, !.last = Today]

\* A day is counted whatever bucket it was spent in.
MutantRecovering(r, raw) ==
  LET n == IF Today # r.last THEN r.days + 1 ELSE Max2(r.days, 1)
  IN IF n >= RecoveryDays THEN Tightened(r, raw)
     ELSE [r EXCEPT !.target = raw, !.days = n, !.last = Today]

\* The loosening half of _apply_bucket_with_recovery.
Recovering(r, raw) ==
  LET n == IF r.target # raw THEN 1
           ELSE IF Today # r.last THEN r.days + 1 ELSE r.days
  IN IF n >= RecoveryDays THEN Tightened(r, raw)
     ELSE [r EXCEPT !.target = raw, !.days = n, !.last = Today]

\* Equity, bench and peak of the record after a mark finds equity e.
Marked(r, e) == [Unbenched(r) EXCEPT !.equity = e, !.peak = Max2(@, e)]

Laddered(r) ==
  LET raw == Classify(r.peak, r.equity)
  IN IF raw >= r.bucket THEN Tightened(r, raw) ELSE Recovering(r, raw)

Read(raw) ==
  run' = IF raw = run.bucket
         THEN [run EXCEPT !.days = @ \cup {Today}]
         ELSE [bucket |-> raw, days |-> {Today}]

Mark(t) ==
  /\ Enter(t, "idle")
  /\ \E e \in Equity :
       LET r == Marked(rec, e)
       IN rec' = Laddered(r) /\ Read(Classify(r.peak, r.equity))
  /\ pc' = [pc EXCEPT ![t] = "persist"]
  /\ UNCHANGED <<now, pos, held, engine, lock, copy, stored, overlap, lost>>

\* get_state, the part that changes the record.
GetState ==
  /\ lock = NoThread
  /\ Unbenched(rec) # rec
  /\ rec' = Unbenched(rec)
  /\ UNCHANGED <<now, pos, held, engine, lock, pc, copy, stored, trackerHistory>>

\* is_agent_benched, the part that changes the engine.
EngineUnbenches ==
  /\ engine.bench # 0 /\ now >= engine.bench
  /\ engine' = [losses |-> 0, bench |-> 0]
  /\ UNCHANGED <<now, pos, held, rec, lock, pc, copy, stored, trackerHistory>>

-----------------------------------------------------------------------------
(* _maybe_persist *)

Copy(t) ==
  /\ Enter(t, "persist")
  /\ copy' = [copy EXCEPT ![t] = rec]
  /\ overlap' = (overlap \/ \E u \in Thread : pc[u] = "write")
  /\ pc' = [pc EXCEPT ![t] = "write"]
  /\ UNCHANGED <<now, pos, held, rec, engine, lock, stored, run, lost>>

\* Only what a mark changes is written.
MutantWrite(t) ==
  /\ pc[t] = "write"
  /\ stored' = [copy[t] EXCEPT !.losses = stored.losses, !.bench = stored.bench]
  /\ pc' = [pc EXCEPT ![t] = "idle"]
  /\ copy' = [copy EXCEPT ![t] = Fresh]
  /\ UNCHANGED <<now, pos, held, rec, engine, lock, trackerHistory>>

Write(t) ==
  /\ pc[t] = "write"
  /\ stored' = copy[t]
  /\ pc' = [pc EXCEPT ![t] = "idle"]
  /\ copy' = [copy EXCEPT ![t] = Fresh]
  /\ UNCHANGED <<now, pos, held, rec, engine, lock, trackerHistory>>

-----------------------------------------------------------------------------

\* The record of a restarted process, bucket and all, but not the peak.
MutantLoaded == [stored EXCEPT !.bucket = 0]

\* _load_from_db.
Loaded == stored

\* The process ends, wherever it is, and starts again: _load_from_db.  The
\* costs and the engine's counters are not persisted.
Restart ==
  /\ rec' = Loaded
  /\ held' = 0
  /\ engine' = [losses |-> 0, bench |-> 0]
  /\ lock' = NoThread /\ pc' = Idle /\ copy' = [t \in Thread |-> Fresh]
  /\ lost' = (lost \/ pc # Idle)
  /\ UNCHANGED <<now, pos, stored, run, overlap>>

Tick ==
  /\ now < MaxTicks
  /\ now' = now + 1
  /\ UNCHANGED <<pos, process, stored, trackerHistory>>

Persist == \E t \in Thread : Copy(t) \/ Write(t)
Trade == Buy \/ SellAtLoss \/ SellWell

NextTracker ==
  \/ Trade \/ Persist \/ (\E t \in MarkThread : Mark(t))
  \/ GetState \/ EngineUnbenches \/ Restart \/ Tick

SpecTracker == InitTracker /\ [][NextTracker]_trackerVars

-----------------------------------------------------------------------------
(* Properties *)

TrackerTypeOK ==
  /\ now \in 0..MaxTicks /\ pos \in 0..MaxPos /\ held \in 0..pos
  /\ rec \in Record /\ stored \in Record
  /\ engine \in [losses : Nat, bench : Nat]
  /\ lock \in Thread \cup {NoThread}
  /\ pc \in [Thread -> {"idle", "persist", "write"}]
  /\ copy \in [Thread -> Record]
  /\ run \in [bucket : Bucket, days : SUBSET Dates]
  /\ overlap \in BOOLEAN /\ lost \in BOOLEAN

\* Every variable has its type, and the bucket sizing uses is never better
\* than the drawdown of the same record: not between marks, not in a row that
\* a slower thread wrote late, and not after a restart from it.
BucketCoversDrawdown ==
  /\ TrackerTypeOK
  /\ lock = NoThread =>
       \A r \in {rec, stored} \cup {copy[t] : t \in Thread} :
         r.bucket >= Classify(r.peak, r.equity)

\* The ladder loosens only to a bucket that every mark of RecoveryDays
\* different days has shown, without another reading between them, restarts
\* included (unless a row was lost in one, or written out of order).
LoosensSlowly ==
  [][rec'.bucket < rec.bucket /\ ~overlap' /\ ~lost' =>
       /\ rec'.bucket = run'.bucket
       /\ Cardinality(run'.days) >= RecoveryDays]_trackerVars

\* What a restart would load is what the process works with, once nothing is
\* being persisted: neither a bench nor a bucket can be lost by stopping the
\* process (unless rows were written out of order).  A bench that only lapsed
\* in get_state is not written.
DiskIsCurrent ==
  pc = Idle /\ lock = NoThread /\ ~overlap => Unbenched(stored) = Unbenched(rec)

=============================================================================
