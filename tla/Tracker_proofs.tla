--------------------------- MODULE Tracker_proofs ---------------------------
(***************************************************************************)
(* Theorems about the tracker, for any number of marking threads, any set  *)
(* of equities, any trigger, recovery time and length of a day: its        *)
(* records are well typed, a bucket always covers its record's drawdown,   *)
(* and what is on disk once nothing is being persisted is what the process *)
(* works with.                                                             *)
(***************************************************************************)
EXTENDS Tracker, FiniteSetTheorems, TLAPS

-----------------------------------------------------------------------------
(* The inductive invariant *)

\* The bucket of a record is at least as bad as its own drawdown.
Covers(r) == r.bucket >= Classify(r.peak, r.equity)

AllCovered ==
  /\ Covers(rec) /\ Covers(stored)
  /\ \A t \in Thread : Covers(copy[t])

\* Two records that differ at most in a bench that is over.
Same(a, b) == Unbenched(a) = Unbenched(b)

\* Until two threads were persisting at once, at most one is writing; and
\* either some thread is still to copy the record, or the one that writes has
\* the record, or nobody writes and the disk has it.
RowsAreInOrder ==
  ~overlap =>
    /\ \A t, u \in Thread : pc[t] = "write" /\ pc[u] = "write" => t = u
    /\ \/ \E t \in Thread : pc[t] = "persist"
       \/ \E t \in Thread : pc[t] = "write" /\ Same(copy[t], rec)
       \/ (\A t \in Thread : pc[t] # "write") /\ Same(stored, rec)

Inv == TrackerTypeOK /\ lock = NoThread /\ AllCovered /\ RowsAreInOrder

-----------------------------------------------------------------------------
(* Lemmas about the operators *)

\* Division by a positive number keeps the order, within the naturals.
LEMMA DivMonotone ==
  ASSUME NEW a \in Nat, NEW b \in Nat, NEW d \in Nat \ {0}, a <= b
  PROVE  a \div d \in 0..(b \div d)
<1> DEFINE p == a \div d
           q == b \div d
<1>1. p \in Int /\ q \in Int
  OBVIOUS
<1>2. a = d * p + (a % d) /\ a % d \in 0..(d - 1)
  OBVIOUS
<1>3. b = d * q + (b % d) /\ b % d \in 0..(d - 1)
  OBVIOUS
<1> QED
  BY <1>1, <1>2, <1>3, Z3

\* The date of the clock is one of the dates (the tracker's UTC date).
LEMMA TodayIsADate ==
  ASSUME now \in 0..MaxTicks
  PROVE  Today \in Dates
BY DivMonotone, CountAssumption DEF Today, Dates

\* classify_drawdown returns a bucket, and NORMAL at the peak.
LEMMA ClassifyType ==
  ASSUME NEW p \in Equity, NEW e \in Equity
  PROVE  /\ Classify(p, e) \in Bucket
         /\ Classify(p, p) = 0
BY EquityAssumption DEF Classify, Bucket

\* The record a sleeve starts with is well typed and its bucket covers its
\* drawdown (_PerAgentRecord).
LEMMA FreshIsSound == Fresh \in Record /\ Covers(Fresh)
<1>1. Fresh \in Record
  BY EquityAssumption DEF Fresh, Record, Bucket, NoBucket, NoDate
<1>2. Covers(Fresh)
  BY EquityAssumption, ClassifyType DEF Fresh, Covers
<1> QED
  BY <1>1, <1>2

\* Lifting a bench that is over changes only bench and losses.
LEMMA UnbenchedType ==
  ASSUME NEW r \in Record
  PROVE  /\ Unbenched(r) \in Record
         /\ Unbenched(r).bucket = r.bucket
         /\ Unbenched(r).peak = r.peak
         /\ Unbenched(r).equity = r.equity
         /\ Unbenched(Unbenched(r)) = Unbenched(r)
BY DEF Unbenched, Record

\* Neither losses nor bench matter to the bucket.
LEMMA LossKeepsCover ==
  ASSUME NEW r \in Record, Covers(r), NEW n \in Nat, NEW b \in Nat
  PROVE  /\ [r EXCEPT !.losses = n] \in Record
         /\ Covers([r EXCEPT !.losses = n])
         /\ [r EXCEPT !.losses = n, !.bench = b] \in Record
         /\ Covers([r EXCEPT !.losses = n, !.bench = b])
BY DEF Record, Covers

\* A mark leaves a well-typed record (update_on_mark).
LEMMA MarkedType ==
  ASSUME NEW r \in Record, NEW e \in Equity
  PROVE  Marked(r, e) \in Record
BY UnbenchedType, EquityAssumption DEF Marked, Max2, Record

\* The ladder: whatever the days, the bucket covers the drawdown.
LEMMA LadderedIsSound ==
  ASSUME NEW r \in Record, now \in 0..MaxTicks
  PROVE  Laddered(r) \in Record /\ Covers(Laddered(r))
<1> DEFINE raw == Classify(r.peak, r.equity)
<1>1. raw \in Bucket /\ r.peak \in Equity /\ r.equity \in Equity
  BY ClassifyType DEF Record
<1>2. Today \in Dates
  BY TodayIsADate
<1>3. Tightened(r, raw) \in Record /\ Covers(Tightened(r, raw))
  <2> HIDE DEF raw
  <2>1. Tightened(r, raw) \in Record
    BY <1>1, <1>2 DEF Tightened, Record
  <2>2. /\ Tightened(r, raw).bucket = raw
        /\ Tightened(r, raw).peak = r.peak
        /\ Tightened(r, raw).equity = r.equity
    BY DEF Tightened, Record
  <2> QED
    BY <2>1, <2>2, <1>1 DEF Covers, raw, Bucket
<1>4. ASSUME raw < r.bucket
      PROVE  Recovering(r, raw) \in Record /\ Covers(Recovering(r, raw))
  <2> DEFINE n == IF r.target # raw THEN 1
                  ELSE IF Today # r.last THEN r.days + 1 ELSE r.days
             s == [r EXCEPT !.target = raw, !.days = n, !.last = Today]
  <2>1. n \in Nat
    BY DEF Record
  <2>2. Recovering(r, raw) = IF n >= RecoveryDays THEN Tightened(r, raw) ELSE s
    BY DEF Recovering
  <2>3. s \in Record
    <3> HIDE DEF n, raw
    <3> QED
      BY <1>1, <1>2, <2>1 DEF Record
  <2>4. s.bucket = r.bucket /\ s.peak = r.peak /\ s.equity = r.equity
    BY DEF Record
  <2>5. Covers(s)
    BY <1>1, <1>4, <2>3, <2>4 DEF Covers, Record, Bucket
  <2> QED
    BY <1>3, <2>2, <2>3, <2>5
<1> QED
  BY <1>1, <1>3, <1>4 DEF Laddered, Record, Bucket

-----------------------------------------------------------------------------
(* Types and coverage *)

Sound == TrackerTypeOK /\ lock = NoThread /\ AllCovered

\* The initial state is sound.
LEMMA InitIsSound == InitTracker => Sound
<1> SUFFICES ASSUME InitTracker PROVE Sound
  OBVIOUS
<1> USE FreshIsSound
<1>1. TrackerTypeOK
  <2>1. now \in 0..MaxTicks /\ pos \in 0..MaxPos /\ held \in 0..pos
    BY CountAssumption DEF InitTracker
  <2>2. rec \in Record /\ stored \in Record /\ copy \in [Thread -> Record]
    BY DEF InitTracker
  <2>3. /\ engine \in [losses : Nat, bench : Nat]
        /\ run \in [bucket : Bucket, days : SUBSET Dates]
    BY DEF InitTracker, Bucket
  <2>4. /\ lock \in Thread \cup {NoThread}
        /\ pc \in [Thread -> {"idle", "persist", "write"}]
        /\ overlap \in BOOLEAN /\ lost \in BOOLEAN
    BY DEF InitTracker, Idle
  <2> QED
    BY <2>1, <2>2, <2>3, <2>4 DEF TrackerTypeOK
<1>2. AllCovered
  BY DEF InitTracker, AllCovered
<1> QED
  BY <1>1, <1>2 DEF InitTracker, Sound

\* A fill keeps it: it changes losses and bench only (update_on_fill).
LEMMA TradeKeepsSound == Sound /\ Trade => Sound'
<1> SUFFICES ASSUME Sound, Trade PROVE Sound'
  OBVIOUS
<1> USE CountAssumption DEF Sound, TrackerTypeOK
<1>0. FillThread \in Thread
  BY DEF Thread
<1>1. CASE Buy
  BY <1>0, <1>1 DEF Buy, Enter, trackerHistory, AllCovered, Covers, Record, Dates, Bucket
<1>2. CASE SellWell
  <2>1. rec' \in Record /\ Covers(rec')
    BY <1>2 DEF SellWell, Record, AllCovered, Covers
  <2> QED
    BY <1>0, <1>2, <2>1 DEF SellWell, Sold, Enter, trackerHistory, AllCovered
<1>3. CASE SellAtLoss
  <2>1. engine' \in [losses : Nat, bench : Nat]
    BY <1>3 DEF SellAtLoss, Told
  <2>2. rec' \in Record /\ Covers(rec')
    <3> DEFINE n == rec.losses + 1
    <3>1. n \in Nat /\ now + Day \in Nat
      BY DEF Record
    <3>2. \/ rec' = [rec EXCEPT !.losses = n, !.bench = now + Day]
          \/ rec' = [rec EXCEPT !.losses = n]
      BY <1>3 DEF SellAtLoss
    <3>3. rec \in Record /\ Covers(rec)
      BY DEF AllCovered
    <3>4. CASE rec' = [rec EXCEPT !.losses = n, !.bench = now + Day]
      BY ONLY <3>1, <3>3, <3>4, LossKeepsCover
    <3>5. CASE rec' = [rec EXCEPT !.losses = n]
      BY ONLY <3>1, <3>3, <3>5, LossKeepsCover
    <3> QED
      BY <3>2, <3>4, <3>5
  <2> QED
    BY <1>0, <1>3, <2>1, <2>2 DEF SellAtLoss, Sold, Enter, trackerHistory, AllCovered
<1> QED
  BY <1>1, <1>2, <1>3 DEF Trade

\* A mark keeps it: the ladder ends with a bucket that covers the drawdown
\* (update_on_mark).
LEMMA MarkKeepsSound ==
  ASSUME Sound, NEW t \in MarkThread, Mark(t)
  PROVE  Sound'
<1> USE DEF Sound, TrackerTypeOK
<1>1. t \in Thread
  BY DEF Thread
<1>2. PICK e \in Equity :
        LET r == Marked(rec, e)
        IN rec' = Laddered(r) /\ Read(Classify(r.peak, r.equity))
  BY DEF Mark
<1> DEFINE r == Marked(rec, e)
<1>3. r \in Record
  BY MarkedType
<1>4. rec' \in Record /\ Covers(rec')
  BY <1>2, <1>3, LadderedIsSound
<1>5. run' \in [bucket : Bucket, days : SUBSET Dates]
  <2>1. Classify(r.peak, r.equity) \in Bucket
    BY <1>3, ClassifyType DEF Record
  <2>2. Today \in Dates
    BY TodayIsADate
  <2> QED
    BY <1>2, <2>1, <2>2 DEF Read
<1> QED
  BY <1>1, <1>4, <1>5 DEF Mark, Enter, AllCovered

\* Persisting moves sound records to the copies and to the disk (_maybe_persist).
LEMMA PersistKeepsSound == Sound /\ Persist => Sound'
<1> SUFFICES ASSUME Sound, NEW t \in Thread, Copy(t) \/ Write(t) PROVE Sound'
  BY DEF Persist
<1> USE DEF Sound, TrackerTypeOK
<1>1. CASE Copy(t)
  BY <1>1 DEF Copy, Enter, AllCovered
<1>2. CASE Write(t)
  BY <1>2, FreshIsSound DEF Write, trackerHistory, AllCovered
<1> QED
  BY <1>1, <1>2

\* Every step keeps it.
LEMMA StepKeepsSound == Sound /\ [NextTracker]_trackerVars => Sound'
<1> SUFFICES ASSUME Sound, [NextTracker]_trackerVars PROVE Sound'
  OBVIOUS
<1>1. CASE Trade
  BY <1>1, TradeKeepsSound
<1>2. CASE Persist
  BY <1>2, PersistKeepsSound
<1>3. CASE \E t \in MarkThread : Mark(t)
  BY <1>3, MarkKeepsSound
<1>4. CASE GetState
  <2>1. rec' \in Record /\ Covers(rec')
    BY <1>4, UnbenchedType DEF GetState, Sound, TrackerTypeOK, AllCovered, Covers
  <2> QED
    BY <1>4, <2>1 DEF GetState, trackerHistory, Sound, TrackerTypeOK, AllCovered
<1>5. CASE EngineUnbenches
  BY <1>5 DEF EngineUnbenches, trackerHistory, Sound, TrackerTypeOK, AllCovered, Covers
<1>6. CASE Restart
  BY <1>6, FreshIsSound
     DEF Restart, Loaded, Idle, Sound, TrackerTypeOK, AllCovered
<1>7. CASE Tick
  BY <1>7, CountAssumption
     DEF Tick, process, trackerHistory, Sound, TrackerTypeOK, AllCovered, Covers
<1>8. CASE UNCHANGED trackerVars
  BY <1>8 DEF trackerVars, process, trackerHistory, Sound, TrackerTypeOK, AllCovered, Covers
<1> QED
  BY <1>1, <1>2, <1>3, <1>4, <1>5, <1>6, <1>7, <1>8 DEF NextTracker

-----------------------------------------------------------------------------
(* The rows on disk *)

\* Unbenched at time n.
UnbenchedAt(r, n) ==
  IF r.bench # 0 /\ n >= r.bench THEN [r EXCEPT !.bench = 0, !.losses = 0]
  ELSE r

\* Records that are the same now are the same later on.
LEMMA SameStaysSame ==
  ASSUME NEW a \in Record, NEW b \in Record, NEW m \in Nat, NEW n \in Nat,
         m <= n, UnbenchedAt(a, m) = UnbenchedAt(b, m)
  PROVE  UnbenchedAt(a, n) = UnbenchedAt(b, n)
<1>1. ASSUME NEW r \in Record
      PROVE  UnbenchedAt(r, n) = UnbenchedAt(UnbenchedAt(r, m), n)
  <2> DEFINE s == [r EXCEPT !.bench = 0, !.losses = 0]
  <2>1. s.bench = 0 /\ r.bench \in Nat
    BY <1>1 DEF Record
  <2>2. CASE r.bench # 0 /\ m >= r.bench
    <3>1. n >= r.bench
      BY <2>1, <2>2
    <3>2. UnbenchedAt(r, m) = s /\ UnbenchedAt(r, n) = s
      BY <2>2, <3>1 DEF UnbenchedAt
    <3>3. UnbenchedAt(s, n) = s
      BY <2>1 DEF UnbenchedAt
    <3> QED
      BY <3>2, <3>3
  <2>3. CASE ~(r.bench # 0 /\ m >= r.bench)
    BY <2>3 DEF UnbenchedAt
  <2> QED
    BY <2>2, <2>3
<1> QED
  BY <1>1

\* The passing of time keeps the rows in order: a bench that ends, ends in
\* every copy of the record.
LEMMA TickKeepsRows == Sound /\ RowsAreInOrder /\ Tick => RowsAreInOrder'
<1> SUFFICES ASSUME Sound, RowsAreInOrder, Tick PROVE RowsAreInOrder'
  OBVIOUS
<1>1. /\ UNCHANGED <<rec, stored, pc, copy, overlap>>
      /\ now \in Nat /\ now' = now + 1
  BY DEF Tick, process, trackerHistory, Sound, TrackerTypeOK
<1>2. ASSUME NEW a \in Record, NEW b \in Record, Unbenched(a) = Unbenched(b)
      PROVE  Unbenched(a)' = Unbenched(b)'
  <2>1. UnbenchedAt(a, now) = UnbenchedAt(b, now)
    BY <1>2 DEF Unbenched, UnbenchedAt
  <2>2. UnbenchedAt(a, now') = UnbenchedAt(b, now')
    BY <1>1, <2>1, SameStaysSame
  <2> QED
    BY <2>2 DEF Unbenched, UnbenchedAt
<1> QED
  BY <1>1, <1>2 DEF RowsAreInOrder, Same, Sound, TrackerTypeOK

\* Every step keeps the rows in order: a record that changes makes its thread
\* one that is still to copy it (_maybe_persist after every update).
LEMMA StepKeepsRows == Sound /\ RowsAreInOrder /\ [NextTracker]_trackerVars => RowsAreInOrder'
<1> SUFFICES ASSUME Sound, RowsAreInOrder, [NextTracker]_trackerVars PROVE RowsAreInOrder'
  OBVIOUS
<1>0. FillThread \in Thread /\ MarkThread \subseteq Thread
  BY DEF Thread
<1>1. CASE Trade
  <2>1. /\ pc' = [pc EXCEPT ![FillThread] = "persist"]
        /\ pc[FillThread] = "idle" /\ UNCHANGED overlap
    BY <1>1 DEF Trade, Buy, SellWell, SellAtLoss, Sold, Enter, trackerHistory
  <2> QED
    BY <1>0, <2>1 DEF RowsAreInOrder, Sound, TrackerTypeOK
<1>2. ASSUME NEW t \in MarkThread, Mark(t)
      PROVE  RowsAreInOrder'
  <2>1. /\ pc' = [pc EXCEPT ![t] = "persist"]
        /\ pc[t] = "idle" /\ UNCHANGED overlap
    BY <1>2 DEF Mark, Enter
  <2> QED
    BY <1>0, <2>1 DEF RowsAreInOrder, Sound, TrackerTypeOK
<1>3. ASSUME NEW t \in Thread, Copy(t)
      PROVE  RowsAreInOrder'
  <2>1. /\ copy' = [copy EXCEPT ![t] = rec]
        /\ pc' = [pc EXCEPT ![t] = "write"]
        /\ UNCHANGED <<rec, now>>
    BY <1>3 DEF Copy
  <2>2. ~overlap' => ~overlap /\ \A u \in Thread : pc[u] # "write"
    BY <1>3 DEF Copy
  <2>3. copy'[t] = rec' /\ Same(copy[t], rec)' /\ pc'[t] = "write"
    BY <2>1 DEF Same, Sound, TrackerTypeOK
  <2>4. \A u \in Thread : u # t => pc'[u] = pc[u]
    BY <2>1 DEF Sound, TrackerTypeOK
  <2> QED
    BY <2>2, <2>3, <2>4 DEF RowsAreInOrder
<1>4. ASSUME NEW t \in Thread, Write(t)
      PROVE  RowsAreInOrder'
  <2>1. /\ stored' = copy[t] /\ pc[t] = "write"
        /\ UNCHANGED <<rec, now, overlap>>
    BY <1>4 DEF Write, trackerHistory
  <2>2. pc'[t] = "idle" /\ \A u \in Thread : u # t => pc'[u] = pc[u]
    BY <1>4 DEF Write, Sound, TrackerTypeOK
  <2>3. Same(copy[t], rec) => Same(stored, rec)'
    BY <2>1 DEF Same, Unbenched
  <2> QED
    BY <2>1, <2>2, <2>3 DEF RowsAreInOrder
<1>5. CASE GetState
  <2>1. rec' = Unbenched(rec) /\ UNCHANGED <<now, pc, copy, stored, overlap>>
    BY <1>5 DEF GetState, trackerHistory
  <2>2. ASSUME NEW a \in Record, Same(a, rec)
        PROVE  Unbenched(a)' = Unbenched(rec)'
    BY <2>1, <2>2, UnbenchedType DEF Same, Unbenched, Sound, TrackerTypeOK
  <2> QED
    BY <2>1, <2>2 DEF RowsAreInOrder, Same, Sound, TrackerTypeOK
<1>6. CASE Restart
  <2>1. rec' = stored' /\ \A t \in Thread : pc'[t] = "idle"
    BY <1>6 DEF Restart, Loaded, Idle
  <2> QED
    BY <2>1 DEF RowsAreInOrder, Same, Unbenched
<1>7. CASE Tick
  BY <1>7, TickKeepsRows
<1>8. CASE EngineUnbenches \/ UNCHANGED trackerVars
  <2>1. UNCHANGED <<now, rec, stored, pc, copy, overlap>>
    BY <1>8 DEF EngineUnbenches, trackerVars, process, trackerHistory
  <2> QED
    BY <2>1 DEF RowsAreInOrder, Same, Unbenched
<1> QED
  BY <1>1, <1>2, <1>3, <1>4, <1>5, <1>6, <1>7, <1>8 DEF NextTracker, Persist

-----------------------------------------------------------------------------
(* The count of days *)

\* The days the ladder has counted towards a better bucket are days on which
\* every mark since showed that bucket.
DaysAreCounted ==
  /\ \A d \in run.days : d <= Today
  /\ ~overlap /\ ~lost =>
       /\ rec.last <= Today
       /\ rec.target # NoBucket =>
            /\ rec.target = run.bucket
            /\ rec.days <= Cardinality(run.days)
            /\ \A d \in run.days : d <= rec.last

\* Adding a day to a set of days.
LEMMA OneMoreDay ==
  ASSUME NEW D \in SUBSET Dates, NEW d \in Dates
  PROVE  /\ Cardinality(D) \in Nat
         /\ Cardinality(D \cup {d}) \in Nat
         /\ Cardinality(D \cup {d}) >= Cardinality(D)
         /\ d \notin D => Cardinality(D \cup {d}) = Cardinality(D) + 1
         /\ Cardinality(D \cup {d}) >= 1 /\ Cardinality({d}) = 1
<1>1. IsFiniteSet(Dates)
  <2>1. MaxTicks \div Day \in Int
    BY CountAssumption
  <2> QED
    BY <2>1, FS_Interval DEF Dates
<1>2. IsFiniteSet(D)
  BY <1>1, FS_Subset
<1>3. Cardinality(D) \in Nat /\ Cardinality({d}) = 1
  BY <1>2, FS_CardinalityType, FS_Singleton
<1>4. /\ IsFiniteSet(D \cup {d})
      /\ Cardinality(D \cup {d}) =
           IF d \in D THEN Cardinality(D) ELSE Cardinality(D) + 1
  BY <1>2, FS_AddElement
<1>5. d \in D => Cardinality(D) >= 1
  <2> SUFFICES ASSUME d \in D PROVE Cardinality(D) # 0
    BY <1>3
  <2> QED
    BY <1>2, FS_EmptySet
<1> QED
  BY <1>3, <1>4, <1>5

\* A mark leaves the recovery count to the ladder.
LEMMA MarkedKeepsCount ==
  ASSUME NEW r \in Record, NEW e \in Equity
  PROVE  /\ Marked(r, e).bucket = r.bucket /\ Marked(r, e).target = r.target
         /\ Marked(r, e).days = r.days /\ Marked(r, e).last = r.last
BY DEF Marked, Unbenched, Record

\* LoosensSlowly of one step.
Slowly ==
  rec'.bucket < rec.bucket /\ ~overlap' /\ ~lost' =>
    /\ rec'.bucket = run'.bucket
    /\ Cardinality(run'.days) >= RecoveryDays

\* A mark that continues a recovery adds its day to the run, and the ladder
\* loosens only at the end of a run that is long enough (_apply_bucket_with_recovery).
LEMMA MarkCounts ==
  ASSUME Sound, DaysAreCounted, NEW t \in MarkThread, Mark(t)
  PROVE  DaysAreCounted' /\ Slowly
<1>1. PICK e \in Equity :
        LET r == Marked(rec, e)
        IN rec' = Laddered(r) /\ Read(Classify(r.peak, r.equity))
  BY DEF Mark
<1> DEFINE r == Marked(rec, e)
           raw == Classify(r.peak, r.equity)
           n == IF r.target # raw THEN 1
                ELSE IF Today # r.last THEN r.days + 1 ELSE r.days
           s == [r EXCEPT !.target = raw, !.days = n, !.last = Today]
<1>2. r \in Record /\ rec \in Record
  BY MarkedType DEF Sound, TrackerTypeOK
<1>3. raw \in Bucket
  BY <1>2, ClassifyType DEF Record
<1>4. Today \in Dates /\ Today \in Nat /\ Today' = Today
  <2>1. Today \in Dates
    BY TodayIsADate DEF Sound, TrackerTypeOK
  <2> QED
    BY <2>1 DEF Mark, Today, Dates
<1>5. r.bucket = rec.bucket /\ r.target = rec.target
      /\ r.days = rec.days /\ r.last = rec.last
  BY <1>2, MarkedKeepsCount
<1>6. /\ UNCHANGED <<overlap, lost>>
      /\ run' = IF raw = run.bucket THEN [run EXCEPT !.days = @ \cup {Today}]
                ELSE [bucket |-> raw, days |-> {Today}]
      /\ rec' = IF raw >= r.bucket THEN Tightened(r, raw) ELSE Recovering(r, raw)
  BY <1>1 DEF Mark, Read, Laddered
<1>7. Recovering(r, raw) = IF n >= RecoveryDays THEN Tightened(r, raw) ELSE s
  BY DEF Recovering
<1> HIDE DEF r, raw, n, s
<1>8. /\ run.days \in SUBSET Dates
      /\ run'.bucket = raw
      /\ run'.days = IF raw = run.bucket THEN run.days \cup {Today} ELSE {Today}
  BY <1>6 DEF Sound, TrackerTypeOK
<1>9. \A d \in run'.days : d <= Today
  BY <1>4, <1>8 DEF DaysAreCounted, Dates
<1>10. /\ Tightened(r, raw).bucket = raw
       /\ Tightened(r, raw).target = NoBucket
       /\ Tightened(r, raw).last = Today
  BY <1>2 DEF Tightened, Record
<1>11. /\ s.bucket = r.bucket /\ s.target = raw /\ s.days = n /\ s.last = Today
  BY <1>2 DEF s, Record
<1>12. ASSUME ~overlap, ~lost
       PROVE  /\ n \in Nat /\ Cardinality(run'.days) \in Nat
              /\ n <= Cardinality(run'.days)
  <2>1. /\ run.days \in SUBSET Dates /\ Cardinality(run.days) \in Nat
        /\ Cardinality(run.days \cup {Today}) \in Nat
        /\ Cardinality(run.days \cup {Today}) >= Cardinality(run.days)
        /\ Today \notin run.days =>
             Cardinality(run.days \cup {Today}) = Cardinality(run.days) + 1
        /\ Cardinality(run.days \cup {Today}) >= 1 /\ Cardinality({Today}) = 1
    BY <1>4, <1>8, OneMoreDay
  <2>2. rec.days \in Nat /\ rec.last \in Dates \cup {NoDate}
    BY <1>2 DEF Record
  <2>3. CASE r.target # raw
    BY <1>8, <2>1, <2>3 DEF n
  <2>4. CASE r.target = raw
    <3>1. /\ raw = run.bucket /\ rec.days <= Cardinality(run.days)
          /\ rec.last <= Today /\ \A d \in run.days : d <= rec.last
      BY <1>3, <1>5, <1>12, <2>4 DEF DaysAreCounted, Bucket, NoBucket
    <3>2. run'.days = run.days \cup {Today}
      BY <1>8, <3>1
    <3>3. Today # rec.last => Today \notin run.days
      BY <1>4, <2>2, <3>1 DEF Dates, NoDate
    <3> QED
      BY <1>5, <2>1, <2>2, <2>4, <3>1, <3>2, <3>3 DEF n
  <2> QED
    BY <2>3, <2>4
<1>13. DaysAreCounted'
  <2>1. ASSUME ~overlap', ~lost'
        PROVE  /\ rec'.last = Today
               /\ rec'.target # NoBucket => rec'.target = raw /\ rec'.days = n
    BY <1>6, <1>7, <1>10, <1>11
  <2> QED
    BY <1>4, <1>6, <1>8, <1>9, <1>12, <2>1 DEF DaysAreCounted
<1>14. Slowly
  <2> SUFFICES ASSUME rec'.bucket < rec.bucket, ~overlap', ~lost'
               PROVE  rec'.bucket = raw /\ Cardinality(run'.days) >= RecoveryDays
    BY <1>8 DEF Slowly
  <2>1. rec.bucket \in 0..4 /\ raw \in 0..4 /\ RecoveryDays \in Nat
    BY <1>2, <1>3, CountAssumption DEF Record, Bucket
  <2>2. n >= RecoveryDays /\ rec' = Tightened(r, raw)
    BY <1>5, <1>6, <1>7, <1>10, <1>11, <2>1
  <2> QED
    BY <1>6, <1>10, <1>12, <2>1, <2>2
<1> QED
  BY <1>13, <1>14

\* Every step keeps the count, and loosens slowly.
LEMMA StepCounts ==
  Inv /\ DaysAreCounted /\ [NextTracker]_trackerVars => DaysAreCounted' /\ Slowly
<1> SUFFICES ASSUME Inv, DaysAreCounted, [NextTracker]_trackerVars
             PROVE  DaysAreCounted' /\ Slowly
  OBVIOUS
<1>0. Sound /\ rec \in Record /\ stored \in Record
  BY DEF Inv, Sound, TrackerTypeOK
<1>1. CASE \E t \in MarkThread : Mark(t)
  BY <1>0, <1>1, MarkCounts
<1>2. ASSUME UNCHANGED <<now, run>>, overlap => overlap', lost => lost',
             rec'.bucket = rec.bucket, rec'.target = rec.target,
             rec'.days = rec.days, rec'.last = rec.last
      PROVE  DaysAreCounted' /\ Slowly
  <2>1. DaysAreCounted'
    BY <1>2 DEF DaysAreCounted, Today
  <2>2. ~(rec'.bucket < rec.bucket)
    BY <1>0, <1>2 DEF Record, Bucket
  <2> QED
    BY <2>1, <2>2 DEF Slowly
<1>3. CASE Trade
  <2>1. /\ rec'.bucket = rec.bucket /\ rec'.target = rec.target
        /\ rec'.days = rec.days /\ rec'.last = rec.last
    BY <1>0, <1>3 DEF Trade, Buy, SellWell, SellAtLoss, Record
  <2>2. UNCHANGED <<now, run, overlap, lost>>
    BY <1>3 DEF Trade, Buy, SellWell, SellAtLoss, Sold, trackerHistory
  <2> QED
    BY <1>2, <2>1, <2>2
<1>4. CASE Persist
  <2>1. PICK t \in Thread : Copy(t) \/ Write(t)
    BY <1>4 DEF Persist
  <2>2. UNCHANGED <<now, run, rec, lost>>
    BY <2>1 DEF Copy, Write, trackerHistory
  <2>3. overlap => overlap'
    BY <2>1, Zenon DEF Copy, Write, trackerHistory
  <2> QED
    BY <1>2, <2>2, <2>3
<1>5. CASE GetState
  <2>1. UNCHANGED <<now, run, overlap, lost>> /\ rec' = Unbenched(rec)
    BY <1>5 DEF GetState, trackerHistory
  <2>2. /\ rec'.bucket = rec.bucket /\ rec'.target = rec.target
        /\ rec'.days = rec.days /\ rec'.last = rec.last
    BY <1>0, <2>1 DEF Unbenched, Record
  <2> QED
    BY <1>2, <2>1, <2>2
<1>6. CASE EngineUnbenches \/ UNCHANGED trackerVars
  BY <1>2, <1>6 DEF EngineUnbenches, trackerVars, process, trackerHistory
<1>7. CASE Restart
  <2>1. /\ UNCHANGED <<now, run, overlap>> /\ rec' = stored
        /\ lost' = (lost \/ pc # Idle)
    BY <1>7 DEF Restart, Loaded
  <2>2. CASE overlap \/ lost'
    BY <2>1, <2>2 DEF DaysAreCounted, Slowly, Today
  <2>3. CASE ~overlap /\ ~lost'
    <3>1. Unbenched(stored) = Unbenched(rec)
      BY <2>1, <2>3 DEF Inv, RowsAreInOrder, Same, Idle
    <3>2. /\ stored.bucket = rec.bucket /\ stored.target = rec.target
          /\ stored.days = rec.days /\ stored.last = rec.last
      BY <1>0, <3>1 DEF Unbenched, Record
    <3> QED
      BY <1>2, <2>1, <2>3, <3>2
  <2> QED
    BY <2>1, <2>2, <2>3
<1>8. CASE Tick
  <2>1. /\ UNCHANGED <<run, rec, overlap, lost>>
        /\ now \in Nat /\ now' = now + 1
    BY <1>0, <1>8 DEF Tick, process, trackerHistory, Sound, TrackerTypeOK
  <2>2. Today \in Nat /\ Today' \in Nat /\ Today <= Today'
    BY <2>1, DivMonotone, CountAssumption DEF Today
  <2>3. run.days \subseteq Nat /\ rec.last \in Nat \cup {-1}
    BY <1>0 DEF Sound, TrackerTypeOK, Record, Dates, NoDate
  <2>4. DaysAreCounted'
    BY <2>1, <2>2, <2>3 DEF DaysAreCounted
  <2> QED
    BY <1>0, <2>1, <2>4 DEF Slowly, Record, Bucket
<1> QED
  BY <1>1, <1>3, <1>4, <1>5, <1>6, <1>7, <1>8 DEF NextTracker

-----------------------------------------------------------------------------
(* Theorems *)

\* The inductive invariant of the tracker: types, coverage, and the order in
\* which _maybe_persist puts rows on disk.
THEOREM Invariant == SpecTracker => []Inv
<1>1. InitTracker => Inv
  <2>1. InitTracker => RowsAreInOrder
    BY DEF InitTracker, Idle, RowsAreInOrder, Same
  <2> QED
    BY <2>1, InitIsSound DEF Inv, Sound
<1>2. Inv /\ [NextTracker]_trackerVars => Inv'
  BY StepKeepsSound, StepKeepsRows DEF Inv, Sound
<1> QED
  BY <1>1, <1>2, PTL DEF SpecTracker

\* The bucket that sizing uses is never better than the drawdown of the same
\* record, in memory, on the way to the disk, on disk and after a restart,
\* for any equities, recovery time and threads (_apply_bucket_with_recovery).
THEOREM SizingIsCovered == SpecTracker => []BucketCoversDrawdown
<1>1. Inv => BucketCoversDrawdown
  BY DEF Inv, AllCovered, Covers, BucketCoversDrawdown
<1> QED
  BY <1>1, Invariant, PTL

\* Stopping the process when nothing is being persisted loses neither bench
\* nor bucket, unless two threads were persisting at once (_maybe_persist).
THEOREM StoppingLosesNothing == SpecTracker => []DiskIsCurrent
<1>1. Inv => DiskIsCurrent
  BY DEF Inv, RowsAreInOrder, Same, DiskIsCurrent, Idle
<1> QED
  BY <1>1, Invariant, PTL

\* The ladder loosens only to a bucket that every mark of RecoveryDays
\* different days has shown, restarts included, for any number of days
\* (_apply_bucket_with_recovery).
THEOREM RecoveryTakesItsTime == SpecTracker => LoosensSlowly
<1>1. InitTracker => DaysAreCounted
  <2> SUFFICES ASSUME InitTracker PROVE DaysAreCounted
    OBVIOUS
  <2>1. Today \in Nat
    BY CountAssumption, DivMonotone DEF InitTracker, Today
  <2> QED
    BY <2>1 DEF InitTracker, Fresh, DaysAreCounted, NoDate
<1>2. Inv /\ DaysAreCounted /\ [NextTracker]_trackerVars
        => /\ DaysAreCounted'
           /\ [rec'.bucket < rec.bucket /\ ~overlap' /\ ~lost' =>
                  /\ rec'.bucket = run'.bucket
                  /\ Cardinality(run'.days) >= RecoveryDays]_trackerVars
  BY StepCounts DEF Slowly
<1> QED
  BY <1>1, <1>2, Invariant, PTL DEF SpecTracker, LoosensSlowly
=============================================================================
