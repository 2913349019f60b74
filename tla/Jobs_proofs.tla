----------------------------- MODULE Jobs_proofs -----------------------------
(***************************************************************************)
(* Theorems about the jobs that think ahead.  The Manager's strategic      *)
(* work, for any macro inputs, answers, period, weeks and restarts:        *)
(* reallocations of capital are a period apart, and the regime on record   *)
(* is that of the inputs the Friday job saw, each but for the named gaps;  *)
(* and the weights that sizing reads stay within their bounds; and an      *)
(* overdue catch-up comes to its stamp, if its steps are enabled in turn.  *)
(* News and deep dives, for any items, symbols, days and crashes: at most  *)
(* one extra dive in a week and one more for each left unmarked, no high   *)
(* impact goes on record untold but for a crash, and the rotation passes   *)
(* nobody over.                                                            *)
(***************************************************************************)
EXTENDS Strategy, Research, SumTheorems, SequenceTheorems, TLAPS

Fields == {"stage", "week", "macro", "weights"}
JobType ==
  /\ DOMAIN job = Job /\ job = [j \in Job |-> job[j]]
  /\ \A j \in Job : DOMAIN job[j] = Fields /\ job[j] = [f \in Fields |-> job[j][f]]

Types ==
  /\ JobType /\ restarts \in Nat /\ macro \in Macro
  /\ booted => job["catchup"].stage = "idle"

\* The Manager has been asked, and the date is not stamped yet.
Asked == {"write", "replace", "stamp"}

\* Two jobs past the check of the date have overlapped.
OneIsPast ==
  \A j, k \in Job : job[j].stage \in Past /\ job[k].stage \in Past /\ j # k => overlapped

\* A job that is about to ask is a period after the stamp.
StillDue ==
  \A j \in Job : job[j].stage = "call" => overlapped \/ Due(job[j].week)

\* The last week in which the Manager was asked is that of the job that has
\* asked, and when there is none, the stamp.
FiredIsKnown ==
  \/ overlapped
  \/ /\ \A j \in Job : job[j].stage \in Asked => fired = job[j].week
     /\ \/ \E j \in Job : job[j].stage \in Asked
        \/ cut \/ fired = stamp

\* What the Friday job has read is on record, or the last read brought nothing.
ReadIsRecorded ==
  /\ job["friday"].stage \in {"journal", "check"} =>
       regime = job["friday"].macro \/ unread
  /\ job["friday"].stage = "journal_only" => unread

\* The fingerprint is that of the regime on record, but while the job is about
\* to write it.
FingerprintIsRecorded ==
  job["friday"].stage # "journal" => fingerprint = None \/ regime = fingerprint \/ unread

Spacing == OneIsPast /\ StillDue /\ FiredIsKnown
Recorded == ReadIsRecorded /\ FingerprintIsRecorded
Inv == Types /\ Spacing /\ Recorded

-----------------------------------------------------------------------------
(* How a step changes one job *)

\* Job j is now at stage s, with week w and inputs m; the other one stays.
Moves(j, s, w, m) ==
  /\ JobType'
  /\ job'[j].stage = s /\ job'[j].week = w /\ job'[j].macro = m
  /\ \A k \in Job \ {j} : job'[k] = job[k]

\* Any record may take a job's place.
LEMMA Replaced ==
  ASSUME JobType, NEW j \in Job, NEW q,
         DOMAIN q = Fields, q = [f \in Fields |-> q[f]],
         job' = [job EXCEPT ![j] = q]
  PROVE  Moves(j, q.stage, q.week, q.macro)
<1>1. /\ job'[j] = q
      /\ \A k \in Job \ {j} : job'[k] = job[k]
      /\ DOMAIN job' = Job /\ job' = [k \in Job |-> job'[k]]
  BY DEF JobType
<1>2. JobType'
  BY <1>1 DEF JobType
<1> QED
  BY <1>1, <1>2 DEF Moves

\* A job that goes to another stage keeps the rest.
LEMMA GoesMoves ==
  ASSUME JobType, NEW j \in Job, NEW s, Goes(j, s)
  PROVE  Moves(j, s, job[j].week, job[j].macro)
<1> DEFINE q == [job[j] EXCEPT !.stage = s]
<1>1. DOMAIN q = Fields /\ q = [f \in Fields |-> q[f]]
  BY DEF JobType
<1>2. q.stage = s /\ q.week = job[j].week /\ q.macro = job[j].macro
  BY DEF JobType, Fields
<1>3. job' = [job EXCEPT ![j] = q]
  BY DEF Goes
<1> HIDE DEF q
<1> QED
  BY <1>1, <1>2, <1>3, Replaced

\* A job that starts has the week and the inputs of now.
LEMMA StartsMoves ==
  ASSUME JobType, NEW j \in Job, NEW s, Starts(j, s)
  PROVE  Moves(j, s, week, macro)
<1> DEFINE q == [Idle EXCEPT !.stage = s, !.week = week, !.macro = macro]
<1>1. DOMAIN q = Fields /\ q = [f \in Fields |-> q[f]]
  BY DEF Idle, Fields
<1>2. q.stage = s /\ q.week = week /\ q.macro = macro
  BY DEF Idle
<1>3. job' = [job EXCEPT ![j] = q]
  BY DEF Starts
<1> HIDE DEF q
<1> QED
  BY <1>1, <1>2, <1>3, Replaced

\* A job that ends is idle.
LEMMA EndMoves ==
  ASSUME JobType, NEW j \in Job, job' = [job EXCEPT ![j] = Idle]
  PROVE  Moves(j, "idle", 0, None)
<1>1. /\ DOMAIN Idle = Fields /\ Idle = [f \in Fields |-> Idle[f]]
      /\ Idle.stage = "idle" /\ Idle.week = 0 /\ Idle.macro = None
  BY DEF Idle, Fields
<1> QED
  BY <1>1, Replaced

\* The Manager's answer is the job's.
LEMMA AnswerMoves ==
  ASSUME JobType, NEW j \in Job, NEW w,
         job' = [job EXCEPT ![j].stage = "write", ![j].weights = w]
  PROVE  Moves(j, "write", job[j].week, job[j].macro)
<1> DEFINE q == [job[j] EXCEPT !.stage = "write", !.weights = w]
<1>1. DOMAIN q = Fields /\ q = [f \in Fields |-> q[f]]
  BY DEF JobType
<1>2. q.stage = "write" /\ q.week = job[j].week /\ q.macro = job[j].macro
  BY DEF JobType, Fields
<1>3. job' = [job EXCEPT ![j] = q]
  BY DEF JobType
<1> HIDE DEF q
<1>4. Moves(j, q.stage, q.week, q.macro)
  BY <1>1, <1>3, Replaced
<1> QED
  BY <1>2, <1>4

-----------------------------------------------------------------------------
(* The Friday job *)

\* The stages before the check of the date do not touch the reallocation.
LEMMA BeforeTheCheck ==
  ASSUME Spacing, NEW s, NEW w, NEW m, Moves("friday", s, w, m),
         job["friday"].stage \notin Past, s \notin Past,
         UNCHANGED <<stamp, fired, cut, overlapped>>
  PROVE  Spacing'
BY DEF Spacing, OneIsPast, StillDue, FiredIsKnown, Moves, Job, Past, Asked, Due

\* The gate is passed or skipped.
LEMMA FridayStartKeeps == Inv /\ FridayStart => Inv'
<1> SUFFICES ASSUME Inv, FridayStart PROVE Inv'
  OBVIOUS
<1> DEFINE s == IF Fingerprint(macro) = fingerprint THEN "check" ELSE "regime"
<1>1. Moves("friday", s, week, macro) /\ job["friday"].stage = "idle"
  BY StartsMoves DEF Inv, Types, FridayStart, Job, Idle
<1>2. Spacing'
  BY <1>1, BeforeTheCheck DEF Inv, FridayStart, records, Past
<1>3. Recorded'
  BY <1>1, MacroAssumption
     DEF Inv, Types, Recorded, ReadIsRecorded, FingerprintIsRecorded, Moves,
         FridayStart, records, Fingerprint
<1> QED
  BY <1>1, <1>2, <1>3 DEF Inv, Types, Moves, FridayStart, clock, Job

\* The regime is read: put on record, or nothing came of it.
LEMMA ReadRegimeKeeps == Inv /\ ReadRegime => Inv'
<1> SUFFICES ASSUME Inv, ReadRegime PROVE Inv'
  OBVIOUS
<1>1. PICK s \in {"journal", "journal_only"} :
        /\ Goes("friday", s)
        /\ \/ s = "journal" /\ regime' = job["friday"].macro /\ unread' = FALSE
           \/ unread' = TRUE
  BY DEF ReadRegime
<1>2. Moves("friday", s, job["friday"].week, job["friday"].macro)
  BY <1>1, GoesMoves DEF Inv, Types, Job
<1>3. Spacing'
  BY <1>2, BeforeTheCheck DEF Inv, ReadRegime, Past
<1>4. Recorded'
  BY <1>1, <1>2 DEF Recorded, ReadIsRecorded, FingerprintIsRecorded, Moves
<1> QED
  BY <1>2, <1>3, <1>4 DEF Inv, Types, Moves, ReadRegime, clock, Job

\* The journal is written, and the fingerprint of the inputs read.
LEMMA WriteJournalKeeps == Inv /\ WriteJournal => Inv'
<1> SUFFICES ASSUME Inv, WriteJournal PROVE Inv'
  OBVIOUS
<1>1. Moves("friday", "check", job["friday"].week, job["friday"].macro)
  BY GoesMoves DEF Inv, Types, Job, WriteJournal
<1>2. Spacing'
  BY <1>1, BeforeTheCheck DEF Inv, WriteJournal, records, Past
<1>3. Recorded'
  BY <1>1 DEF Inv, Recorded, ReadIsRecorded, FingerprintIsRecorded, Moves,
              WriteJournal, records, Fingerprint
<1> QED
  BY <1>1, <1>2, <1>3 DEF Inv, Types, Moves, WriteJournal, clock, Job

-----------------------------------------------------------------------------
(* The reallocation *)

\* Past the check of the date, nothing is left of the Friday job but the
\* reallocation.
LEMMA AfterTheCheck ==
  ASSUME Recorded, NEW j \in Job, NEW s, NEW w, NEW m, Moves(j, s, w, m),
         s \notin {"journal", "journal_only"},
         s = "check" => j # "friday",
         job[j].stage # "journal",
         UNCHANGED <<regime, unread, fingerprint>>
  PROVE  Recorded'
BY DEF Recorded, ReadIsRecorded, FingerprintIsRecorded, Moves, Job

\* Nor do its steps touch the clock; and the catch-up of a boot is over once it
\* has started.
LEMMA AfterTheBoot ==
  ASSUME Types, NEW j \in Job, NEW s, NEW w, NEW m, Moves(j, s, w, m),
         job[j].stage # "idle", UNCHANGED <<macro, restarts, booted>>
  PROVE  Types'
BY DEF Types, Moves, Job

\* The catch-up starts once in a boot.
LEMMA CatchUpKeeps == Inv /\ CatchUp => Inv'
<1> SUFFICES ASSUME Inv, CatchUp PROVE Inv'
  OBVIOUS
<1>1. Moves("catchup", "check", week, macro) /\ job["catchup"].stage = "idle"
  BY StartsMoves DEF Inv, Types, CatchUp, Job
<1>2. Types'
  BY <1>1 DEF Inv, Types, CatchUp, Moves, clock
<1>3. Spacing'
  BY <1>1 DEF Inv, Spacing, OneIsPast, StillDue, FiredIsKnown, Moves, Job, Past,
              Asked, Due, CatchUp, records
<1>4. Recorded'
  BY <1>1, AfterTheCheck DEF Inv, CatchUp, records, Job
<1> QED
  BY <1>2, <1>3, <1>4 DEF Inv

\* Only a job for which the reallocation is due passes, and an overlap is seen.
LEMMA CheckDateKeeps ==
  ASSUME Inv, NEW j \in Job, CheckDate(j)
  PROVE  Inv'
<1>1. /\ job[j].stage = "check"
      /\ UNCHANGED <<week, macro, booted, restarts, stamp, regime, fingerprint,
                     fired, unread, cut>>
      /\ overlapped => overlapped'
      /\ job'[j].stage = "call" /\ (\E k \in Job \ {j} : job[k].stage \in Past)
           => overlapped'
  BY DEF CheckDate, clock, records
<1>2. CASE Due(job[j].week)
  <2>1. Moves(j, "call", job[j].week, job[j].macro)
    <3>1. Goes(j, "call")
      BY <1>2 DEF CheckDate, Goes, Inv, Types, JobType
    <3> QED
      BY <3>1, GoesMoves DEF Inv, Types
  <2>2. Types'
    BY <1>1, <2>1, AfterTheBoot DEF Inv
  <2>3. OneIsPast'
    BY <1>1, <2>1 DEF Inv, Spacing, OneIsPast, Moves
  <2>4. StillDue'
    BY <1>1, <1>2, <2>1 DEF Inv, Spacing, StillDue, Moves, Due
  <2>5. FiredIsKnown'
    BY <1>1, <2>1 DEF Inv, Spacing, FiredIsKnown, Moves, Asked
  <2>6. Recorded'
    BY <1>1, <2>1, AfterTheCheck DEF Inv
  <2> QED
    BY <2>2, <2>3, <2>4, <2>5, <2>6 DEF Inv, Spacing
<1>3. CASE ~Due(job[j].week)
  <2>1. Moves(j, "idle", 0, None)
    BY <1>3, EndMoves DEF CheckDate, Inv, Types, JobType
  <2>2. Types'
    BY <1>1, <2>1, AfterTheBoot DEF Inv
  <2>3. OneIsPast' /\ StillDue'
    BY <1>1, <2>1 DEF Inv, Spacing, OneIsPast, StillDue, Moves, Past, Due
  <2>4. FiredIsKnown'
    BY <1>1, <2>1 DEF Inv, Spacing, FiredIsKnown, Moves, Asked
  <2>5. Recorded'
    BY <1>1, <2>1, AfterTheCheck DEF Inv
  <2> QED
    BY <2>2, <2>3, <2>4, <2>5 DEF Inv, Spacing
<1> QED
  BY <1>2, <1>3

\* Whoever asks was the only one past the check, or there was an overlap; and
\* it is a period after the last time, or a stamp was cut off.
LEMMA CallKeeps ==
  ASSUME Inv, NEW j \in Job, Call(j)
  PROVE  Inv' /\ (overlapped \/ cut \/ job[j].week - fired >= Period)
<1>1. /\ job[j].stage = "call" /\ fired' = job[j].week
      /\ UNCHANGED <<week, macro, booted, restarts, stamp, regime, fingerprint,
                     unread, cut, overlapped>>
  BY DEF Call, clock, records
<1>2. PICK s \in {"write", "stamp"} : Moves(j, s, job[j].week, job[j].macro)
  BY AnswerMoves, GoesMoves DEF Call, Inv, Types
<1>3. Types'
  BY <1>1, <1>2, AfterTheBoot DEF Inv
<1>4. OneIsPast' /\ StillDue'
  BY <1>1, <1>2 DEF Inv, Spacing, OneIsPast, StillDue, Moves, Past, Due
<1>5. overlapped \/ \A k \in Job \ {j} : job[k].stage \notin Past
  BY <1>1 DEF Inv, Spacing, OneIsPast, Past
<1>6. FiredIsKnown'
  BY <1>1, <1>2, <1>5 DEF FiredIsKnown, Moves, Asked, Past
<1>7. Recorded'
  BY <1>1, <1>2, AfterTheCheck DEF Inv
<1>8. overlapped \/ cut \/ fired = stamp
  BY <1>1, <1>5 DEF Inv, Spacing, FiredIsKnown, Asked, Past
<1>9. overlapped \/ cut \/ job[j].week - fired >= Period
  BY <1>1, <1>8 DEF Inv, Spacing, StillDue, Due
<1> QED
  BY <1>3, <1>4, <1>6, <1>7, <1>9 DEF Inv, Spacing

\* The file is written in two steps.
LEMMA WritingKeeps ==
  ASSUME Inv, NEW j \in Job, WriteTmp(j) \/ Replace(j)
  PROVE  Inv'
<1>1. /\ job[j].stage \in {"write", "replace"}
      /\ UNCHANGED <<week, macro, booted, restarts, stamp, regime, fingerprint,
                     fired, unread, cut, overlapped>>
  BY DEF WriteTmp, Replace, clock, records
<1>2. PICK s \in {"replace", "stamp"} : Moves(j, s, job[j].week, job[j].macro)
  BY GoesMoves DEF WriteTmp, Replace, Inv, Types
<1>3. Types'
  BY <1>1, <1>2, AfterTheBoot DEF Inv
<1>4. OneIsPast' /\ StillDue'
  BY <1>1, <1>2 DEF Inv, Spacing, OneIsPast, StillDue, Moves, Past, Due
<1>5. FiredIsKnown'
  BY <1>1, <1>2 DEF Inv, Spacing, FiredIsKnown, Moves, Asked
<1>6. Recorded'
  BY <1>1, <1>2, AfterTheCheck DEF Inv
<1> QED
  BY <1>3, <1>4, <1>5, <1>6 DEF Inv, Spacing

\* The stamp is the week in which the Manager was asked.
LEMMA StampKeeps ==
  ASSUME Inv, NEW j \in Job, Stamp(j)
  PROVE  Inv'
<1>1. /\ job[j].stage = "stamp" /\ stamp' = job[j].week
      /\ UNCHANGED <<week, macro, booted, restarts, regime, fingerprint, fired,
                     unread, overlapped>>
  BY DEF Stamp, clock
<1>2. Moves(j, "idle", 0, None)
  BY EndMoves DEF Stamp, Inv, Types
<1>3. Types'
  BY <1>1, <1>2, AfterTheBoot DEF Inv
<1>4. overlapped \/ \A k \in Job \ {j} : job[k].stage \notin Past
  BY <1>1 DEF Inv, Spacing, OneIsPast, Past
<1>5. OneIsPast' /\ StillDue'
  BY <1>1, <1>2, <1>4 DEF Inv, Spacing, OneIsPast, StillDue, Moves, Past, Due
<1>6. FiredIsKnown'
  BY <1>1, <1>2, <1>4 DEF Inv, Spacing, FiredIsKnown, Moves, Asked, Past
<1>7. Recorded'
  BY <1>1, <1>2, AfterTheCheck DEF Inv
<1> QED
  BY <1>3, <1>5, <1>6, <1>7 DEF Inv, Spacing

-----------------------------------------------------------------------------
(* Around them *)

\* A restart cuts off the stamp of a job that has asked.
LEMMA RestartKeeps == Inv /\ Restart => Inv'
<1> SUFFICES ASSUME Inv, Restart PROVE Inv'
  OBVIOUS
<1>1. /\ \A j \in Job : job'[j] = Idle
      /\ UNCHANGED <<macro, regime, stamp, fired, unread, overlapped>>
      /\ fingerprint' = None /\ restarts' = restarts + 1
      /\ cut' = (cut \/ \E j \in Job : job[j].stage \in Asked)
  BY DEF Restart, clock, records, Asked
<1>2. JobType'
  BY DEF Restart, JobType, Idle, Fields
<1>3. Types'
  BY <1>1, <1>2 DEF Inv, Types, Idle, Job
<1>7. \A j \in Job : job'[j].stage = "idle"
  BY <1>1 DEF Idle
<1>4. OneIsPast' /\ StillDue'
  BY <1>7 DEF OneIsPast, StillDue, Past
<1>5. FiredIsKnown'
  BY <1>1, <1>7 DEF Inv, Spacing, FiredIsKnown, Asked
<1>6. Recorded'
  BY <1>1 DEF Recorded, ReadIsRecorded, FingerprintIsRecorded, Idle, Job
<1> QED
  BY <1>3, <1>4, <1>5, <1>6 DEF Inv, Spacing

\* The world's steps and stuttering leave the jobs and their records alone.
LEMMA AroundKeeps ==
  ASSUME Inv, MacroChanges \/ NewWeek \/ UNCHANGED vars
  PROVE  Inv'
<1>1. /\ UNCHANGED <<booted, job, fingerprint, regime, stamp, restarts, fired,
                     unread, cut, overlapped>>
      /\ macro' \in Macro
  BY DEF MacroChanges, NewWeek, vars, clock, records, Inv, Types
<1>2. Types'
  BY <1>1 DEF Inv, Types, JobType
<1>3. Spacing'
  BY <1>1 DEF Inv, Spacing, OneIsPast, StillDue, FiredIsKnown, Due
<1>4. Recorded'
  BY <1>1 DEF Inv, Recorded, ReadIsRecorded, FingerprintIsRecorded
<1> QED
  BY <1>2, <1>3, <1>4 DEF Inv

-----------------------------------------------------------------------------
(* The theorems *)

\* The first state.
LEMMA Initially == Init => Inv
<1> SUFFICES ASSUME Init PROVE Inv
  OBVIOUS
<1>1. \A j \in Job : job[j] = Idle
  BY DEF Init
<1>2. Types
  BY DEF Init, Types, JobType, Idle, Fields, Job
<1>3. \A j \in Job : job[j].stage = "idle"
  BY <1>1 DEF Idle
<1>5. Spacing
  BY <1>3 DEF Init, Spacing, OneIsPast, StillDue, FiredIsKnown, Asked, Past
<1>4. Recorded
  BY <1>1 DEF Init, Recorded, ReadIsRecorded, FingerprintIsRecorded, Idle, Job
<1> QED
  BY <1>2, <1>4, <1>5 DEF Inv

\* Every step.
LEMMA Inductive == Inv /\ [Next]_vars => Inv'
BY FridayStartKeeps, ReadRegimeKeeps, WriteJournalKeeps, CatchUpKeeps,
   CheckDateKeeps, CallKeeps, WritingKeeps, StampKeeps, RestartKeeps, AroundKeeps
   DEF Next

\* The invariant holds all along: what passed the check of the date, what was
\* asked for and what is on record fit together.
THEOREM Invariant == Spec => []Inv
BY Initially, Inductive, PTL DEF Spec

\* When the Friday job turns to capital, the regime on record was read under
\* the inputs the job saw, unless the last read brought nothing
\* (_job_manager_friday).
THEOREM RegimeIsOfItsInputs == Spec => []RegimeIsCurrent
<1>1. Inv => RegimeIsCurrent
  BY DEF Inv, Recorded, ReadIsRecorded, RegimeIsCurrent
<1> QED
  BY <1>1, Invariant, PTL

\* A job that asks the Manager does so a period after the last time, or after
\* an overlap or a stamp that was cut off.
Spaced ==
  \A j \in Job :
    (job[j].stage = "call" /\ job'[j].stage # "call" /\ restarts' = restarts)
      => overlapped \/ cut \/ job[j].week - fired >= Period

\* Reallocations are asked for at least a period apart, restarts included,
\* unless the two jobs overlap or a crash comes before the stamp
\* (_run_capital_reallocation_if_due).
THEOREM PeriodIsKept == Spec => ReallocationsAreSpaced
<1>1. Inv /\ [Next]_vars => [Spaced]_vars
  <2> SUFFICES ASSUME Inv, Next,
                      NEW j \in Job, job[j].stage = "call", job'[j].stage # "call",
                      restarts' = restarts
               PROVE  overlapped \/ cut \/ job[j].week - fired >= Period
    BY DEF Spaced
  <2>1. CASE Call(j)
    BY <2>1, CallKeeps
  <2>2. ASSUME NEW k \in Job, k # j,
               CheckDate(k) \/ Call(k) \/ WriteTmp(k) \/ Replace(k) \/ Stamp(k)
        PROVE  job'[j] = job[j]
    BY <2>2 DEF CheckDate, Call, WriteTmp, Replace, Stamp, Goes, Inv, Types, JobType
  <2>3. ~(CheckDate(j) \/ WriteTmp(j) \/ Replace(j) \/ Stamp(j))
    BY DEF CheckDate, WriteTmp, Replace, Stamp
  <2>4. FridayStart \/ ReadRegime \/ WriteJournal => job'[j] = job[j]
    BY DEF FridayStart, ReadRegime, WriteJournal, Starts, Goes, Idle, Job, Inv, Types,
           JobType
  <2>5. CatchUp => job'[j] = job[j]
    BY DEF CatchUp, Starts, Job, Inv, Types, JobType
  <2>6. MacroChanges \/ NewWeek => job' = job
    BY DEF MacroChanges, NewWeek
  <2>7. ~Restart
    <3>1. restarts \in Nat
      BY DEF Inv, Types
    <3>2. Restart => restarts' = restarts + 1
      BY Zenon DEF Restart
    <3>3. restarts + 1 # restarts
      BY <3>1
    <3> QED
      BY <3>2, <3>3
  <2> QED
    BY <2>1, <2>2, <2>3, <2>4, <2>5, <2>6, <2>7 DEF Next
<1> QED
  BY <1>1, Invariant, PTL DEF Spec, ReallocationsAreSpaced, Spaced

-----------------------------------------------------------------------------
(* The sleeve weights: the numbers of an answer, and the two files *)

\* Weights within 25 % of the base, for the sleeves they name.
Sane(w) == \A s \in DOMAIN w : w[s] \in 75..125

\* A file holds such weights, or half of them, after an overlap.
Readable(f) == Sane(f) \/ (f = Torn /\ overlapped)

\* A job is about to write weights that are sane.
Filed ==
  /\ Readable(tmp) /\ Readable(file)
  /\ \A j \in Job : job[j].stage = "write" => Sane(job[j].weights)

\* A number brought between two bounds.
Between(lo, hi, x) == Max({lo, Min({hi, x})})

\* It is between them, and was left as it was if it was there before.
LEMMA ClampIsWithin ==
  ASSUME NEW lo \in Int, NEW hi \in Int, lo <= hi, NEW x \in Int
  PROVE  /\ Between(lo, hi, x) \in lo..hi
         /\ x \in lo..hi => Between(lo, hi, x) = x
<1> DEFINE m == Min({hi, x})
           n == Max({lo, m})
<1>1. m \in {hi, x} /\ \A y \in {hi, x} : m <= y
  <2>1. IsFiniteSet({hi, x}) /\ {hi, x} # {} /\ {hi, x} \subseteq Int
    BY PairIsFinite
  <2> QED
    BY <2>1, MinIsSmallest
<1>2. m \in Int
  BY <1>1
<1>3. n \in {lo, m} /\ \A y \in {lo, m} : y <= n
  <2> HIDE DEF m
  <2>1. IsFiniteSet({lo, m}) /\ {lo, m} # {} /\ {lo, m} \subseteq Int
    BY <1>2, PairIsFinite
  <2> QED
    BY <2>1, MaxIsLargest
<1>4. n = Between(lo, hi, x)
  BY DEF Between
<1> HIDE DEF m, n
<1>5. n \in lo..hi /\ (x \in lo..hi => n = x)
  BY <1>1, <1>2, <1>3
<1> QED
  BY <1>4, <1>5

\* The bounds of a reallocation, and those of the reader.
LEMMA WeightsAreClamped ==
  \A x \in Int : /\ Max({75, Min({125, x})}) \in 75..125
                 /\ x \in 75..125 => Max({25, Min({200, x})}) = x
<1> TAKE x \in Int
<1>3. ASSUME NEW lo \in Int, NEW hi \in Int, lo <= hi
      PROVE  /\ Between(lo, hi, x) \in lo..hi
             /\ x \in lo..hi => Between(lo, hi, x) = x
  BY <1>3, ClampIsWithin
<1>5. 75 \in Int /\ 125 \in Int /\ 75 <= 125 /\ 25 \in Int /\ 200 \in Int /\ 25 <= 200
  OBVIOUS
<1>4. Between(75, 125, x) \in 75..125
  BY <1>3, <1>5, Zenon
<1>1. x \in 25..200 => Between(25, 200, x) = x
  BY <1>3, <1>5, Zenon
<1>2. x \in 75..125 => Between(25, 200, x) = x
  BY <1>1
<1> QED
  BY <1>2, <1>4, Zenon DEF Between

\* Quotients of integers are integers.
LEMMA QuotientIsInt == \A x \in Int : \A y \in Int : y > 0 => x \div y \in Int
OBVIOUS

\* For every shape of answer the multipliers are numbers
\* (_run_capital_reallocation_if_due).
LEMMA MappedIsInt ==
  ASSUME NEW a \in Answers
  PROVE  \A s \in DOMAIN a.new : Mapped(a)[s] \in Int
<1>1. PICK S \in SUBSET Sleeve : a.new \in [S -> Amount]
  BY DEF Answers
<1>2. a.cur \in [Sleeve -> Amount] /\ a.shape \in {"dollars", "bare", "weights"}
  BY DEF Answers
<1>3. DOMAIN a.new = S /\ Amount \subseteq Nat
  BY <1>1, StrategyAssumption
<1>4. IsFiniteSet(S)
  BY StrategyAssumption, FS_Subset
<1> TAKE s \in DOMAIN a.new
<1>12. /\ \A x \in S : a.new[x] \in Nat
       /\ a.cur[s] \in Nat
  <2>1. \A x \in S : a.new[x] \in Amount
    BY <1>1
  <2>2. s \in Sleeve
    BY <1>3
  <2>3. a.cur[s] \in Amount
    BY <1>2, <2>2
  <2> QED
    BY <1>3, <2>1, <2>3
<1>5. a.new[s] \in Nat /\ a.cur[s] \in Nat /\ 100 * a.new[s] \in Int
  BY <1>3, <1>12
<1> DEFINE sum == MapThenSumSet(LAMBDA x : a.new[x], DOMAIN a.new)
           num == 100 * a.new[s] * Cardinality(DOMAIN a.new)
<1>6. sum \in Int
  <2>1. \A x \in S : a.new[x] \in Int
    BY <1>12
  <2>2. SumOver(a.new, S) \in Int
    BY <1>4, <2>1, SumIsInt
  <2> QED
    BY <1>3, <2>2 DEF SumOver
<1>7. num \in Int
  <2>1. Cardinality(DOMAIN a.new) \in Int
    BY <1>3, <1>4, FS_CardinalityType
  <2> QED
    BY <1>5, <2>1
<1>8. Mapped(a)[s] =
        CASE a.shape = "dollars" -> IF a.cur[s] > 0 THEN (100 * a.new[s]) \div a.cur[s]
                                    ELSE 100 * a.new[s]
          [] a.shape = "bare" -> IF sum > 0 THEN num \div sum ELSE 100 * a.new[s]
          [] OTHER -> 100 * a.new[s]
  BY DEF Mapped
<1> HIDE DEF sum, num
<1>9. CASE a.shape = "dollars"
  <2>1. a.cur[s] > 0 => (100 * a.new[s]) \div a.cur[s] \in Int
    BY <1>5, QuotientIsInt
  <2> QED
    BY <1>5, <1>8, <1>9, <2>1
<1>10. CASE a.shape = "bare"
  <2>1. sum > 0 => num \div sum \in Int
    BY <1>6, <1>7, QuotientIsInt
  <2> QED
    BY <1>5, <1>8, <1>10, <2>1
<1>11. CASE a.shape = "weights"
  BY <1>5, <1>8, <1>11
<1> QED
  BY <1>2, <1>9, <1>10, <1>11

\* So the clamped ones are sane.
LEMMA OutcomesAreSane ==
  ASSUME NEW w \in Outcomes
  PROVE  Sane(w)
<1>1. PICK a \in Answers : w = Clamped(a)
  BY DEF Outcomes
<1>2. ASSUME NEW s \in DOMAIN w PROVE w[s] \in 75..125
  <2>1. s \in DOMAIN a.new /\ w[s] = Max({75, Min({125, Mapped(a)[s]})})
    BY <1>1 DEF Clamped
  <2>2. Mapped(a)[s] \in Int
    BY <2>1, MappedIsInt
  <2> QED
    <3>1. Max({75, Min({125, Mapped(a)[s]})}) \in 75..125
      BY <2>2, WeightsAreClamped, Zenon
    <3> QED
      BY <2>1, <3>1, Zenon
<1> QED
  BY <1>2 DEF Sane

\* Nothing to write: the files stay, and no job comes to the writing.
LEMMA QuietFiles ==
  ASSUME Filed, UNCHANGED files, overlapped => overlapped',
         \A j \in Job : job'[j] = job[j] \/ job'[j].stage # "write"
  PROVE  Filed'
BY DEF Filed, Readable, Sane, files

\* The steps of the Friday job, the start of the catch-up and the stamp.
LEMMA OtherJobSteps ==
  ASSUME Inv, NEW j \in Job,
         FridayStart \/ ReadRegime \/ WriteJournal \/ CatchUp \/ CheckDate(j) \/ Stamp(j)
  PROVE  /\ UNCHANGED files /\ (overlapped => overlapped')
         /\ \A k \in Job : job'[k] = job[k] \/ job'[k].stage # "write"
<1>1. UNCHANGED files /\ (overlapped => overlapped')
  <2>1. FridayStart \/ ReadRegime \/ WriteJournal \/ CatchUp
          => UNCHANGED <<files, overlapped>>
    BY DEF FridayStart, ReadRegime, WriteJournal, CatchUp
  <2>2. CheckDate(j) => UNCHANGED files /\ (overlapped => overlapped')
    BY DEF CheckDate
  <2>3. Stamp(j) => UNCHANGED <<files, overlapped>>
    BY DEF Stamp
  <2> QED
    BY <2>1, <2>2, <2>3 DEF files
<1>2. \E k \in Job, s \in {"check", "regime", "journal", "journal_only"} :
        Starts(k, s) \/ Goes(k, s) \/ job' = [job EXCEPT ![k] = Idle]
        \/ Goes(k, "call")
  BY DEF FridayStart, ReadRegime, WriteJournal, CatchUp, CheckDate, Stamp, Job, Goes, Inv, Types, JobType
<1>3. \E k \in Job : \E s, w, m : Moves(k, s, w, m) /\ s # "write"
  BY <1>2, StartsMoves, GoesMoves, EndMoves DEF Inv, Types
<1> QED
  BY <1>1, <1>3 DEF Moves

\* The Manager's answer is sane.
LEMMA CallFiles ==
  ASSUME Inv, Filed, NEW j \in Job, Call(j)
  PROVE  Filed'
<1>1. UNCHANGED files /\ UNCHANGED overlapped
  BY DEF Call
<1>2. CASE Goes(j, "stamp")
  <2>1. Moves(j, "stamp", job[j].week, job[j].macro)
    BY <1>2, GoesMoves DEF Inv, Types
  <2> QED
    BY <1>1, <2>1, QuietFiles DEF Moves
<1>3. ASSUME NEW w \in Outcomes,
             job' = [job EXCEPT ![j].stage = "write", ![j].weights = w]
      PROVE  Filed'
  <2>1. Moves(j, "write", job[j].week, job[j].macro)
    BY <1>3, AnswerMoves DEF Inv, Types
  <2>2. job'[j].weights = w
    BY <1>3 DEF Inv, Types, JobType, Fields
  <2>3. Sane(w)
    BY OutcomesAreSane
  <2>4. \A k \in Job : job'[k].stage = "write" => Sane(job'[k].weights)
    BY <2>1, <2>2, <2>3 DEF Filed, Moves
  <2> QED
    BY <1>1, <2>4 DEF Filed, Readable, Sane, files
<1> QED
  BY <1>2, <1>3 DEF Call

\* The second of two writers leaves half a file: they have overlapped.
LEMMA WriteTmpFiles ==
  ASSUME Inv, Filed, NEW j \in Job, WriteTmp(j)
  PROVE  Filed'
<1>1. /\ job[j].stage = "write" /\ UNCHANGED <<file, overlapped>>
      /\ tmp' = IF \E k \in Job \ {j} : job[k].stage = "replace" THEN Torn
                ELSE job[j].weights
  BY DEF WriteTmp
<1>2. Moves(j, "replace", job[j].week, job[j].macro)
  BY GoesMoves DEF WriteTmp, Inv, Types
<1>3. Readable(tmp)'
  <2>1. CASE \E k \in Job \ {j} : job[k].stage = "replace"
    BY <1>1, <2>1 DEF Readable, Inv, Spacing, OneIsPast, Past
  <2>2. CASE ~\E k \in Job \ {j} : job[k].stage = "replace"
    BY <1>1, <2>2 DEF Readable, Filed
  <2> QED
    BY <2>1, <2>2
<1>4. Readable(file)'
  BY <1>1 DEF Readable, Filed
<1>5. \A k \in Job : job'[k].stage = "write" => Sane(job'[k].weights)
  BY <1>2 DEF Filed, Moves
<1> QED
  BY <1>3, <1>4, <1>5 DEF Filed, Readable, Sane

\* The file becomes what the temporary one was.
LEMMA ReplaceFiles ==
  ASSUME Inv, Filed, NEW j \in Job, Replace(j)
  PROVE  Filed'
<1>1. /\ UNCHANGED overlapped /\ tmp' = None /\ file' \in {file, tmp}
  BY DEF Replace
<1>2. Moves(j, "stamp", job[j].week, job[j].macro)
  BY GoesMoves DEF Replace, Inv, Types
<1>3. Sane(None)
  BY DEF Sane, None
<1>4. \A k \in Job : job'[k].stage = "write" => Sane(job'[k].weights)
  BY <1>2 DEF Filed, Moves
<1> QED
  BY <1>1, <1>3, <1>4 DEF Filed, Readable, Sane

\* Every step.
LEMMA FilesStep == Inv /\ Filed /\ [Next]_vars => Filed'
<1> SUFFICES ASSUME Inv, Filed, [Next]_vars PROVE Filed'
  OBVIOUS
<1>0. "catchup" \in Job
  BY DEF Job
<1>1. ASSUME NEW j \in Job,
             FridayStart \/ ReadRegime \/ WriteJournal \/ CatchUp \/ CheckDate(j) \/ Stamp(j)
      PROVE  Filed'
  BY <1>1, OtherJobSteps, QuietFiles
<1>2. ASSUME NEW j \in Job, Call(j) \/ WriteTmp(j) \/ Replace(j) PROVE Filed'
  BY <1>2, CallFiles, WriteTmpFiles, ReplaceFiles
<1>3. CASE MacroChanges \/ NewWeek \/ UNCHANGED vars
  <2>1. UNCHANGED <<files, overlapped, job>>
    BY <1>3 DEF MacroChanges, NewWeek, vars
  <2> QED
    BY <2>1, QuietFiles
<1>4. CASE Restart
  <2>1. UNCHANGED <<files, overlapped>> /\ \A j \in Job : job'[j] = Idle
    BY <1>4 DEF Restart
  <2>2. \A j \in Job : job'[j].stage # "write"
    BY <2>1 DEF Idle
  <2> QED
    BY <2>1, <2>2, QuietFiles
<1> QED
  BY <1>0, <1>1, <1>2, <1>3, <1>4 DEF Next

\* For any sleeves, amounts, answers, weeks and restarts: what sizing multiplies
\* a cap by stays within 25 % of the base, and half a file is left only by two
\* jobs at once (write_sleeve_weights, read_sleeve_weights).
THEOREM WeightsStaySane == Spec => []WeightsAreSane
<1>1. Init => Filed
  <2> SUFFICES ASSUME Init PROVE Filed
    OBVIOUS
  <2>1. tmp = None /\ file = None /\ \A j \in Job : job[j] = Idle
    BY DEF Init
  <2>2. Sane(None) /\ Idle.stage # "write"
    BY DEF Sane, None, Idle
  <2> QED
    BY <2>1, <2>2 DEF Filed, Readable
<1>2. Filed => WeightsAreSane
  <2> SUFFICES ASSUME Filed PROVE WeightsAreSane
    OBVIOUS
  <2>1. ~Sane(Torn)
    BY DEF Sane, Torn
  <2>2. file = Torn => overlapped
    BY <2>1 DEF Filed, Readable
  <2>3. Sane(ReadSleeveWeights)
    <3>1. Sane(None)
      BY DEF Sane, None
    <3> QED
      BY <3>1 DEF Filed, Readable, ReadSleeveWeights
  <2>4. ASSUME NEW s \in Sleeve PROVE SleeveWeight(s) \in 75..125
    <3> DEFINE w == ReadSleeveWeights
    <3>1. CASE s \in DOMAIN w
      <4>1. w[s] \in 75..125
        BY <2>3, <3>1 DEF Sane
      <4>2. w[s] \in Int
        BY <4>1
      <4>3. SleeveWeight(s) = Max({25, Min({200, w[s]})})
        BY <3>1 DEF SleeveWeight
      <4>4. SleeveWeight(s) = w[s]
        BY <4>1, <4>2, <4>3, WeightsAreClamped, Zenon
      <4> QED
        BY <4>1, <4>4
    <3>2. CASE s \notin DOMAIN w
      BY <3>2 DEF SleeveWeight
    <3> QED
      BY <3>1, <3>2
  <2> QED
    BY <2>2, <2>4 DEF WeightsAreSane
<1> QED
  BY <1>1, <1>2, FilesStep, Initially, Inductive, PTL DEF Spec

-----------------------------------------------------------------------------
(* News and deep dives: module Research *)

\* The scoring job is a record of a stage and an item.  A dive is begun only in
\* a week without the mark, and such a week has seen none but those that were
\* left unmarked and the one being marked.
DivesInv ==
  /\ DOMAIN at = {"stage", "item"}
  /\ extra \in Nat /\ unmarked \in Nat
  /\ extra <= unmarked + 1
  /\ at.stage = "dive" => ~quota
  /\ ~quota /\ at.stage # "mark" => extra <= unmarked

\* The job goes on with an item to score, or ends its batch (score_batch).
LEMMA StagesOfNextItem ==
  ASSUME NextItem
  PROVE  /\ at'.stage \in {"idle", "score"}
         /\ DOMAIN at' = {"stage", "item"}
BY DEF NextItem, NoItem

\* Setting the stage of the job sets it, and leaves a record of both fields.
LEMMA StageChanges ==
  ASSUME DOMAIN at = {"stage", "item"}, NEW s
  PROVE  /\ [at EXCEPT !.stage = s].stage = s
         /\ DOMAIN [at EXCEPT !.stage = s] = {"stage", "item"}
OBVIOUS

\* So does setting the stage and the item together.
LEMMA StageAndItemChange ==
  ASSUME DOMAIN at = {"stage", "item"}, NEW s, NEW i
  PROVE  /\ [at EXCEPT !.stage = s, !.item = i].stage = s
         /\ DOMAIN [at EXCEPT !.stage = s, !.item = i] = {"stage", "item"}
OBVIOUS

\* Every step keeps the invariant: the dive is begun only while the week has no
\* mark, and the mark follows it, or one more is missing (_on_news_high_impact).
LEMMA StepKeepsDives == DivesInv /\ [NextResearch]_researchVars => DivesInv'
<1> SUFFICES ASSUME DivesInv, [NextResearch]_researchVars PROVE DivesInv'
  OBVIOUS
<1> USE DEF DivesInv
\* Steps that leave quota and history alone and do not enter or leave a dive.
<1>1. ASSUME UNCHANGED <<quota, extra, unmarked>>, at.stage # "mark",
             \/ UNCHANGED at
             \/ /\ at'.stage \notin {"dive", "mark"}
                /\ DOMAIN at' = {"stage", "item"}
      PROVE  DivesInv'
  BY <1>1
<1>2. CASE \E i \in Item : Fetch(i) \/ Age(i)
  BY <1>2 DEF Fetch, Age, scoring, memory, history
<1>3. CASE ListBatch
  BY <1>3 DEF ListBatch, memory, history, NoItem
<1>4. CASE Score
  <2>1. \/ NextItem
        \/ \E s \in Impacts : at' = [at EXCEPT !.stage = s, !.item = Head(todo)]
    BY <1>4 DEF Score
  <2>2. \/ NextItem
        \/ \E s \in Impacts : at'.stage = s /\ DOMAIN at' = {"stage", "item"}
    BY <2>1, StageAndItemChange
  <2>3. /\ at'.stage \notin {"dive", "mark"}
        /\ DOMAIN at' = {"stage", "item"}
    BY <2>2, StagesOfNextItem DEF Impacts
  <2> QED
    BY <1>1, <1>4, <2>3 DEF Score, memory, history
<1>5. CASE Persist
  <2>1. NextItem \/ at' = [at EXCEPT !.stage = "publish"]
    BY <1>5 DEF Persist
  <2>2. NextItem \/ (at'.stage = "publish" /\ DOMAIN at' = {"stage", "item"})
    BY <2>1, StageChanges
  <2>3. /\ at'.stage \notin {"dive", "mark"} /\ at.stage # "mark"
        /\ DOMAIN at' = {"stage", "item"}
    BY <1>5, <2>2, StagesOfNextItem DEF Persist, Impacts
  <2> QED
    BY <1>1, <1>5, <2>3 DEF Persist, memory, history
<1>6. CASE Publish
  <2>1. at.stage = "publish" /\ UNCHANGED <<quota, extra, unmarked>>
    BY <1>6 DEF Publish, memory
  <2>2. NextItem \/ (~quota /\ at' = [at EXCEPT !.stage = "dive"])
    BY <1>6 DEF Publish, WorthADive
  <2>3. NextItem \/ (~quota /\ at'.stage = "dive" /\ DOMAIN at' = {"stage", "item"})
    BY <2>2, StageChanges
  <2> QED
    BY <2>1, <2>3, StagesOfNextItem
<1>7. CASE ExtraDive
  <2>1. at.stage = "dive" /\ UNCHANGED quota
    BY <1>7 DEF ExtraDive
  <2>2. CASE Dived /\ at' = [at EXCEPT !.stage = "mark"] /\ UNCHANGED unmarked
    <3>1. at'.stage = "mark" /\ DOMAIN at' = {"stage", "item"}
      BY <2>2, StageChanges
    <3> QED
      BY <2>1, <2>2, <3>1 DEF Dived
  <2>3. CASE NextItem /\ UNCHANGED <<extra, unmarked>>
    BY <2>1, <2>3, StagesOfNextItem
  <2>4. CASE NextItem /\ Dived /\ unmarked' = unmarked + 1
    BY <2>1, <2>4, StagesOfNextItem DEF Dived
  <2> QED
    BY <1>7, <2>2, <2>3, <2>4 DEF ExtraDive
<1>8. CASE Mark
  BY <1>8, StagesOfNextItem DEF Mark, history
<1>9. CASE Pick \/ RotationDive \/ (\E s \in Symbol : PoolChanges(s))
  BY <1>9 DEF Pick, RotationDive, PoolChanges, Turn, scoring, memory, history
<1>10. CASE NewDay
  BY <1>10 DEF NewDay, scoring, memory, history
<1>11. CASE Crash
  BY <1>11 DEF Crash, NoItem, memory
<1>12. CASE UNCHANGED researchVars
  BY <1>12 DEF researchVars, scoring, memory, history
<1> QED
  BY <1>2, <1>3, <1>4, <1>5, <1>6, <1>7, <1>8, <1>9, <1>10, <1>11, <1>12
     DEF NextResearch

\* At most one extra dive in a week, and one more for each whose mark was never
\* written, whatever the news, the holdings, the errors and the restarts.
THEOREM OneExtraDiveAWeek == SpecResearch => []ExtraDivesAreRare
<1>1. InitResearch => DivesInv
  BY DEF InitResearch, NoItem, DivesInv
<1>2. DivesInv => ExtraDivesAreRare
  BY DEF DivesInv, ExtraDivesAreRare
<1> QED
  BY <1>1, <1>2, StepKeepsDives, PTL DEF SpecResearch

-----------------------------------------------------------------------------
(* High impacts, and the turns of the rotation *)

Stages == {"idle", "score", "low", "high", "publish", "dive", "mark"}

\* The news on record.
NewsOK ==
  /\ row \in [Item -> {"none", "bare", "full", "low", "high"}] /\ aged \subseteq Item

\* The scoring job has a batch as long as it is at work, and an item as long as
\* it is at that item.
ScoringOK ==
  /\ todo \in Seq(Item) /\ Len(todo) <= Limit
  /\ DOMAIN at = {"stage", "item"} /\ at.stage \in Stages /\ at.item \in Item \cup {0}
  /\ at.stage # "idle" => todo # <<>>
  /\ at.stage \notin {"idle", "score"} => at.item \in Item

\* The rotation has a symbol as long as it dives.
RotationOK ==
  /\ turn.stage \in {"idle", "dive"} /\ turn.sym \in Symbol \cup {0}
  /\ turn.stage = "dive" => turn.sym \in Symbol
  /\ rotated \in BOOLEAN /\ pool \subseteq Symbol

\* The days and what Opus remembers.
MemoryOK ==
  /\ day \in 0..MaxDay /\ lastDive \in [Symbol -> 0..MaxDay]
  /\ quota \in BOOLEAN /\ mishaps \in 0..MaxMishaps

\* A high impact on record was announced, or is being announced.
Announced ==
  \A i \in Item : row[i] = "high" =>
    i \in told \/ (at.stage = "publish" /\ at.item = i)

ResearchInv == NewsOK /\ ScoringOK /\ RotationOK /\ MemoryOK /\ Announced

\* The job goes on with the rest of its batch.
LEMMA RestOfBatch ==
  ASSUME ScoringOK, at.stage # "idle", NextItem
  PROVE  ScoringOK' /\ at'.stage \in {"idle", "score"}
<1>1. /\ todo' = Tail(todo) /\ todo # <<>> /\ todo \in Seq(Item)
      /\ at' = IF Len(todo) = 1 THEN NoItem ELSE [NoItem EXCEPT !.stage = "score"]
  BY DEF NextItem, ScoringOK
<1>2. todo' \in Seq(Item) /\ Len(todo') = Len(todo) - 1 /\ Len(todo) \in Nat \ {0}
  BY <1>1
<1>3. Len(todo') <= Limit
  BY <1>2, ResearchAssumption DEF ScoringOK
<1>4. Len(todo) # 1 => todo' # <<>>
  BY <1>2
<1>5. /\ DOMAIN at' = {"stage", "item"} /\ at'.item = 0
      /\ at'.stage = IF Len(todo) = 1 THEN "idle" ELSE "score"
  BY <1>1 DEF NoItem
<1> QED
  BY <1>2, <1>3, <1>4, <1>5 DEF ScoringOK, Stages

\* The job goes to another stage with its item.
LEMMA NextStage ==
  ASSUME ScoringOK, at.stage \notin {"idle", "score"},
         NEW s \in Stages, at' = [at EXCEPT !.stage = s], UNCHANGED todo
  PROVE  ScoringOK' /\ at'.stage = s /\ at'.item = at.item
<1>1. at'.stage = s /\ at'.item = at.item /\ DOMAIN at' = {"stage", "item"}
  BY DEF ScoringOK
<1> QED
  BY <1>1 DEF ScoringOK

\* A batch is a list of items, within the limit, and not empty when there is
\* anything to score.
LEMMA BatchIsAList ==
  ASSUME NEW b \in Batches, Pending # {}
  PROVE  b \in Seq(Item) /\ Len(b) <= Limit /\ b # <<>>
<1> DEFINE c == Cardinality(Pending)
           n == Min({Limit, c})
<1>1. IsFiniteSet(Pending) /\ Pending \subseteq Item
  BY ResearchAssumption, FS_Subset DEF Pending
<1>2. c \in Nat \ {0}
  BY <1>1, FS_CardinalityType, FS_EmptySet
<1>3. Limit \in Nat \ {0}
  BY ResearchAssumption
<1>4. n \in {Limit, c} /\ \A x \in {Limit, c} : n <= x
  <2> HIDE DEF c
  <2>1. IsFiniteSet({Limit, c})
    BY PairIsFinite
  <2>2. {Limit, c} # {} /\ {Limit, c} \subseteq Int
    BY <1>2, <1>3
  <2> QED
    BY <2>1, <2>2, MinIsSmallest
<1>5. n \in Nat \ {0} /\ n <= Limit
  BY <1>2, <1>3, <1>4
<1>6. b \in [1..n -> Pending]
  BY DEF Batches, Lists
<1> HIDE DEF n, c
<1>7. b \in Seq(Item) /\ Len(b) = n
  <2>1. b \in [1..n -> Item]
    BY <1>1, <1>6
  <2>2. n \in Nat
    BY <1>5
  <2>3. b \in Seq(Item)
    BY <2>1, <2>2
  <2> QED
    BY <2>1, <2>2, <2>3, LenProperties
<1> QED
  BY <1>5, <1>7

\* Nothing but the scoring job and a crash touches the batch.
LEMMA ScoringStep == ResearchInv /\ [NextResearch]_researchVars => ScoringOK'
<1> SUFFICES ASSUME ResearchInv, [NextResearch]_researchVars PROVE ScoringOK'
  OBVIOUS
<1>0. ScoringOK
  BY DEF ResearchInv
<1>1. CASE UNCHANGED scoring
  BY <1>0, <1>1 DEF scoring, ScoringOK
<1>2. CASE ListBatch
  <2>1. todo' \in Seq(Item) /\ Len(todo') <= Limit /\ todo' # <<>>
    BY <1>2, BatchIsAList DEF ListBatch
  <2>2. DOMAIN at' = {"stage", "item"} /\ at'.stage = "score" /\ at'.item = 0
    BY <1>2 DEF ListBatch, NoItem
  <2> QED
    BY <2>1, <2>2 DEF ScoringOK, Stages
<1>3. CASE Score
  <2>1. CASE NextItem
    BY <1>0, <1>3, <2>1, RestOfBatch DEF Score
  <2>2. CASE ~NextItem
    <3>1. PICK s \in Impacts :
            at' = [at EXCEPT !.stage = s, !.item = Head(todo)] /\ todo' = todo
      BY <1>3, <2>2 DEF Score
    <3>2. Head(todo) \in Item
      BY <1>0, <1>3, HeadTailProperties DEF ScoringOK, Score
    <3>3. at'.stage = s /\ at'.item = Head(todo) /\ DOMAIN at' = {"stage", "item"}
      BY <1>0, <3>1 DEF ScoringOK
    <3> QED
      BY <1>0, <1>3, <3>1, <3>2, <3>3 DEF ScoringOK, Score, Impacts, Stages
  <2> QED
    BY <2>1, <2>2
<1>4. CASE Persist
  <2>1. at.stage \notin {"idle", "score"}
    BY <1>4 DEF Persist, Impacts
  <2>2. NextItem \/ (at' = [at EXCEPT !.stage = "publish"] /\ UNCHANGED todo)
    BY <1>4 DEF Persist
  <2> QED
    BY <1>0, <2>1, <2>2, RestOfBatch, NextStage DEF Stages
<1>5. CASE Publish
  <2>1. at.stage \notin {"idle", "score"}
    BY <1>5 DEF Publish
  <2>2. NextItem \/ (at' = [at EXCEPT !.stage = "dive"] /\ UNCHANGED todo)
    BY <1>5 DEF Publish
  <2> QED
    BY <1>0, <2>1, <2>2, RestOfBatch, NextStage DEF Stages
<1>6. CASE ExtraDive
  <2>1. at.stage \notin {"idle", "score"}
    BY <1>6 DEF ExtraDive
  <2>2. NextItem \/ (at' = [at EXCEPT !.stage = "mark"] /\ UNCHANGED todo)
    BY <1>6 DEF ExtraDive
  <2> QED
    BY <1>0, <2>1, <2>2, RestOfBatch, NextStage DEF Stages
<1>7. CASE Mark
  BY <1>0, <1>7, RestOfBatch DEF Mark
<1>8. CASE Crash
  <2>1. todo' = <<>> /\ at' = NoItem
    BY <1>8 DEF Crash
  <2>2. DOMAIN at' = {"stage", "item"} /\ at'.stage = "idle" /\ at'.item = 0
    BY <2>1 DEF NoItem
  <2>3. Limit \in Nat /\ Len(todo') = 0 /\ todo' \in Seq(Item)
    BY <2>1, ResearchAssumption
  <2> QED
    BY <2>2, <2>3 DEF ScoringOK, Stages
<1>9. ASSUME NEW i \in Item, Fetch(i) \/ Age(i) PROVE UNCHANGED scoring
  BY <1>9 DEF Fetch, Age
<1>10. Pick \/ RotationDive \/ (\E s \in Symbol : PoolChanges(s)) \/ NewDay
         => UNCHANGED scoring
  BY DEF Pick, RotationDive, PoolChanges, NewDay
<1>11. UNCHANGED researchVars => UNCHANGED scoring
  BY DEF researchVars
<1> QED
  BY <1>1, <1>2, <1>3, <1>4, <1>5, <1>6, <1>7, <1>8, <1>9, <1>10, <1>11
     DEF NextResearch

\* The news on record stay what they are, and only an item being scored is
\* given its impact.
LEMMA NewsStep == ResearchInv /\ [NextResearch]_researchVars => NewsOK'
<1> SUFFICES ASSUME ResearchInv, [NextResearch]_researchVars PROVE NewsOK'
  OBVIOUS
<1>0. NewsOK
  BY DEF ResearchInv
<1>1. CASE UNCHANGED news
  BY <1>0, <1>1 DEF news, NewsOK
<1>2. ASSUME NEW i \in Item, Fetch(i) PROVE NewsOK'
  BY <1>0, <1>2 DEF Fetch, Added, NewsOK
<1>3. ASSUME NEW i \in Item, Age(i) PROVE NewsOK'
  BY <1>0, <1>3 DEF Age, NewsOK
<1>4. CASE Persist
  BY <1>0, <1>4 DEF Persist, Scored, Impacts, NewsOK
<1>5. ListBatch \/ Score \/ Publish \/ ExtraDive \/ Mark => UNCHANGED news
  BY DEF ListBatch, Score, Publish, ExtraDive, Mark
<1>6. Pick \/ RotationDive \/ (\E s \in Symbol : PoolChanges(s)) \/ NewDay \/ Crash
        => UNCHANGED news
  BY DEF Pick, RotationDive, PoolChanges, NewDay, Crash
<1>7. UNCHANGED researchVars => UNCHANGED news
  BY DEF researchVars
<1> QED
  BY <1>1, <1>2, <1>3, <1>4, <1>5, <1>6, <1>7 DEF NextResearch

\* Who has waited longest is in the pool, and nobody there has waited longer,
\* nor as long with an earlier place (_opus_deep_dive_rotation).
LEMMA OldestIsFirst ==
  ASSUME pool \subseteq Symbol, pool # {}, lastDive \in [Symbol -> Nat]
  PROVE  /\ Oldest \in pool
         /\ \A x \in pool : \/ lastDive[Oldest] < lastDive[x]
                            \/ lastDive[Oldest] = lastDive[x] /\ Oldest <= x
<1>1. IsFiniteSet(pool) /\ pool \subseteq Nat
  BY ResearchAssumption, FS_Subset
<1> DEFINE Days == {lastDive[x] : x \in pool}
           First == {x \in pool : lastDive[x] = Min(Days)}
<1>2. Min(Days) \in Days /\ \A x \in pool : Min(Days) <= lastDive[x]
  <2>1. IsFiniteSet(Days)
    BY <1>1, ImageIsFinite
  <2>2. Days # {} /\ Days \subseteq Int
    OBVIOUS
  <2>3. Min(Days) \in Days /\ \A d \in Days : Min(Days) <= d
    BY <2>1, <2>2, MinIsSmallest
  <2> QED
    BY <2>3
<1>3. Min(First) \in First /\ \A x \in First : Min(First) <= x
  <2>1. IsFiniteSet(First)
    BY <1>1, FS_Subset
  <2>2. PICK x \in pool : lastDive[x] = Min(Days)
    BY <1>2
  <2>3. x \in First
    BY <2>2
  <2>4. First \subseteq pool
    OBVIOUS
  <2>5. First # {} /\ First \subseteq Int
    <3> HIDE DEF First
    <3> QED
      BY <1>1, <2>3, <2>4
  <2> HIDE DEF First
  <2> QED
    BY <2>1, <2>5, MinIsSmallest
<1>4. \E s \in pool : \A x \in pool :
        lastDive[s] < lastDive[x] \/ (lastDive[s] = lastDive[x] /\ s <= x)
  <2> DEFINE m == Min(Days)
             s == Min(First)
  <2>1. m \in Nat /\ \A x \in pool : m <= lastDive[x] /\ lastDive[x] \in Nat
    BY <1>2
  <2>2. s \in pool /\ lastDive[s] = m /\ \A x \in pool : lastDive[x] = m => s <= x
    BY <1>3
  <2> HIDE DEF m, s
  <2> QED
    BY <2>1, <2>2
<1> QED
  BY <1>4 DEF Oldest

\* The rotation takes a symbol of the pool.
LEMMA RotationStep == ResearchInv /\ [NextResearch]_researchVars => RotationOK'
<1> SUFFICES ASSUME ResearchInv, [NextResearch]_researchVars PROVE RotationOK'
  OBVIOUS
<1>0. RotationOK /\ lastDive \in [Symbol -> Nat]
  BY ResearchAssumption DEF ResearchInv, MemoryOK
<1>1. CASE UNCHANGED dives
  BY <1>0, <1>1 DEF dives, RotationOK
<1>2. CASE Pick
  <2>1. CASE pool = {}
    BY <1>0, <1>2, <2>1 DEF Pick, NoTurn, RotationOK
  <2>2. CASE pool # {}
    <3>1. Oldest \in pool
      BY <1>0, <2>2, OldestIsFirst DEF RotationOK
    <3>2. turn' = [stage |-> "dive", sym |-> Oldest]
      BY <1>2, <2>2 DEF Pick
    <3>3. turn'.stage = "dive" /\ turn'.sym = Oldest
      BY <3>2
    <3> QED
      BY <1>0, <1>2, <3>1, <3>3 DEF Pick, RotationOK
  <2> QED
    BY <2>1, <2>2
<1>3. CASE RotationDive
  BY <1>0, <1>3 DEF RotationDive, NoTurn, RotationOK
<1>4. ASSUME NEW s \in Symbol, PoolChanges(s) PROVE RotationOK'
  <2>1. UNCHANGED <<turn, rotated>> /\ pool' \in {pool \ {s}, pool \cup {s}}
    BY <1>4 DEF PoolChanges
  <2> QED
    BY <1>0, <2>1 DEF RotationOK
<1>5. CASE NewDay
  <2>1. UNCHANGED <<turn, pool>> /\ rotated' = FALSE
    BY <1>5 DEF NewDay
  <2> QED
    BY <1>0, <2>1 DEF RotationOK
<1>6. CASE Crash
  <2>1. UNCHANGED <<rotated, pool>> /\ turn' = NoTurn
    BY <1>6 DEF Crash
  <2> QED
    BY <1>0, <2>1 DEF NoTurn, RotationOK
<1>7. (\E i \in Item : Fetch(i) \/ Age(i)) \/ ListBatch \/ Score \/ Persist \/ Publish
        \/ ExtraDive \/ Mark => UNCHANGED dives
  BY DEF Fetch, Age, ListBatch, Score, Persist, Publish, ExtraDive, Mark
<1>8. UNCHANGED researchVars => UNCHANGED dives
  BY DEF researchVars
<1> QED
  BY <1>1, <1>2, <1>3, <1>4, <1>5, <1>6, <1>7, <1>8 DEF NextResearch

\* The days only count up to the bound, and a dive is remembered by its day.
LEMMA MemoryStep == ResearchInv /\ [NextResearch]_researchVars => MemoryOK'
<1> SUFFICES ASSUME ResearchInv, [NextResearch]_researchVars PROVE MemoryOK'
  OBVIOUS
<1>0. MemoryOK /\ MaxDay \in Nat /\ MaxMishaps \in Nat
  BY ResearchAssumption DEF ResearchInv
<1>1. CASE UNCHANGED <<day, memory, mishaps>>
  BY <1>0, <1>1 DEF memory, MemoryOK
<1>2. ASSUME NEW s, NEW scheduled, Turn(s, scheduled), UNCHANGED <<day, quota>>,
             Mishap \/ UNCHANGED mishaps
      PROVE  MemoryOK'
  <2>1. lastDive' = [lastDive EXCEPT ![s] = day]
    BY <1>2 DEF Turn
  <2>2. mishaps' \in 0..MaxMishaps
    BY <1>0, <1>2 DEF MemoryOK, Mishap
  <2>3. lastDive' \in [Symbol -> 0..MaxDay]
    BY <1>0, <2>1 DEF MemoryOK
  <2> QED
    BY <1>0, <1>2, <2>2, <2>3 DEF MemoryOK
<1>3. CASE ExtraDive
  BY <1>0, <1>2, <1>3 DEF ExtraDive, Dived, MemoryOK
<1>4. CASE Mark
  BY <1>0, <1>4 DEF Mark, MemoryOK
<1>5. CASE RotationDive
  BY <1>0, <1>2, <1>5 DEF RotationDive, MemoryOK
<1>6. CASE NewDay
  <2>1. /\ day < MaxDay /\ day' = day + 1 /\ UNCHANGED <<lastDive, mishaps>>
        /\ quota' \in {FALSE, quota}
    BY <1>6 DEF NewDay
  <2>2. day' \in 0..MaxDay
    BY <1>0, <2>1 DEF MemoryOK
  <2>3. quota' \in BOOLEAN
    BY <1>0, <2>1 DEF MemoryOK
  <2> QED
    BY <1>0, <2>1, <2>2, <2>3 DEF MemoryOK
<1>7. CASE Crash
  <2>1. Mishap /\ UNCHANGED <<day, lastDive, quota>>
    BY <1>7 DEF Crash, memory
  <2> QED
    BY <1>0, <2>1 DEF Mishap, MemoryOK
<1>8. (\E i \in Item : Fetch(i) \/ Age(i)) \/ ListBatch \/ Score \/ Persist \/ Publish
        \/ Pick \/ (\E s \in Symbol : PoolChanges(s)) => UNCHANGED <<day, memory, mishaps>>
  BY DEF Fetch, Age, ListBatch, Score, Persist, Publish, Pick, PoolChanges
<1>9. UNCHANGED researchVars => UNCHANGED <<day, memory, mishaps>>
  BY DEF researchVars
<1> QED
  BY <1>1, <1>3, <1>4, <1>5, <1>6, <1>7, <1>8, <1>9 DEF NextResearch

\* An impact of high goes on record with its announcement to come, and the
\* announcement is given up by a crash alone (NewsScorer.score).
LEMMA AnnouncedStep == ResearchInv /\ [NextResearch]_researchVars => Announced'
<1> SUFFICES ASSUME ResearchInv, [NextResearch]_researchVars,
                    NEW i \in Item, row'[i] = "high"
             PROVE  i \in told' \/ (at'.stage = "publish" /\ at'.item = i)
  BY DEF Announced
<1>0. NewsOK /\ ScoringOK /\ Announced
  BY DEF ResearchInv
<1> DEFINE Said == i \in told \/ (at.stage = "publish" /\ at.item = i)
<1>1. row[i] = "high" => Said
  BY <1>0 DEF Announced
<1>2. CASE UNCHANGED <<row, at, told>>
  BY <1>1, <1>2
<1>3. ASSUME at.stage # "publish", UNCHANGED <<row, told>>
      PROVE  i \in told'
  BY <1>1, <1>3
<1>4. ASSUME NEW j \in Item, Fetch(j) PROVE UNCHANGED at /\ UNCHANGED told /\ row[i] = "high"
  BY <1>0, <1>4 DEF Fetch, Added, scoring, history, NewsOK
<1>5. (\E j \in Item : Age(j)) \/ Pick \/ RotationDive
        \/ (\E s \in Symbol : PoolChanges(s)) \/ NewDay => UNCHANGED <<row, at, told>>
  BY DEF Age, Pick, RotationDive, PoolChanges, NewDay, scoring, history, news
<1>6. ListBatch \/ Score \/ ExtraDive \/ Mark =>
        at.stage # "publish" /\ UNCHANGED <<row, told>>
  BY DEF ListBatch, Score, ExtraDive, Mark, news, history
<1>7. CASE Persist
  <2>1. at.stage \in Impacts /\ at.stage # "publish" /\ UNCHANGED told
    BY <1>7 DEF Persist, Impacts, history
  <2>2. CASE row' = row
    BY <1>1, <2>1, <2>2
  <2>3. CASE row' = Scored /\ at.item = i
    <3>1. at.stage = "high"
      BY <1>0, <2>3 DEF Scored, NewsOK
    <3>2. at' = [at EXCEPT !.stage = "publish"] /\ UNCHANGED todo
      BY <1>7, <3>1 DEF Persist
    <3> QED
      BY <1>0, <2>3, <3>1, <3>2, NextStage DEF Stages
  <2>4. CASE row' = Scored /\ at.item # i
    BY <1>0, <1>1, <2>1, <2>4 DEF Scored, NewsOK
  <2> QED
    BY <1>7, <2>2, <2>3, <2>4 DEF Persist
<1>8. CASE Publish
  BY <1>1, <1>8 DEF Publish, news
<1>9. CASE Crash
  BY <1>1, <1>9 DEF Crash, news
<1>10. UNCHANGED researchVars => UNCHANGED <<row, at, told>>
  BY DEF researchVars, news, scoring, history
<1> QED
  BY <1>1, <1>2, <1>3, <1>4, <1>5, <1>6, <1>7, <1>8, <1>9, <1>10 DEF NextResearch

\* The first state.
LEMMA ResearchInitially == InitResearch => ResearchInv
<1> SUFFICES ASSUME InitResearch PROVE ResearchInv
  OBVIOUS
<1>1. NewsOK /\ Announced
  BY DEF InitResearch, NewsOK, Announced
<1>2. ScoringOK
  <2>1. todo = <<>> /\ at = NoItem
    BY DEF InitResearch
  <2>2. DOMAIN at = {"stage", "item"} /\ at.stage = "idle" /\ at.item = 0
    BY <2>1 DEF NoItem
  <2>3. todo \in Seq(Item) /\ Len(todo) <= Limit
    BY <2>1, ResearchAssumption
  <2> QED
    BY <2>2, <2>3 DEF ScoringOK, Stages
<1>3. RotationOK
  BY DEF InitResearch, RotationOK, NoTurn
<1>4. MemoryOK
  <2>1. MaxDay \in Nat /\ MaxMishaps \in Nat
    BY ResearchAssumption
  <2>2. /\ day = 0 /\ quota = FALSE /\ mishaps = 0
        /\ lastDive = [s \in Symbol |-> 0]
    BY DEF InitResearch
  <2>3. 0 \in 0..MaxDay /\ 0 \in 0..MaxMishaps
    BY <2>1
  <2> QED
    BY <2>2, <2>3 DEF MemoryOK
<1> QED
  BY <1>1, <1>2, <1>3, <1>4 DEF ResearchInv

\* Every step.
LEMMA ResearchStep == ResearchInv /\ [NextResearch]_researchVars => ResearchInv'
BY NewsStep, ScoringStep, RotationStep, MemoryStep, AnnouncedStep DEF ResearchInv

\* For any news, symbols, holdings, days and crashes: a high impact on record
\* was announced, is being announced, or the process died on the way.
THEOREM EveryHighImpactIsTold == SpecResearch => []HighImpactIsAnnounced
<1>1. ResearchInv => HighImpactIsAnnounced
  BY DEF ResearchInv, NewsOK, ScoringOK, RotationOK, MemoryOK, Announced, Stages,
         HighImpactIsAnnounced, TypeOK
<1> QED
  BY <1>1, ResearchInitially, ResearchStep, PTL DEF SpecResearch

-----------------------------------------------------------------------------
(* The rotation *)

\* The symbol that has its turn just now.
Picked == IF turn.stage = "dive" THEN {turn.sym} ELSE {}

\* Symbols the rotation takes after x: their dives are later.
Behind(x) ==
  {y \in Symbol \ {x} :
     lastDive[y] > lastDive[x] \/ (lastDive[y] = lastDive[x] /\ y > x)}

\* Of the turns x waited for, each but one went to a symbol that is behind x
\* ever since.  The odd one is the turn of another on the day x had an extra
\* dive: before it, x has waited for none.
Waited(x) ==
  /\ lastDive[x] <= day
  /\ x \notin pool => waits[x] = 0
  /\ lastDive[x] = day /\ (Picked # {} \/ ~rotated) => waits[x] = 0
  /\ waits[x] <= Cardinality(Behind(x) \ Picked) + 1

TurnsInv ==
  /\ ResearchInv
  /\ waits \in [Symbol -> Nat]
  /\ Picked # {} => rotated
  /\ \A x \in Symbol : Waited(x)

\* What ResearchInv says of the rotation.
LEMMA TurnTypes ==
  ASSUME ResearchInv
  PROVE  /\ lastDive \in [Symbol -> Nat] /\ day \in Nat /\ pool \subseteq Symbol
         /\ Picked \subseteq Symbol /\ Symbol \subseteq Nat /\ IsFiniteSet(Symbol)
BY ResearchAssumption DEF ResearchInv, RotationOK, MemoryOK, Picked

\* The symbols behind x are counted.
LEMMA BehindIsFinite ==
  ASSUME NEW x, NEW P
  PROVE  /\ IsFiniteSet(Behind(x) \ P) /\ Cardinality(Behind(x) \ P) \in Nat
         /\ IsFiniteSet(Symbol \ {x})
<1>1. IsFiniteSet(Symbol) /\ Behind(x) \ P \subseteq Symbol /\ Symbol \ {x} \subseteq Symbol
  BY ResearchAssumption DEF Behind
<1>2. IsFiniteSet(Behind(x) \ P) /\ IsFiniteSet(Symbol \ {x})
  BY <1>1, FS_Subset
<1> QED
  BY <1>2, FS_CardinalityType

\* A larger set has no fewer elements.
LEMMA MoreBehind ==
  ASSUME NEW S, IsFiniteSet(S), NEW T \in SUBSET S
  PROVE  Cardinality(T) \in Nat /\ Cardinality(S) \in Nat /\ Cardinality(T) <= Cardinality(S)
BY FS_Subset, FS_CardinalityType

\* A dive of z does not take anyone from behind another symbol, and puts z
\* behind those whose last dive was on an earlier day.
LEMMA DiveBehind ==
  ASSUME ResearchInv, \A x \in Symbol : lastDive[x] <= day,
         NEW z \in Symbol, lastDive' = [lastDive EXCEPT ![z] = day],
         NEW x \in Symbol, x # z
  PROVE  /\ Behind(x) \subseteq Behind(x)'
         /\ lastDive[x] # day => z \in Behind(x)'
<1>1. lastDive \in [Symbol -> Nat] /\ day \in Nat
  BY TurnTypes
<1>2. /\ lastDive'[z] = day /\ lastDive'[x] = lastDive[x]
      /\ \A y \in Symbol \ {z} : lastDive'[y] = lastDive[y]
  BY <1>1
<1>3. lastDive[x] \in Nat /\ lastDive[x] <= day
  BY <1>1
<1>4. ASSUME NEW y \in Behind(x) PROVE y \in Behind(x)'
  <2>1. /\ y \in Symbol \ {x} /\ lastDive[y] \in Nat /\ lastDive[y] <= day
        /\ lastDive[y] > lastDive[x] \/ (lastDive[y] = lastDive[x] /\ y > x)
    BY <1>1 DEF Behind
  <2>2. CASE y = z
    BY <1>1, <1>2, <1>3, <2>1, <2>2 DEF Behind
  <2>3. CASE y # z
    BY <1>2, <2>1, <2>3 DEF Behind
  <2> QED
    BY <2>2, <2>3
<1>5. lastDive[x] # day => z \in Behind(x)'
  BY <1>1, <1>2, <1>3 DEF Behind
<1> QED
  BY <1>4, <1>5

\* Steps that leave the rotation alone.
LEMMA QuietTurns ==
  ASSUME TurnsInv, UNCHANGED <<turn, rotated, pool, day, lastDive, waits>>
  PROVE  /\ (waits \in [Symbol -> Nat])' /\ (Picked # {} => rotated)'
         /\ \A x \in Symbol : Waited(x)'
BY DEF TurnsInv, Picked, Waited, Behind

\* An extra dive starts a new wait, and only puts more symbols behind others.
LEMMA ExtraDiveTurns ==
  ASSUME TurnsInv, NEW z \in Symbol, Turn(z, FALSE), UNCHANGED <<turn, rotated, pool, day>>
  PROVE  /\ (waits \in [Symbol -> Nat])' /\ (Picked # {} => rotated)'
         /\ \A x \in Symbol : Waited(x)'
<1>1. /\ lastDive \in [Symbol -> Nat] /\ day \in Nat /\ waits \in [Symbol -> Nat]
      /\ \A x \in Symbol : Waited(x) /\ lastDive[x] <= day
  BY TurnTypes DEF TurnsInv, Waited
<1>2. /\ lastDive' = [lastDive EXCEPT ![z] = day]
      /\ waits' = [x \in Symbol |-> IF x = z THEN 0 ELSE waits[x]]
  BY DEF Turn
<1>3. Picked' = Picked
  BY DEF Picked
<1>4. Waited(z)'
  <2>1. waits'[z] = 0 /\ lastDive'[z] = day
    BY <1>1, <1>2
  <2>2. IsFiniteSet((Behind(z) \ Picked)') /\ (Behind(z) \ Picked)' = Behind(z)' \ Picked'
    BY ResearchAssumption, FS_Subset DEF Behind
  <2>3. Cardinality((Behind(z) \ Picked)') \in Nat
    BY <2>2, FS_CardinalityType
  <2> QED
    BY <1>1, <2>1, <2>3 DEF Waited
<1>5. ASSUME NEW x \in Symbol, x # z PROVE Waited(x)'
  <2>1. Behind(x) \subseteq Behind(x)'
    BY <1>1, <1>2, <1>5, DiveBehind DEF TurnsInv
  <2>2. Behind(x) \ Picked \in SUBSET (Behind(x)' \ Picked') /\ IsFiniteSet(Behind(x)' \ Picked')
    <3>1. Behind(x)' \ Picked' \subseteq Symbol
      BY DEF Behind
    <3> QED
      BY <1>3, <2>1, <3>1, ResearchAssumption, FS_Subset
  <2>3. /\ Cardinality(Behind(x) \ Picked) \in Nat /\ Cardinality(Behind(x)' \ Picked') \in Nat
        /\ Cardinality(Behind(x) \ Picked) <= Cardinality(Behind(x)' \ Picked')
    BY <2>2, MoreBehind
  <2>4. waits'[x] = waits[x] /\ lastDive'[x] = lastDive[x] /\ waits[x] \in Nat
    BY <1>1, <1>2, <1>5
  <2> QED
    BY <1>1, <1>3, <2>3, <2>4 DEF Waited
<1>6. (Picked # {} => rotated)'
  BY <1>3 DEF TurnsInv
<1>7. waits' \in [Symbol -> Nat]
  BY <1>1, <1>2
<1> QED
  BY <1>4, <1>5, <1>6, <1>7

\* The oldest is picked: it is behind nobody in the pool.
LEMMA PickTurns ==
  ASSUME TurnsInv, Pick
  PROVE  /\ (waits \in [Symbol -> Nat])' /\ (Picked # {} => rotated)'
         /\ \A x \in Symbol : Waited(x)'
<1>1. /\ rotated' = TRUE /\ ~rotated /\ turn.stage = "idle"
      /\ UNCHANGED <<pool, day, lastDive, waits>>
      /\ turn' = IF pool = {} THEN NoTurn ELSE [stage |-> "dive", sym |-> Oldest]
  BY DEF Pick, memory, history
<1>2. /\ lastDive \in [Symbol -> Nat] /\ pool \subseteq Symbol /\ Symbol \subseteq Nat
      /\ waits \in [Symbol -> Nat] /\ \A x \in Symbol : Waited(x)
  BY TurnTypes DEF TurnsInv
<1>3. Picked = {} /\ Picked' = IF pool = {} THEN {} ELSE {Oldest}
  BY <1>1 DEF Picked, NoTurn
<1>4. ASSUME NEW x \in Symbol PROVE Waited(x)'
  <2>1. Behind(x)' = Behind(x)
    BY <1>1 DEF Behind
  <2>2. CASE x \in pool
    <3>1. /\ lastDive[Oldest] \in Nat /\ lastDive[x] \in Nat /\ Oldest \in Nat /\ x \in Nat
          /\ lastDive[Oldest] < lastDive[x] \/ (lastDive[Oldest] = lastDive[x] /\ Oldest <= x)
      BY <1>2, <2>2, OldestIsFirst
    <3>2. Oldest \notin Behind(x)
      BY <3>1 DEF Behind
    <3>3. Behind(x)' \ Picked' = Behind(x) \ Picked
      BY <1>3, <2>1, <3>2
    <3> QED
      BY <1>1, <1>2, <3>3 DEF Waited
  <2>3. CASE x \notin pool
    <3>1. waits[x] = 0
      BY <1>2, <2>3 DEF Waited
    <3>2. Cardinality(Behind(x) \ Picked') \in Nat
      BY BehindIsFinite
    <3>3. waits'[x] <= Cardinality(Behind(x)' \ Picked') + 1
      BY <1>1, <2>1, <3>1, <3>2
    <3>4. lastDive'[x] <= day' /\ waits'[x] = 0
      BY <1>1, <1>2, <3>1 DEF Waited
    <3> QED
      BY <3>3, <3>4 DEF Waited
  <2> QED
    BY <2>2, <2>3
<1> QED
  BY <1>1, <1>2, <1>4

\* The turn of y puts y behind whoever waited for it.
LEMMA RotationDiveTurns ==
  ASSUME TurnsInv, RotationDive
  PROVE  /\ (waits \in [Symbol -> Nat])' /\ (Picked # {} => rotated)'
         /\ \A x \in Symbol : Waited(x)'
<1> DEFINE z == turn.sym
<1>1. /\ z \in Symbol /\ Picked = {z} /\ rotated
      /\ UNCHANGED <<rotated, pool, day>> /\ Picked' = {}
  BY DEF RotationDive, Picked, NoTurn, TurnsInv, ResearchInv, RotationOK
<1>2. /\ lastDive \in [Symbol -> Nat] /\ day \in Nat /\ waits \in [Symbol -> Nat]
      /\ \A x \in Symbol : Waited(x) /\ lastDive[x] <= day
  BY TurnTypes DEF TurnsInv, Waited
<1>3. CASE UNCHANGED <<lastDive, waits>>
  <2>1. ASSUME NEW x \in Symbol PROVE Waited(x)'
    <3>1. Behind(x)' = Behind(x)
      BY <1>3 DEF Behind
    <3>2. /\ Cardinality(Behind(x) \ Picked) \in Nat /\ Cardinality(Behind(x) \ {}) \in Nat
          /\ Cardinality(Behind(x) \ Picked) <= Cardinality(Behind(x) \ {})
      <4>1. IsFiniteSet(Behind(x) \ {}) /\ Behind(x) \ Picked \in SUBSET (Behind(x) \ {})
        BY BehindIsFinite
      <4> QED
        BY <4>1, MoreBehind
    <3>3. waits[x] \in Nat /\ Waited(x)
      BY <1>2
    <3> QED
      BY <1>1, <1>3, <3>1, <3>2, <3>3 DEF Waited
  <2> QED
    BY <1>1, <1>2, <1>3, <2>1
<1>4. CASE Turn(z, TRUE)
  <2>1. /\ lastDive' = [lastDive EXCEPT ![z] = day]
        /\ \A x \in Symbol : waits'[x] =
             IF x = z THEN 0 ELSE IF x \in pool THEN waits[x] + 1 ELSE waits[x]
    <3> HIDE DEF z
    <3> QED
      BY <1>4 DEF Turn
  <2>2. ASSUME NEW x \in Symbol PROVE Waited(x)' /\ waits'[x] \in Nat
    <3> DEFINE c == Cardinality(Behind(x) \ Picked)
               d == Cardinality(Behind(x)' \ Picked')
    <3>1. IsFiniteSet(Behind(x) \ Picked) /\ IsFiniteSet(Behind(x)' \ Picked')
          /\ c \in Nat /\ d \in Nat
      <4>1. Behind(x) \ Picked \subseteq Symbol /\ Behind(x)' \ Picked' \subseteq Symbol
        BY DEF Behind
      <4>2. IsFiniteSet(Behind(x) \ Picked) /\ IsFiniteSet(Behind(x)' \ Picked')
        BY <4>1, ResearchAssumption, FS_Subset
      <4> QED
        BY <4>2, FS_CardinalityType
    <3>2. Waited(x) /\ waits[x] \in Nat /\ lastDive[x] \in Nat
      BY <1>2
    <3> HIDE DEF z
    <3>3. CASE x = z
      <4>1. waits'[x] = 0 /\ lastDive'[x] = day
        BY <1>2, <2>1, <3>3
      <4> QED
        BY <1>1, <1>2, <3>1, <4>1 DEF Waited
    <3>4. CASE x # z
      <4>1. lastDive'[x] = lastDive[x] /\ Behind(x) \subseteq Behind(x)'
            /\ (lastDive[x] # day => z \in Behind(x)')
        BY <1>1, <1>2, <2>1, <3>4, DiveBehind DEF TurnsInv
      <4>2. waits'[x] = IF x \in pool THEN waits[x] + 1 ELSE waits[x]
        BY <2>1, <3>4
      <4>3. x \notin pool => waits'[x] = 0
        BY <3>2, <4>2 DEF Waited
      <4>4. waits'[x] <= d + 1
        <5>1. CASE waits[x] = 0
          BY <3>1, <4>2, <5>1
        <5>2. CASE waits[x] # 0
          <6>1. lastDive[x] # day
            BY <1>1, <3>2, <5>2 DEF Waited
          <6>2. (Behind(x) \ Picked) \cup {z} \in SUBSET (Behind(x)' \ Picked')
            BY <1>1, <4>1, <6>1
          <6>3. Cardinality((Behind(x) \ Picked) \cup {z}) = c + 1
            BY <1>1, <3>1, FS_AddElement
          <6>4. c + 1 <= d
            BY <3>1, <6>2, <6>3, MoreBehind
          <6>5. waits[x] <= c + 1
            BY <3>2 DEF Waited
          <6> HIDE DEF c, d
          <6> QED
            BY <3>1, <3>2, <4>2, <6>4, <6>5
        <5> QED
          BY <5>1, <5>2
      <4>5. waits'[x] \in Nat
        BY <3>2, <4>2
      <4> QED
        BY <1>1, <1>2, <3>2, <4>1, <4>3, <4>4, <4>5 DEF Waited
    <3> QED
      BY <2>1, <3>3, <3>4
  <2>3. waits' \in [Symbol -> Nat]
    <3>1. waits' = [x \in Symbol |-> waits'[x]]
      <4> HIDE DEF z
      <4> QED
        BY <1>4 DEF Turn
    <3> QED
      BY <2>2, <3>1
  <2> QED
    BY <1>1, <2>2, <2>3
<1> QED
  BY <1>3, <1>4 DEF RotationDive

\* Who leaves or joins the pool starts to wait anew.
LEMMA PoolTurns ==
  ASSUME TurnsInv, NEW s \in Symbol, PoolChanges(s)
  PROVE  /\ (waits \in [Symbol -> Nat])' /\ (Picked # {} => rotated)'
         /\ \A x \in Symbol : Waited(x)'
<1>1. /\ UNCHANGED <<turn, rotated, day, lastDive>> /\ waits' = [waits EXCEPT ![s] = 0]
      /\ pool' \in {pool \ {s}, pool \cup {s}}
  BY DEF PoolChanges, memory
<1>2. waits \in [Symbol -> Nat] /\ \A x \in Symbol : Waited(x)
  BY DEF TurnsInv
<1>3. Picked' = Picked
  BY <1>1 DEF Picked
<1>4. ASSUME NEW x \in Symbol PROVE Waited(x)'
  <2>1. Behind(x)' = Behind(x)
    BY <1>1 DEF Behind
  <2>2. Cardinality(Behind(x) \ Picked) \in Nat
    BY BehindIsFinite
  <2>3. CASE x = s
    BY <1>1, <1>2, <1>3, <2>1, <2>2, <2>3 DEF Waited
  <2>4. CASE x # s
    <3>1. waits'[x] = waits[x] /\ (x \in pool' <=> x \in pool)
      BY <1>1, <1>2, <2>4
    <3> QED
      BY <1>1, <1>2, <1>3, <2>1, <3>1 DEF Waited
  <2> QED
    BY <2>3, <2>4
<1> QED
  BY <1>1, <1>2, <1>3, <1>4 DEF TurnsInv

\* On a new day nobody's last dive is of the day.
LEMMA NewDayTurns ==
  ASSUME TurnsInv, NewDay
  PROVE  /\ (waits \in [Symbol -> Nat])' /\ (Picked # {} => rotated)'
         /\ \A x \in Symbol : Waited(x)'
<1>1. /\ UNCHANGED <<turn, pool, lastDive, waits>> /\ day' = day + 1 /\ turn.stage = "idle"
  BY DEF NewDay
<1>2. /\ lastDive \in [Symbol -> Nat] /\ day \in Nat /\ waits \in [Symbol -> Nat]
      /\ \A x \in Symbol : Waited(x)
  BY TurnTypes DEF TurnsInv
<1>3. Picked = {} /\ Picked' = {}
  BY <1>1 DEF Picked
<1>4. ASSUME NEW x \in Symbol PROVE Waited(x)'
  <2>1. Behind(x)' = Behind(x)
    BY <1>1 DEF Behind
  <2>2. lastDive[x] \in Nat /\ lastDive[x] <= day
    BY <1>2 DEF Waited
  <2>3. lastDive[x] <= day' /\ lastDive[x] # day'
    BY <1>1, <1>2, <2>2
  <2>4. Waited(x)
    BY <1>2
  <2> QED
    BY <1>1, <1>3, <2>1, <2>3, <2>4 DEF Waited
<1> QED
  BY <1>1, <1>2, <1>3, <1>4

\* A crash gives up the turn.
LEMMA CrashTurns ==
  ASSUME TurnsInv, Crash
  PROVE  /\ (waits \in [Symbol -> Nat])' /\ (Picked # {} => rotated)'
         /\ \A x \in Symbol : Waited(x)'
<1>1. UNCHANGED <<rotated, pool, day, lastDive, waits>> /\ turn' = NoTurn
  BY DEF Crash, memory
<1>2. Picked' = {} /\ waits \in [Symbol -> Nat] /\ \A x \in Symbol : Waited(x)
  BY <1>1 DEF Picked, NoTurn, TurnsInv
<1>3. ASSUME NEW x \in Symbol PROVE Waited(x)'
  <2>1. Behind(x)' = Behind(x)
    BY <1>1 DEF Behind
  <2>2. /\ Cardinality(Behind(x) \ Picked) \in Nat /\ Cardinality(Behind(x) \ {}) \in Nat
        /\ Cardinality(Behind(x) \ Picked) <= Cardinality(Behind(x) \ {})
    <3>1. IsFiniteSet(Behind(x) \ {}) /\ Behind(x) \ Picked \in SUBSET (Behind(x) \ {})
      BY BehindIsFinite
    <3> QED
      BY <3>1, MoreBehind
  <2>3. waits[x] \in Nat /\ Waited(x)
    BY <1>2
  <2>4. waits'[x] <= Cardinality(Behind(x)' \ Picked') + 1
    BY <1>1, <1>2, <2>1, <2>2, <2>3 DEF Waited
  <2> QED
    BY <1>1, <1>2, <2>3, <2>4 DEF Waited
<1> QED
  BY <1>1, <1>2, <1>3

\* Every step.
LEMMA TurnsStep == TurnsInv /\ [NextResearch]_researchVars => TurnsInv'
<1> SUFFICES ASSUME TurnsInv, [NextResearch]_researchVars PROVE TurnsInv'
  OBVIOUS
<1>1. ResearchInv'
  BY ResearchStep DEF TurnsInv
<1>2. CASE UNCHANGED <<turn, rotated, pool, day, lastDive, waits>>
  BY <1>1, <1>2, QuietTurns DEF TurnsInv
<1>3. (\E i \in Item : Fetch(i) \/ Age(i)) \/ ListBatch \/ Score \/ Persist \/ Publish \/ Mark
        => UNCHANGED <<turn, rotated, pool, day, lastDive, waits>>
  BY DEF Fetch, Age, ListBatch, Score, Persist, Publish, Mark, dives, memory, history
<1>4. CASE ExtraDive
  <2>1. SymOf[at.item] \in Symbol
    BY <1>4, ResearchAssumption DEF ExtraDive, TurnsInv, ResearchInv, ScoringOK
  <2>2. UNCHANGED <<turn, rotated, pool, day>>
        /\ (Turn(SymOf[at.item], FALSE) \/ UNCHANGED <<lastDive, waits>>)
    BY <1>4 DEF ExtraDive, Dived, dives
  <2> QED
    BY <1>1, <1>2, <2>1, <2>2, ExtraDiveTurns DEF TurnsInv
<1>5. CASE Pick
  BY <1>1, <1>5, PickTurns DEF TurnsInv
<1>6. CASE RotationDive
  BY <1>1, <1>6, RotationDiveTurns DEF TurnsInv
<1>7. ASSUME NEW s \in Symbol, PoolChanges(s) PROVE TurnsInv'
  BY <1>1, <1>7, PoolTurns DEF TurnsInv
<1>8. CASE NewDay
  BY <1>1, <1>8, NewDayTurns DEF TurnsInv
<1>9. CASE Crash
  BY <1>1, <1>9, CrashTurns DEF TurnsInv
<1>10. UNCHANGED researchVars => UNCHANGED <<turn, rotated, pool, day, lastDive, waits>>
  BY DEF researchVars, dives, memory, history
<1> QED
  BY <1>2, <1>3, <1>4, <1>5, <1>6, <1>7, <1>8, <1>9, <1>10 DEF NextResearch

\* For any symbols, holdings, days and crashes: since its last turn a symbol
\* that stays in the pool has seen at most as many turns of others as there are
\* symbols (_opus_deep_dive_rotation).
THEOREM NobodyIsPassedOver == SpecResearch => []RotationIsFair
<1>1. InitResearch => TurnsInv
  <2> SUFFICES ASSUME InitResearch PROVE TurnsInv
    OBVIOUS
  <2>1. /\ lastDive = [s \in Symbol |-> 0] /\ waits = [s \in Symbol |-> 0] /\ day = 0
        /\ Picked = {}
    BY DEF InitResearch, Picked, NoTurn
  <2>2. ASSUME NEW x \in Symbol PROVE Waited(x)
    <3>1. Cardinality(Behind(x) \ Picked) \in Nat
      BY BehindIsFinite
    <3> QED
      BY <2>1, <3>1 DEF Waited
  <2> QED
    BY <2>1, <2>2, ResearchInitially DEF TurnsInv
<1>2. TurnsInv => RotationIsFair
  <2> SUFFICES ASSUME TurnsInv, NEW x \in Symbol
               PROVE  waits[x] <= Cardinality(Symbol)
    BY DEF RotationIsFair
  <2> DEFINE b == Behind(x) \ Picked
  <2>1. IsFiniteSet(Symbol) /\ Cardinality(Symbol) \in Nat
    BY ResearchAssumption, FS_CardinalityType
  <2>2. IsFiniteSet(Symbol \ {x}) /\ Cardinality(Symbol \ {x}) = Cardinality(Symbol) - 1
    BY <2>1, FS_RemoveElement
  <2>3. b \in SUBSET (Symbol \ {x})
    BY DEF Behind
  <2>4. Cardinality(b) \in Nat /\ Cardinality(b) <= Cardinality(Symbol \ {x})
    BY <2>2, <2>3, MoreBehind
  <2>5. waits[x] <= Cardinality(b) + 1 /\ waits[x] \in Nat
    BY DEF TurnsInv, Waited
  <2> HIDE DEF b
  <2> QED
    BY <2>1, <2>2, <2>4, <2>5
<1> QED
  BY <1>1, <1>2, TurnsStep, PTL DEF SpecResearch

-----------------------------------------------------------------------------
(* The catch-up of a boot is carried through.  What ENABLED says is a        *)
(* hypothesis: see CatchUpCanRun.                                            *)

\* The catch-up of boot n is to come; its job is at a stage; and what it is for
\* is done or the process died.
Scheduled(n) == booted /\ restarts = n /\ Overdue
CaughtUpAt(n, s) ==
  job["catchup"].stage = s /\ job["catchup"].week = week /\ restarts = n /\ Overdue
Done(n) == ~Overdue \/ restarts > n

\* Weeks are numbers.
Clocks == Types /\ week \in Nat /\ stamp \in Int

\* While it is to come it stays so, or it starts.
LEMMA ScheduledStays ==
  ASSUME Clocks, NEW n \in Nat, Scheduled(n), [Next]_vars
  PROVE  (Scheduled(n) \/ CaughtUpAt(n, "check") \/ Done(n))'
<1>1. CASE CatchUp
  <2>1. Moves("catchup", "check", week, macro)
    BY <1>1, StartsMoves DEF CatchUp, Clocks, Types, Job
  <2> QED
    BY <1>1, <2>1 DEF CatchUp, Scheduled, CaughtUpAt, Overdue, Moves, clock, records
<1>2. CASE Restart
  BY <1>2 DEF Restart, Scheduled, Done
<1>3. CASE ~(CatchUp \/ Restart)
  <2>1. booted' /\ restarts' = n
    BY <1>3 DEF Scheduled, Next, FridayStart, ReadRegime, WriteJournal, CheckDate, Call, WriteTmp,
       Replace, Stamp, MacroChanges, NewWeek, vars
  <2> QED
    BY <2>1 DEF Scheduled, Done
<1> QED
  BY <1>1, <1>2, <1>3

\* It starts with the week of now.
LEMMA CatchUpStarts ==
  ASSUME Clocks, NEW n \in Nat, Scheduled(n), CatchUp
  PROVE  CaughtUpAt(n, "check")'
<1>1. Moves("catchup", "check", week, macro)
  BY StartsMoves DEF CatchUp, Clocks, Types, Job
<1> QED
  BY <1>1 DEF CatchUp, Scheduled, CaughtUpAt, Overdue, Moves, clock, records

\* One step of the job.
LEMMA JobAdvances ==
  ASSUME Clocks, NEW n \in Nat, Realloc("catchup")
  PROVE  /\ CaughtUpAt(n, "check") => CaughtUpAt(n, "call")'
         /\ CaughtUpAt(n, "call") => (CaughtUpAt(n, "write") \/ CaughtUpAt(n, "stamp"))'
         /\ CaughtUpAt(n, "write") => CaughtUpAt(n, "replace")'
         /\ CaughtUpAt(n, "replace") => CaughtUpAt(n, "stamp")'
         /\ CaughtUpAt(n, "stamp") => Done(n)'
<1> DEFINE j == "catchup"
<1>1. j \in Job /\ JobType
  BY DEF Job, Clocks, Types
<1>2. CASE CheckDate(j)
  <2>1. job[j].stage = "check" /\ UNCHANGED <<week, stamp, restarts>>
    BY <1>2 DEF CheckDate, clock, records
  <2>2. CaughtUpAt(n, "check") => job' = [job EXCEPT ![j].stage = "call"]
    BY <1>1, <1>2 DEF CheckDate, CaughtUpAt, Overdue, Due, JobType
  <2>3. CaughtUpAt(n, "check") => Moves(j, "call", job[j].week, job[j].macro)
    BY <1>1, <2>2, GoesMoves DEF Goes
  <2> QED
    BY <2>1, <2>3 DEF CaughtUpAt, Overdue, Moves
<1>3. CASE Call(j)
  <2>1. job[j].stage = "call" /\ UNCHANGED <<week, stamp, restarts>>
    BY <1>3 DEF Call, clock, records
  <2>2. \E s \in {"write", "stamp"} : Moves(j, s, job[j].week, job[j].macro)
    BY <1>1, <1>3, GoesMoves, AnswerMoves DEF Call
  <2> QED
    BY <2>1, <2>2 DEF CaughtUpAt, Overdue, Moves
<1>4. CASE WriteTmp(j)
  <2>1. job[j].stage = "write" /\ UNCHANGED <<week, stamp, restarts>>
    BY <1>4 DEF WriteTmp, clock, records
  <2>2. Moves(j, "replace", job[j].week, job[j].macro)
    BY <1>1, <1>4, GoesMoves DEF WriteTmp
  <2> QED
    BY <2>1, <2>2 DEF CaughtUpAt, Overdue, Moves
<1>5. CASE Replace(j)
  <2>1. job[j].stage = "replace" /\ UNCHANGED <<week, stamp, restarts>>
    BY <1>5 DEF Replace, clock, records
  <2>2. Moves(j, "stamp", job[j].week, job[j].macro)
    BY <1>1, <1>5, GoesMoves DEF Replace
  <2> QED
    BY <2>1, <2>2 DEF CaughtUpAt, Overdue, Moves
<1>6. CASE Stamp(j)
  <2>1. job[j].stage = "stamp" /\ stamp' = job[j].week /\ week' = week
    BY <1>6 DEF Stamp, clock
  <2>2. week \in Nat /\ Period >= 1 /\ Period \in Nat
    BY StrategyAssumption DEF Clocks
  <2> QED
    BY <2>1, <2>2 DEF CaughtUpAt, Overdue, Done
<1> QED
  BY <1>2, <1>3, <1>4, <1>5, <1>6 DEF Realloc

\* What else happens leaves the job where it is, stamps for it, or ends it.
LEMMA JobStays ==
  ASSUME Clocks, Clocks', NEW n \in Nat, NEW s \in {"check"} \cup Past, CaughtUpAt(n, s), [Next]_vars,
         ~Realloc("catchup")
  PROVE  (CaughtUpAt(n, s) \/ Done(n))'
<1>1. ~booted
  BY DEF Clocks, Types, CaughtUpAt, Past
<1>2. CASE Restart
  BY <1>2 DEF Restart, CaughtUpAt, Done
<1>3. CASE ~Restart
  <2>1. ~CatchUp /\ ~NewWeek
    BY <1>1 DEF CatchUp, NewWeek, CaughtUpAt, Past, Job
  <2>2. week' = week /\ restarts' = restarts /\ job'["catchup"] = job["catchup"]
    <3>1. JobType
      BY DEF Clocks, Types
    <3>2. CASE FridayStart \/ ReadRegime \/ WriteJournal
      <4>1. week' = week /\ restarts' = restarts
        BY <3>2 DEF FridayStart, ReadRegime, WriteJournal, clock
      <4>2. job'["catchup"] = job["catchup"]
        BY <3>1, <3>2 DEF FridayStart, ReadRegime, WriteJournal, Starts, Goes, JobType, Job
      <4> QED
        BY <4>1, <4>2
    <3>3. CASE CheckDate("friday") \/ Call("friday") \/ WriteTmp("friday")
               \/ Replace("friday") \/ Stamp("friday")
      <4>1. week' = week /\ restarts' = restarts
        BY <3>3 DEF CheckDate, Call, WriteTmp, Replace, Stamp, clock
      <4>2. job'["catchup"] = job["catchup"]
        BY <3>1, <3>3 DEF CheckDate, Call, WriteTmp, Replace, Stamp, Goes, JobType, Job
      <4> QED
        BY <4>1, <4>2
    <3>4. CASE MacroChanges \/ UNCHANGED vars
      BY <3>4 DEF MacroChanges, vars, clock
    <3>5. Job = {"friday", "catchup"}
      BY DEF Job
    <3> QED
      BY <1>3, <2>1, <3>2, <3>3, <3>4, <3>5 DEF Next, Realloc
  <2> QED
    BY <2>2 DEF CaughtUpAt, Overdue, Done
<1> QED
  BY <1>2, <1>3

\* Weeks stay numbers.
Weeks == week \in Nat /\ stamp \in Int /\ \A j \in Job : job[j].week \in Nat

\* Every step keeps them so.
LEMMA WeeksAreKept == JobType /\ Weeks /\ [Next]_vars => Weeks'
<1> SUFFICES ASSUME JobType, Weeks, [Next]_vars PROVE Weeks'
  OBVIOUS
<1>1. ASSUME NEW j \in Job, NEW s, NEW w \in Nat, NEW m, Moves(j, s, w, m),
             week' \in Nat, stamp' \in Int
      PROVE  Weeks'
  BY <1>1 DEF Moves, Weeks
<1>2. ASSUME UNCHANGED <<week, stamp, job>> PROVE Weeks'
  BY <1>2 DEF Weeks
<1>3. "friday" \in Job /\ "catchup" \in Job
  BY DEF Job
<1>4. CASE FridayStart
  <2>1. \E s : Moves("friday", s, week, macro)
    BY <1>3, <1>4, StartsMoves DEF FridayStart
  <2> QED
    BY <1>1, <1>3, <1>4, <2>1 DEF FridayStart, clock, records, Weeks
<1>5. CASE ReadRegime \/ WriteJournal
  <2>1. \E s : Moves("friday", s, job["friday"].week, job["friday"].macro)
    BY <1>3, <1>5, GoesMoves DEF ReadRegime, WriteJournal
  <2>2. week' = week /\ stamp' = stamp
    BY <1>5 DEF ReadRegime, WriteJournal, clock, records
  <2> QED
    BY <1>1, <1>3, <2>1, <2>2 DEF Weeks
<1>6. CASE CatchUp
  <2>1. Moves("catchup", "check", week, macro)
    BY <1>3, <1>6, StartsMoves DEF CatchUp
  <2> QED
    BY <1>1, <1>3, <1>6, <2>1 DEF CatchUp, clock, records, Weeks
<1>7. ASSUME NEW j \in Job, CheckDate(j) \/ Call(j) \/ WriteTmp(j) \/ Replace(j) \/ Stamp(j)
      PROVE  Weeks'
  <2>1. \E s, m : \E w \in {job[j].week, 0} : Moves(j, s, w, m)
    <3>1. CASE CheckDate(j)
      <4>1. \/ job' = [job EXCEPT ![j] = [@ EXCEPT !.stage = "call"]]
            \/ job' = [job EXCEPT ![j] = Idle]
        BY <3>1 DEF CheckDate, JobType
      <4>2. job' = [job EXCEPT ![j] = [@ EXCEPT !.stage = "call"]] => Goes(j, "call")
        BY DEF Goes, JobType
      <4> QED
        BY <4>1, <4>2, GoesMoves, EndMoves
    <3>2. CASE Call(j)
      BY <3>2, GoesMoves, AnswerMoves DEF Call
    <3>3. CASE WriteTmp(j) \/ Replace(j)
      BY <3>3, GoesMoves DEF WriteTmp, Replace
    <3>4. CASE Stamp(j)
      BY <3>4, EndMoves DEF Stamp
    <3> QED
      BY <1>7, <3>1, <3>2, <3>3, <3>4
  <2>2. week' = week /\ stamp' \in {stamp, job[j].week}
    BY <1>7 DEF CheckDate, Call, WriteTmp, Replace, Stamp, clock, records
  <2> QED
    BY <1>1, <2>1, <2>2 DEF Weeks
<1>8. CASE MacroChanges \/ UNCHANGED vars
  BY <1>2, <1>8 DEF MacroChanges, vars, clock, records
<1>9. CASE NewWeek
  BY <1>9 DEF NewWeek, records, Weeks
<1>10. CASE Restart
  BY <1>10 DEF Restart, clock, records, Weeks, Idle
<1> QED
  BY <1>4, <1>5, <1>6, <1>7, <1>8, <1>9, <1>10 DEF Next

\* An overdue reallocation that a boot has scheduled is stamped, or the process
\* dies, however the Friday job runs beside it (_catch_up_reallocation).
THEOREM CatchUpComesToItsStamp == Spec /\ []CatchUpCanRun => OverdueIsCaughtUp
<1>1. Spec => []Clocks
  <2>1. Init => Weeks
    BY StrategyAssumption DEF Init, Never, Weeks, Idle
  <2>2. Inv => JobType
    BY DEF Inv, Types
  <2>3. Spec => []Weeks
    BY <2>1, <2>2, Invariant, WeeksAreKept, PTL DEF Spec
  <2>4. Inv /\ Weeks => Clocks
    BY DEF Inv, Weeks, Clocks
  <2> QED
    BY <2>3, <2>4, Invariant, PTL
<1> SUFFICES ASSUME NEW n \in 0..MaxRestarts
             PROVE  Spec /\ []CatchUpCanRun
                      => ((booted /\ restarts = n /\ Overdue) ~> (~Overdue \/ restarts > n))
  BY DEF OverdueIsCaughtUp
<1>2. n \in Nat
  BY StrategyAssumption
<1> DEFINE C(s) == CaughtUpAt(n, s)
<1>3. Clocks /\ Scheduled(n) /\ [Next]_vars => (Scheduled(n) \/ C("check") \/ Done(n))'
  BY <1>2, ScheduledStays
<1>4. Clocks /\ Scheduled(n) /\ <<CatchUp>>_vars => C("check")'
  BY <1>2, CatchUpStarts
<1>5. Clocks /\ Clocks' /\ [Next]_vars =>
        /\ C("check") => (C("check") \/ C("call") \/ Done(n))'
        /\ C("call") => (C("call") \/ C("write") \/ C("stamp") \/ Done(n))'
        /\ C("write") => (C("write") \/ C("replace") \/ Done(n))'
        /\ C("replace") => (C("replace") \/ C("stamp") \/ Done(n))'
        /\ C("stamp") => (C("stamp") \/ Done(n))'
  BY <1>2, JobAdvances, JobStays DEF Past
<1>6. Clocks /\ <<Realloc("catchup")>>_vars =>
        /\ C("check") => C("call")'
        /\ C("call") => (C("write") \/ C("stamp"))'
        /\ C("write") => C("replace")'
        /\ C("replace") => C("stamp")'
        /\ C("stamp") => Done(n)'
  BY <1>2, JobAdvances
<1>7. Scheduled(n) <=> booted /\ restarts = n /\ Overdue
  BY DEF Scheduled
<1>8. Done(n) <=> ~Overdue \/ restarts > n
  BY DEF Done
<1> DEFINE Working == job["catchup"].stage \in {"check"} \cup Past
<1>9. /\ Scheduled(n) => booted
      /\ C("check") \/ C("call") \/ C("write") \/ C("replace") \/ C("stamp") => Working
  BY DEF Scheduled, CaughtUpAt, Past
<1> HIDE DEF C
<1>10. Spec /\ []CatchUpCanRun => (Scheduled(n) ~> Done(n))
  BY <1>1, <1>3, <1>4, <1>5, <1>6, <1>9, PTL DEF Spec, CatchUpCanRun
<1> QED
  BY <1>7, <1>8, <1>10, PTL
=============================================================================
