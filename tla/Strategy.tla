------------------------------ MODULE Strategy ------------------------------
(***************************************************************************)
(* The Manager's strategic work: the Friday job of app.py (regime read and *)
(* journal behind a fingerprint of the macro inputs, then the reallocation *)
(* of capital) and the catch-up that a boot schedules for an overdue       *)
(* reallocation.  The two run on different threads of the scheduler.  The  *)
(* weights go to a file through one temporary file; the date of the last   *)
(* reallocation goes to the Manager's memory; the fingerprint is lost with *)
(* the process, which may die between any two steps.                       *)
(*                                                                         *)
(* Time goes in weeks, one Friday each.  Multipliers are percentages.      *)
(***************************************************************************)
EXTENDS Integers, FiniteSets, FiniteSetsExt

CONSTANTS
  Sleeve,       \* the sleeve agents
  Macro,        \* macro inputs: pairs of a VIX bucket and the drawdowns
  Amount,       \* numbers a reallocation may name
  Period,       \* weeks between two reallocations (4 in the code)
  MaxWeek,      \* last week (a bound)
  MaxRestarts   \* restarts (a bound)

ASSUME StrategyAssumption ==
  /\ IsFiniteSet(Sleeve) /\ Amount \subseteq Nat /\ Period \in Nat \ {0}
  /\ {MaxWeek, MaxRestarts} \subseteq Nat

VARIABLES
  week,
  macro,       \* the macro inputs as they are
  friday,      \* the Friday job of this week is still to come
  booted,      \* the catch-up of this boot is still to come
  job,         \* per job: its stage, the week and the inputs it read, its answer
  fingerprint, \* App._last_manager_fingerprint
  regime,      \* memory last_regime_read: the inputs it was read under
  stamp,       \* memory last_capital_reallocation: its week
  tmp,         \* the temporary file of the sleeve weights
  file,        \* the sleeve weights file
  restarts,
  fired,       \* history: the week of the last reallocation asked for
  unread,      \* history: the last regime read brought nothing on record
  cut,         \* history: a crash cut off the stamp of a reallocation
  overlapped   \* history: both jobs were past the check of the date at once

clock == <<week, macro>>
records == <<regime, stamp>>
files == <<tmp, file>>
vars == <<clock, friday, booted, job, fingerprint, records, files, restarts,
          fired, unread, cut, overlapped>>

Job == {"friday", "catchup"}
None == <<>>
Torn == [torn |-> 0]
Never == 0 - Period
Idle == [stage |-> "idle", week |-> 0, macro |-> None, weights |-> None]

ASSUME MacroAssumption == None \notin Macro

Init ==
  /\ week = 0 /\ macro \in Macro /\ friday = TRUE /\ booted = TRUE
  /\ job = [j \in Job |-> Idle] /\ fingerprint = None
  /\ regime = None /\ stamp = Never /\ tmp = None /\ file = None
  /\ restarts = 0 /\ fired = Never
  /\ unread = FALSE /\ cut = FALSE /\ overlapped = FALSE

Goes(j, stage) == job' = [job EXCEPT ![j].stage = stage]

Starts(j, stage) ==
  job' = [job EXCEPT ![j] = [Idle EXCEPT !.stage = stage, !.week = week,
                                         !.macro = macro]]

-----------------------------------------------------------------------------
(* The Friday job: regime read and journal *)

\* The drawdowns are left out.
MutantFingerprint(m) == <<m[1]>>

\* compute_manager_fingerprint: of the VIX bucket and of the drawdown buckets.
Fingerprint(m) == m

\* _job_manager_friday, up to the gate.
FridayStart ==
  /\ friday /\ job["friday"] = Idle /\ friday' = FALSE
  /\ Starts("friday", IF Fingerprint(macro) = fingerprint THEN "check" ELSE "regime")
  /\ UNCHANGED <<clock, booted, fingerprint, records, files, restarts, fired,
                 unread, cut, overlapped>>

\* regime_read: an answer is put on record; no answer, for lack of budget or
\* another failure, is {} and leaves the record alone; the record may fail.
ReadRegime ==
  /\ job["friday"].stage = "regime"
  /\ \/ regime' = job["friday"].macro /\ unread' = FALSE /\ Goes("friday", "journal")
     \/ /\ \E s \in {"journal", "journal_only"} : Goes("friday", s)
        /\ unread' = TRUE /\ UNCHANGED regime
  /\ UNCHANGED <<clock, friday, booted, fingerprint, stamp, files, restarts, fired,
                 cut, overlapped>>

\* weekly_journal, and the fingerprint, unless both have raised.
WriteJournal ==
  /\ job["friday"].stage \in {"journal", "journal_only"}
  /\ \/ fingerprint' = Fingerprint(job["friday"].macro)
     \/ job["friday"].stage = "journal_only" /\ UNCHANGED fingerprint
  /\ Goes("friday", "check")
  /\ UNCHANGED <<clock, friday, booted, records, files, restarts, fired, unread,
                 cut, overlapped>>

-----------------------------------------------------------------------------
(* Capital reallocation *)

\* _catch_up_reallocation
CatchUp ==
  /\ booted /\ booted' = FALSE
  /\ Starts("catchup", "check")
  /\ UNCHANGED <<clock, friday, fingerprint, records, files, restarts, fired,
                 unread, cut, overlapped>>

\* Four full weeks are not enough.
MutantDue(w) == w - stamp > Period

Due(w) == w - stamp >= Period

Past == {"call", "write", "replace", "stamp"}

\* _run_capital_reallocation_if_due: the date of the last one.
CheckDate(j) ==
  /\ job[j].stage = "check"
  /\ job' = [job EXCEPT ![j] = IF Due(@.week) THEN [@ EXCEPT !.stage = "call"] ELSE Idle]
  /\ overlapped' = \/ overlapped
                   \/ /\ job'[j].stage = "call"
                      /\ \E k \in Job \ {j} : job[k].stage \in Past
  /\ UNCHANGED <<clock, friday, booted, fingerprint, records, files, restarts,
                 fired, unread, cut>>

\* What the Manager may answer, as far as it can be read: dollars with the
\* present ones beside them, dollars without, or multipliers.
Answers ==
  [shape : {"dollars", "bare", "weights"},
   new : UNION {[S -> Amount] : S \in SUBSET Sleeve}, cur : [Sleeve -> Amount]]

\* The multipliers an answer stands for: new by present dollars where there
\* are some, else the dollars themselves; or rebased to a mean of 1; or as
\* they are.
Mapped(a) ==
  [s \in DOMAIN a.new |->
     CASE a.shape = "dollars" -> IF a.cur[s] > 0 THEN (100 * a.new[s]) \div a.cur[s]
                                 ELSE 100 * a.new[s]
       [] a.shape = "bare" ->
            LET sum == MapThenSumSet(LAMBDA x : a.new[x], DOMAIN a.new)
            IN IF sum > 0 THEN (100 * a.new[s] * Cardinality(DOMAIN a.new)) \div sum
               ELSE 100 * a.new[s]
       [] OTHER -> 100 * a.new[s]]

\* Multipliers named as such are taken at their word.
MutantClamped(a) ==
  [s \in DOMAIN a.new |->
     IF a.shape = "weights" THEN Mapped(a)[s] ELSE Max({75, Min({125, Mapped(a)[s]})})]

Clamped(a) == [s \in DOMAIN a.new |-> Max({75, Min({125, Mapped(a)[s]})})]

Outcomes == {Clamped(a) : a \in {b \in Answers : b.new # None}}

\* capital_reallocation: an answer, or none, or one that names no sleeve.
Call(j) ==
  /\ job[j].stage = "call" /\ fired' = job[j].week
  /\ \/ \E w \in Outcomes :
          job' = [job EXCEPT ![j].stage = "write", ![j].weights = w]
     \/ Goes(j, "stamp")
  /\ UNCHANGED <<clock, friday, booted, fingerprint, records, files, restarts,
                 unread, cut, overlapped>>

\* write_sleeve_weights: the temporary file, which a second writer finds half
\* written or writes over ...
WriteTmp(j) ==
  /\ job[j].stage = "write"
  /\ tmp' = IF \E k \in Job \ {j} : job[k].stage = "replace" THEN Torn
            ELSE job[j].weights
  /\ Goes(j, "replace")
  /\ UNCHANGED <<clock, friday, booted, fingerprint, records, file, restarts, fired,
                 unread, cut, overlapped>>

\* ... and its renaming; whoever comes second finds it gone, which is logged.
Replace(j) ==
  /\ job[j].stage = "replace"
  /\ file' = IF tmp = None THEN file ELSE tmp
  /\ tmp' = None
  /\ Goes(j, "stamp")
  /\ UNCHANGED <<clock, friday, booted, fingerprint, records, restarts, fired,
                 unread, cut, overlapped>>

\* read_sleeve_weights: half a file is no file.
ReadSleeveWeights == IF file = Torn THEN None ELSE file

\* What effective_max_gross multiplies a sleeve's cap by.
SleeveWeight(s) ==
  IF s \in DOMAIN ReadSleeveWeights
  THEN Max({25, Min({200, ReadSleeveWeights[s]})})
  ELSE 100

\* A reallocation that brought no weights is not stamped.
MutantStamp(j) ==
  /\ job[j].stage = "stamp"
  /\ stamp' = IF job[j].weights = None THEN stamp ELSE job[j].week
  /\ cut' = FALSE
  /\ job' = [job EXCEPT ![j] = Idle]
  /\ UNCHANGED <<clock, friday, booted, fingerprint, regime, files, restarts, fired,
                 unread, overlapped>>

\* "Stamp the run regardless of whether weights changed."
Stamp(j) ==
  /\ job[j].stage = "stamp"
  /\ stamp' = job[j].week /\ cut' = FALSE
  /\ job' = [job EXCEPT ![j] = Idle]
  /\ UNCHANGED <<clock, friday, booted, fingerprint, regime, files, restarts, fired,
                 unread, overlapped>>

-----------------------------------------------------------------------------
(* Around them *)

MacroChanges ==
  /\ macro' \in Macro \ {macro}
  /\ UNCHANGED <<week, friday, booted, job, fingerprint, records, files, restarts,
                 fired, unread, cut, overlapped>>

\* A week passes; a Friday at which the process was down is missed.
NewWeek ==
  /\ week < MaxWeek /\ week' = week + 1 /\ friday' = TRUE
  /\ \A j \in Job : job[j].stage = "idle"
  /\ UNCHANGED <<macro, booted, job, fingerprint, records, files, restarts, fired,
                 unread, cut, overlapped>>

\* The process dies and is started again.
Restart ==
  /\ restarts < MaxRestarts /\ restarts' = restarts + 1
  /\ job' = [j \in Job |-> Idle] /\ fingerprint' = None /\ booted' = TRUE
  /\ cut' = (cut \/ \E j \in Job : job[j].stage \in {"write", "replace", "stamp"})
  /\ friday' \in {friday, FALSE}
  /\ UNCHANGED <<clock, records, files, fired, unread, overlapped>>

Realloc(j) == CheckDate(j) \/ Call(j) \/ WriteTmp(j) \/ Replace(j) \/ Stamp(j)

Next ==
  \/ FridayStart \/ ReadRegime \/ WriteJournal
  \/ CatchUp
  \/ \E j \in Job :
       CheckDate(j) \/ Call(j) \/ WriteTmp(j) \/ Replace(j) \/ Stamp(j)
  \/ MacroChanges \/ NewWeek \/ Restart

\* The scheduler runs the catch-up it was given, and every call of a model
\* ends.
Spec ==
  /\ Init /\ [][Next]_vars
  /\ WF_vars(CatchUp) /\ WF_vars(Realloc("catchup"))

-----------------------------------------------------------------------------
(* Properties *)

\* Reallocations are asked for at least a Period apart, whatever the answers,
\* restarts included - unless the two jobs overlap, as nothing keeps one from
\* passing the check before the other's stamp, or a crash came before the
\* stamp (_run_capital_reallocation_if_due).
ReallocationsAreSpaced ==
  [][\A j \in Job :
       (job[j].stage = "call" /\ job'[j].stage # "call" /\ restarts' = restarts)
         => overlapped \/ cut \/ job[j].week - fired >= Period]_vars

\* What sizing multiplies a sleeve's cap by stays within 25 % of the base, for
\* every shape of answer, through every crash and whatever two writers make of
\* the file; only two jobs at once may leave half a file, which drops the
\* weights in force (write_sleeve_weights, read_sleeve_weights, "Clamp").
WeightsAreSane ==
  /\ \A s \in Sleeve : SleeveWeight(s) \in 75..125
  /\ file = Torn => overlapped

\* When the Friday job turns to capital, the regime on record was read under
\* the inputs the job saw, whether it read it now or skipped it - unless the
\* last read brought nothing, which the gate does not notice
\* (_job_manager_friday).
RegimeIsCurrent ==
  job["friday"].stage = "check" => regime = job["friday"].macro \/ unread

Overdue == week - stamp >= Period

\* An overdue reallocation does not wait for a Friday: once a boot has
\* scheduled its catch-up, it is stamped or the process dies
\* (_catch_up_reallocation).
OverdueIsCaughtUp ==
  \A n \in 0..MaxRestarts :
    (booted /\ restarts = n /\ Overdue) ~> (~Overdue \/ restarts > n)

\* What its proof takes from TLC: the job can start, and can go on.
CatchUpCanRun ==
  /\ booted => ENABLED <<CatchUp>>_vars
  /\ job["catchup"].stage \in {"check"} \cup Past => ENABLED <<Realloc("catchup")>>_vars
=============================================================================
