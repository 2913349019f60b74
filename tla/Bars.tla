-------------------------------- MODULE Bars --------------------------------
(***************************************************************************)
(* The cache of daily bars: CachedMarketData over BarCache and an upstream *)
(* source.  Requests of several threads (the agents' state, the volatility *)
(* scanner, the reserve job) read the cache, ask for its last dates, fetch *)
(* what is missing, store what is final and merge, each step on its own;   *)
(* midnight may fall between any two.                                      *)
(*                                                                         *)
(* A day is a number; every day has a bar, final once the day is over.  A  *)
(* request takes less than a day.  The first day is over at the start.     *)
(***************************************************************************)
EXTENDS Integers, FiniteSets, FiniteSetsExt

CONSTANTS
  Symbol,       \* symbols
  Request,      \* requests under way at the same time
  Lookback,     \* how many days back a caller may ask
  MaxDay,       \* last day (a bound)
  MaxFaults     \* symbols served in part or not at all (a bound)

ASSUME BarsAssumption ==
  /\ IsFiniteSet(Symbol)
  /\ Lookback \subseteq Nat \ {0} /\ MaxDay \in Nat \ {0} /\ MaxFaults \in Nat

VARIABLES
  today,       \* the day by the clock (UTC)
  cached,      \* BarCache: per symbol, the days stored
  live,        \* those of them that were stored before their day was over
  req,         \* per request: its stage, symbols, start and end, what it read
               \* and fetched
  faults,      \* symbols served in part or not at all so far
  skipped,     \* history: per symbol, days left out of an answer of the source
  late,        \* requests with a midnight between their fetch and their write
  behind       \* requests with another one's write between their two reads

barVars == <<today, cached, live, req, faults, skipped, late, behind>>

Nothing == [s \in Symbol |-> {}]
Idle == [stage |-> "idle", syms |-> {}, start |-> 0, end |-> 0, gap |-> 0,
         had |-> Nothing, fresh |-> Nothing, fetchedOn |-> 0]

InitBars ==
  /\ today = 2 /\ cached = Nothing /\ live = Nothing
  /\ req = [r \in Request |-> Idle] /\ late = {} /\ behind = {}
  /\ faults = 0 /\ skipped = Nothing

\* read_range: the stored days of the range.
ReadRange(r, l, S) ==
  /\ req[r] = Idle
  /\ req' = [req EXCEPT ![r] =
               [Idle EXCEPT !.stage = "last", !.syms = S, !.start = Max({1, today - l}),
                            !.end = today,
                            !.had = [s \in Symbol |->
                                       IF s \in S
                                       THEN {d \in cached[s] : d >= today - l}
                                       ELSE {}]]]
  /\ UNCHANGED <<today, cached, live, faults, skipped, late, behind>>

\* Never more than what was asked for.
MutantGap(s, start, end) ==
  IF cached[s] = {} THEN start
  ELSE IF Max(cached[s]) >= Min({end, today - 1}) THEN today
  ELSE Max({start, Max(cached[s]) + 1})

\* The first day to fetch of one symbol: all, today's only, or from the day
\* after the last one stored, be it before the range.
Gap(s, start, end) ==
  IF cached[s] = {} THEN start
  ELSE IF Max(cached[s]) >= Min({end, today - 1}) THEN today
  ELSE Max(cached[s]) + 1

\* last_cached_date, and the earliest gap of the batch; past the end nothing
\* is fetched.
LastDates(r) ==
  /\ req[r].stage = "last"
  /\ LET gap == Min({Gap(s, req[r].start, req[r].end) : s \in req[r].syms}) IN
       /\ req' = [req EXCEPT ![r] = IF gap > req[r].end THEN Idle
                                    ELSE [@ EXCEPT !.stage = "fetch", !.gap = gap]]
       /\ behind' = IF gap > req[r].end THEN behind \ {r} ELSE behind
  /\ UNCHANGED <<today, cached, live, faults, skipped, late>>

\* One symbol, from the source of its asset class: everything from the gap on,
\* or nothing; a bar that does not parse or has no price is left out.
Served(r, s) ==
  IF s \in req[r].syms
  THEN LET all == req[r].gap..req[r].end IN {{}, all} \cup {all \ {d} : d \in all}
  ELSE {{}}

Short(r, f) == {s \in req[r].syms : f[s] # req[r].gap..req[r].end}

\* What is left out of an answer that is not empty.
LeftOut(r, f) ==
  [s \in Symbol |-> IF f[s] = {} THEN {} ELSE (req[r].gap..req[r].end) \ f[s]]

\* The batch: whatever its symbols got, each on its own.
Upstream(r) ==
  {f \in [Symbol -> UNION {Served(r, s) : s \in Symbol}] :
     \A s \in Symbol : f[s] \in Served(r, s)}

\* get_bars_batch of the source, which may raise: then the cache must do.
Fetch(r) ==
  /\ req[r].stage = "fetch"
  /\ \/ /\ \E f \in Upstream(r) :
             /\ req' = [req EXCEPT ![r].stage = "write", ![r].gap = 0, ![r].fresh = f,
                                   ![r].fetchedOn = today]
             /\ skipped' = [s \in Symbol |-> skipped[s] \cup LeftOut(r, f)[s]]
             /\ faults' = faults + Cardinality(Short(r, f))
        /\ UNCHANGED behind
     \/ /\ req' = [req EXCEPT ![r] = Idle]
        /\ behind' = behind \ {r}
        /\ UNCHANGED <<faults, skipped>>
  /\ faults' <= MaxFaults
  /\ UNCHANGED <<today, cached, live, late>>

\* Today's bar is stored with the rest.
MutantStorable(d) == d <= today

\* write: the bars of days that are over by now.
Storable(d) == d < today

\* The answer for a symbol: what was read and what was fetched, within the
\* range (a fetched bar goes before the stored one).
Merged(r, s) ==
  {d \in req[r].had[s] \cup req[r].fresh[s] : d \in req[r].start..req[r].end}

\* What is fetched is stored, and the answer given.
WriteAndMerge(r) ==
  /\ req[r].stage = "write"
  /\ LET new == [s \in Symbol |-> {d \in req[r].fresh[s] : Storable(d)}] IN
       /\ cached' = [s \in Symbol |-> cached[s] \cup new[s]]
       /\ live' = [s \in Symbol |->
                     (live[s] \ new[s]) \cup {d \in new[s] : d >= req[r].fetchedOn}]
       /\ behind' = (behind \ {r}) \cup
                      IF new = Nothing THEN {}
                      ELSE {q \in Request \ {r} : req[q].stage = "last"}
  /\ req' = [req EXCEPT ![r] = Idle]
  /\ late' = late \ {r}
  /\ UNCHANGED <<today, faults, skipped>>

Midnight ==
  /\ today < MaxDay /\ today' = today + 1
  /\ \A r \in Request : req[r] # Idle => req[r].end = today
  /\ late' = late \cup {r \in Request : req[r].stage = "write"}
  /\ UNCHANGED <<cached, live, req, faults, skipped, behind>>

NextBars ==
  \/ \E r \in Request :
       \/ \E l \in Lookback, S \in (SUBSET Symbol) \ {{}} : ReadRange(r, l, S)
       \/ LastDates(r) \/ Fetch(r) \/ WriteAndMerge(r)
  \/ Midnight

SpecBars == InitBars /\ [][NextBars]_barVars

-----------------------------------------------------------------------------
(* Properties *)

\* Every day between the first and the last, but for some.
Whole(D, but) == D = {} \/ (Min(D)..Max(D)) \ D \subseteq but

\* What is stored is final and will never be fetched again: a bar of a day
\* that was still running is stored only by a request that fetched it before
\* midnight and stored it after (BarCache.write, skip_today).
StoredIsFinal ==
  [][\A s \in Symbol :
       live'[s] \subseteq live[s] \cup UNION {req[r].fresh[s] : r \in late}]_barVars

\* The days of the range that an answer lacks and the source did not leave out.
Lacking(r, s) ==
  (req[r].start..req[r].end) \ (Merged(r, s) \cup skipped[s])

\* The days of the range before the first one the cache held of it.
Early(r, s) ==
  {d \in req[r].start..req[r].end :
     req[r].had[s] # {} /\ \A h \in req[r].had[s] : d < h}

\* The requests about to answer that have read the cache as it was.
Answering == {r \in Request \ behind : req[r].stage = "write"}

\* The cache has no hole but for bars the source left out, so that its last
\* date tells what follows: whatever the order of narrow and wide requests,
\* batches, failures of the source and writers at once (last_cached_date).
\* An answer shows everything the cache held of the range and has no other
\* hole; and where the source served the symbol it lacks no day from start to
\* end, but for those before the first one the cache held of the range: they
\* are never fetched, and an answer can lack them, see RangeIsAnswered
\* (get_bars_batch).  Requests with another's write between their two reads of
\* the cache are left out.
OnlyEarlyDaysLack ==
  /\ \A s \in Symbol : Whole(cached[s], skipped[s])
  /\ \A r \in Answering : \A s \in req[r].syms :
       /\ req[r].had[s] \subseteq Merged(r, s)
       /\ Whole(Merged(r, s), skipped[s])
       /\ req[r].fresh[s] # {} => Lacking(r, s) \subseteq Early(r, s)

\* What get_bars_batch says where it asks for no more than today's bar: "Cache
\* fully covers the historical (immutable) portion", and the module of itself:
\* "cache misses fetch only the gap".  So a symbol that the source served is
\* answered from start to end.
RangeIsAnswered ==
  \A r \in Answering : \A s \in req[r].syms :
    req[r].fresh[s] # {} => Lacking(r, s) = {}
=============================================================================
