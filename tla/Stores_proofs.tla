---------------------------- MODULE Stores_proofs ----------------------------
(***************************************************************************)
(* Theorems about what is kept across restarts.                            *)
(*                                                                         *)
(* The cache of daily bars, for any symbols, requests and look-backs and   *)
(* any failures of the source: what is stored is final but for one race    *)
(* with midnight, and has no hole.  That needs that the days a request is  *)
(* about to fetch or to store join what is stored, by whomever, by then.   *)
(*                                                                         *)
(* The tax-lot ledger, for any fills, orders, prices, crashes and failed   *)
(* writes: the disk follows memory, lots give in order, closed lots are    *)
(* scored, and what the lots hold is what was booked.  The last needs the  *)
(* balance between two sums over the fills and one over the lots, in       *)
(* memory and on disk at once: a restart exchanges one for the other.      *)
(* Its two profits are what the fills earned.  That needs that each table  *)
(* keeps the latest days of what was bought, that no prefix of the log     *)
(* sells more than it buys, and what the recursion over the log computes.  *)
(***************************************************************************)
EXTENDS LotLedger, Bars, SumTheorems, TLAPS

\* A request is a record; what it fetched belongs to the day it says.
RequestFields ==
  {"stage", "syms", "start", "end", "gap", "had", "fresh", "fetchedOn"}
RequestTypes ==
  /\ today \in Nat
  /\ DOMAIN req = Request /\ req = [r \in Request |-> req[r]]
  /\ \A r \in Request :
       /\ DOMAIN req[r] = RequestFields
       /\ req[r] = [f \in RequestFields |-> req[r][f]]

\* A request that is about to write, and on which no midnight has fallen since
\* it fetched, fetched today.
FetchedToday ==
  \A r \in Request \ late : req[r].stage = "write" => req[r].fetchedOn = today

\* What it fetched are days.
FetchedDays ==
  \A r \in Request : req[r].stage = "write" =>
    \A s \in Symbol : req[r].fresh[s] \subseteq Int

BarsInv == RequestTypes /\ FetchedToday /\ FetchedDays

\* Every bar that is new among those stored too early was fetched on a day
\* before, by a request a midnight fell on.
Finally ==
  \A s \in Symbol :
    live'[s] \subseteq live[s] \cup UNION {req[r].fresh[s] : r \in late}

\* One request changes, and is not about to write or has just fetched.
LEMMA OneRequest ==
  ASSUME BarsInv, NEW r \in Request, NEW q,
         DOMAIN q = RequestFields, q = [f \in RequestFields |-> q[f]],
         req' = [req EXCEPT ![r] = q], UNCHANGED today,
         late \ {r} \subseteq late',
         q.stage = "write" =>
           q.fetchedOn = today /\ \A s \in Symbol : q.fresh[s] \subseteq Int
  PROVE  BarsInv'
<1>1. RequestTypes'
  BY DEF BarsInv, RequestTypes
<1>2. /\ req'[r] = q
      /\ \A p \in Request \ {r} : req'[p] = req[p]
  BY DEF BarsInv, RequestTypes
<1>3. FetchedToday'
  BY <1>2 DEF BarsInv, FetchedToday
<1>4. FetchedDays'
  BY <1>2 DEF BarsInv, FetchedDays
<1> QED
  BY <1>1, <1>3, <1>4 DEF BarsInv

\* An idle request is a record.
LEMMA IdleIsRequest ==
  /\ DOMAIN Idle = RequestFields /\ Idle = [f \in RequestFields |-> Idle[f]]
  /\ Idle.stage = "idle"
BY DEF Idle, RequestFields

\* The range is read.
LEMMA ReadKeeps ==
  ASSUME BarsInv, NEW r \in Request, NEW l, NEW S, ReadRange(r, l, S)
  PROVE  BarsInv'
<1> DEFINE had == [s \in Symbol |-> IF s \in S THEN {d \in cached[s] : d >= today - l}
                                    ELSE {}]
           q == [Idle EXCEPT !.stage = "last", !.syms = S,
                             !.start = Max({1, today - l}), !.end = today,
                             !.had = had]
<1>1. req' = [req EXCEPT ![r] = q] /\ UNCHANGED <<today, late>>
  BY DEF ReadRange
<1>2. DOMAIN q = RequestFields /\ q = [f \in RequestFields |-> q[f]] /\ q.stage = "last"
  BY DEF Idle, RequestFields
<1> HIDE DEF q
<1> QED
  BY <1>1, <1>2, OneRequest

\* The last dates are read, or nothing is to fetch.
LEMMA LastDatesKeeps ==
  ASSUME BarsInv, NEW r \in Request, LastDates(r)
  PROVE  BarsInv'
<1>1. UNCHANGED <<today, late>>
  BY DEF LastDates
<1>2. PICK gap : req' = [req EXCEPT ![r] =
                           IF gap > req[r].end THEN Idle
                           ELSE [req[r] EXCEPT !.stage = "fetch", !.gap = gap]]
  BY DEF LastDates
<1> DEFINE p == [req[r] EXCEPT !.stage = "fetch", !.gap = gap]
<1>3. DOMAIN p = RequestFields /\ p = [f \in RequestFields |-> p[f]] /\ p.stage = "fetch"
  BY DEF BarsInv, RequestTypes, RequestFields
<1> DEFINE q == IF gap > req[r].end THEN Idle ELSE p
<1>4. DOMAIN q = RequestFields /\ q = [f \in RequestFields |-> q[f]] /\ q.stage # "write"
  BY <1>3, IdleIsRequest
<1>5. req' = [req EXCEPT ![r] = q]
  BY <1>2
<1> HIDE DEF q
<1> QED
  BY <1>1, <1>4, <1>5, OneRequest

\* The source answers for today, or raises.
LEMMA FetchKeeps ==
  ASSUME BarsInv, NEW r \in Request, Fetch(r)
  PROVE  BarsInv'
<1>1. UNCHANGED <<today, late>>
  BY DEF Fetch
<1>2. \/ req' = [req EXCEPT ![r] = Idle]
      \/ \E f \in Upstream(r) :
           req' = [req EXCEPT ![r].stage = "write", ![r].gap = 0,
                              ![r].fresh = f, ![r].fetchedOn = today]
  BY DEF Fetch
<1>3. ASSUME NEW g \in Upstream(r),
             req' = [req EXCEPT ![r].stage = "write", ![r].gap = 0,
                                ![r].fresh = g, ![r].fetchedOn = today]
      PROVE  BarsInv'
  <2> DEFINE q == [req[r] EXCEPT !.stage = "write", !.gap = 0, !.fresh = g,
                                 !.fetchedOn = today]
  <2>1. DOMAIN q = RequestFields /\ q = [f \in RequestFields |-> q[f]]
    BY DEF BarsInv, RequestTypes, RequestFields
  <2>2. q.fetchedOn = today /\ q.fresh = g
    BY DEF BarsInv, RequestTypes, RequestFields
  <2>3. req' = [req EXCEPT ![r] = q]
    BY <1>3 DEF BarsInv, RequestTypes
  <2>4. \A s \in Symbol : g[s] \subseteq Int
    <3> TAKE s \in Symbol
    <3>1. g[s] \in Served(r, s)
      BY DEF Upstream
    <3>2. req[r].gap..req[r].end \subseteq Int
      OBVIOUS
    <3> QED
      BY <3>1, <3>2 DEF Served
  <2> HIDE DEF q
  <2> QED
    BY <1>1, <2>1, <2>2, <2>3, <2>4, OneRequest
<1>4. CASE req' = [req EXCEPT ![r] = Idle]
  BY <1>1, <1>4, IdleIsRequest, OneRequest
<1> QED
  BY <1>2, <1>3, <1>4

\* The bars are stored: of a running day only those fetched on a day before.
LEMMA WriteKeeps ==
  ASSUME BarsInv, NEW r \in Request, WriteAndMerge(r)
  PROVE  BarsInv' /\ Finally
<1>1. /\ req' = [req EXCEPT ![r] = Idle] /\ UNCHANGED today
      /\ late' = late \ {r} /\ req[r].stage = "write"
  BY DEF WriteAndMerge
<1>2. BarsInv'
  BY <1>1, IdleIsRequest, OneRequest
<1>3. ASSUME NEW s \in Symbol, NEW d \in live'[s], d \notin live[s]
      PROVE  \E p \in late : d \in req[p].fresh[s]
  <2>1. d \in req[r].fresh[s] /\ d < today /\ d >= req[r].fetchedOn
    BY <1>3 DEF WriteAndMerge, Storable
  <2>2. r \in late
    BY <1>1, <2>1 DEF BarsInv, FetchedToday, FetchedDays, RequestTypes
  <2> QED
    BY <2>1, <2>2
<1> QED
  BY <1>2, <1>3 DEF Finally

\* Midnight makes every request that is about to write a late one.
LEMMA MidnightKeeps == BarsInv /\ Midnight => BarsInv'
BY DEF BarsInv, RequestTypes, FetchedToday, FetchedDays, Midnight

\* What is stored is final, but for bars that a request fetched before
\* midnight and stores after it (BarCache.write, skip_today).
THEOREM OnlyFinalBarsAreStored == SpecBars => StoredIsFinal
<1>1. InitBars => BarsInv
  <2> SUFFICES ASSUME InitBars PROVE BarsInv
    OBVIOUS
  <2> QED
    BY IdleIsRequest DEF InitBars, BarsInv, RequestTypes, FetchedToday, FetchedDays
<1>2. BarsInv /\ [NextBars]_barVars => BarsInv'
  <2> SUFFICES ASSUME BarsInv, [NextBars]_barVars PROVE BarsInv'
    OBVIOUS
  <2>1. CASE UNCHANGED barVars
    BY <2>1 DEF barVars, BarsInv, RequestTypes, FetchedToday, FetchedDays
  <2> QED
    BY <2>1, ReadKeeps, LastDatesKeeps, FetchKeeps, WriteKeeps, MidnightKeeps
       DEF NextBars
<1>3. BarsInv /\ [NextBars]_barVars => [Finally]_barVars
  <2> SUFFICES ASSUME BarsInv, NextBars PROVE Finally
    OBVIOUS
  <2>1. UNCHANGED live => Finally
    BY DEF Finally
  <2>2. ASSUME NEW r \in Request, WriteAndMerge(r) PROVE Finally
    BY <2>2, WriteKeeps
  <2>3. ASSUME NEW r \in Request,
               \/ \E l \in Lookback, S \in (SUBSET Symbol) \ {{}} : ReadRange(r, l, S)
               \/ LastDates(r) \/ Fetch(r)
        PROVE  UNCHANGED live
    BY <2>3 DEF ReadRange, LastDates, Fetch
  <2>4. Midnight => UNCHANGED live
    BY DEF Midnight
  <2> QED
    BY <2>1, <2>2, <2>3, <2>4 DEF NextBars
<1> QED
  BY <1>1, <1>2, <1>3, PTL DEF SpecBars, StoredIsFinal, Finally

-----------------------------------------------------------------------------
(* The cache has no hole *)

\* Days D have no hole but for K; the days fetched, F, are all from g to e but
\* for K; the days stored, C, leave nothing but K out before g.
NoHole(D, K) == \A a, b \in D : \A d \in a..b : d \in D \cup K
Covers(F, K, g, e) == F = {} \/ (F \subseteq g..e /\ (g..e) \ F \subseteq K)
Reaches(C, K, g, e) ==
  /\ C = {} => g < e
  /\ C # {} => \A d \in 1..(g - 1) : (\A c \in C : c < d) => d \in K

\* The days to fetch from g on join those read of the range, H, or are all of it
\* from its start, a; and the answer, M, has every day but K from the first of H
\* on, or from a, to the end.
Joins(H, g, a) == IF H = {} THEN g <= a ELSE \E m \in H : g <= m + 1
FromFirst(H, M, K, a, e) ==
  \A d \in a..e : (H = {} \/ \E h \in H : h <= d) => d \in M \cup K

\* The cache: days that are over, without a hole.
CacheHolds ==
  /\ today \in Nat \ {0, 1}
  /\ \A s \in Symbol : /\ cached[s] \subseteq 1..(today - 1)
                       /\ NoHole(cached[s], skipped[s])

\* A request under way, on cache c at day t: it lasts less than a day, and what
\* it is about to fetch or to store joins what is stored.
RequestHolds(q, c, k, t) ==
  q.stage # "idle" =>
    /\ q.syms \subseteq Symbol /\ q.syms # {}
    /\ q.start \in Nat \ {0} /\ q.end \in {t - 1, t} /\ q.start < q.end
    /\ q.stage = "fetch" =>
         /\ q.gap \in 1..q.end
         /\ \A s \in q.syms : Reaches(c[s], k[s], q.gap, q.end)
    /\ q.stage = "write" =>
         /\ \A s \in Symbol \ q.syms : q.fresh[s] = {}
         /\ \A s \in q.syms : \E g \in 1..q.end :
              Covers(q.fresh[s], k[s], g, q.end) /\ Reaches(c[s], k[s], g, q.end)

\* What its answer will show: what it read is what is stored, or what was
\* stored when it asked for the last dates.
AnswerHolds(q, c, k) ==
  /\ q.stage = "last" =>
       \A s \in q.syms : q.had[s] = {d \in c[s] : d >= q.start}
  /\ q.stage = "fetch" =>
       \A s \in q.syms : /\ q.had[s] \subseteq q.start..q.end /\ NoHole(q.had[s], k[s])
                         /\ Joins(q.had[s], q.gap, q.start)
  /\ q.stage = "write" =>
       \A s \in q.syms :
         LET m == {d \in q.had[s] \cup q.fresh[s] : d \in q.start..q.end}
         IN /\ q.had[s] \subseteq m /\ NoHole(m, k[s])
            /\ q.fresh[s] # {} => FromFirst(q.had[s], m, k[s], q.start, q.end)

RequestsHold == \A r \in Request : RequestHolds(req[r], cached, skipped, today)
AnswersHold == \A r \in Request \ behind : AnswerHolds(req[r], cached, skipped)

WholeInv == BarsInv /\ CacheHolds /\ RequestsHold /\ AnswersHold

\* More left out by the source: nothing new is missing.
LEMMA LeavingOutHolds ==
  ASSUME NEW q, NEW c, NEW k, NEW t, NEW n, RequestHolds(q, c, k, t),
         \A s \in Symbol : k[s] \subseteq n[s]
  PROVE  RequestHolds(q, c, n, t)
BY DEF RequestHolds, Covers, Reaches

\* Nor in an answer.
LEMMA LeavingOutAnswers ==
  ASSUME NEW q, NEW c, NEW k, NEW n, AnswerHolds(q, c, k),
         \A s \in q.syms : k[s] \subseteq n[s]
  PROVE  AnswerHolds(q, c, n)
BY DEF AnswerHolds, NoHole, FromFirst

\* Of what was fetched, the days that are over.
Over(F, t) == {d \in F : d < t}

\* What is stored by a request that covers what the cache did not have joins it.
LEMMA StoringJoins ==
  ASSUME NEW C, NEW F, NEW K, NEW t \in Nat, NEW g \in Nat \ {0}, NEW e \in {t - 1, t},
         C \subseteq 1..(t - 1), NoHole(C, K), Covers(F, K, g, e), Reaches(C, K, g, e)
  PROVE  /\ C \cup Over(F, t) \subseteq 1..(t - 1)
         /\ NoHole(C \cup Over(F, t), K)
<1> DEFINE N == Over(F, t)
<1>1. N \subseteq 1..(t - 1) /\ N \subseteq g..e
  BY DEF Covers, Over
<1>2. ASSUME NEW d \in g..e, d < t, F # {} PROVE d \in N \cup K
  BY <1>2 DEF Covers, Over
<1>3. \A d \in N : d \in F /\ d \in Int
  BY <1>1 DEF Over
<1> HIDE DEF N
<1>4. ASSUME NEW a \in C \cup N, NEW b \in C \cup N, NEW d \in a..b
      PROVE  d \in C \cup N \cup K
  <2>1. a \in Int /\ b \in Int /\ a >= 1 /\ b < t /\ d \in Int /\ a <= d /\ d <= b
    BY <1>1
  <2>2. CASE a \in C /\ b \in C
    BY <2>2 DEF NoHole
  <2>3. CASE F # {} /\ d >= g
    BY <1>2, <2>1, <2>3
  <2>4. CASE a \in N
    BY <1>1, <1>3, <2>1, <2>3, <2>4
  <2>5. CASE a \in C /\ b \in N /\ d < g
    <3>1. CASE \A c \in C : c < d
      BY <2>1, <2>5, <3>1 DEF Reaches
    <3>2. CASE \E c \in C : ~(c < d)
      <4>1. PICK c \in C : ~(c < d)
        BY <3>2
      <4>2. d \in a..c
        BY <2>1, <4>1
      <4> QED
        BY <2>5, <4>2 DEF NoHole
    <3> QED
      BY <3>1, <3>2
  <2>6. CASE a \in C /\ b \in N /\ d >= g
    BY <1>3, <2>3, <2>6
  <2> QED
    BY <2>1, <2>2, <2>4, <2>5, <2>6
<1>5. NoHole(C \cup N, K)
  BY <1>4 DEF NoHole
<1> QED
  BY <1>1, <1>5 DEF N

\* What it stores leaves nothing out for the others either.
LEMMA StoringReaches ==
  ASSUME NEW C, NEW F, NEW K, NEW t, NEW g, NEW e, NEW h, NEW f,
         t \in Nat, g \in Nat \ {0}, h \in Nat \ {0}, e \in {t - 1, t}, f \in {t - 1, t},
         C \subseteq 1..(t - 1), Covers(F, K, g, e), Reaches(C, K, h, f)
  PROVE  Reaches(C \cup Over(F, t), K, h, f)
<1> DEFINE N == Over(F, t)
<1>1. C # {} => Reaches(C \cup N, K, h, f)
  BY DEF Reaches
<1>3. ASSUME C = {}, N # {}, NEW d \in 1..(h - 1), \A c \in N : c < d
      PROVE  d \in K
  <2>1. PICK c \in N : TRUE
    BY <1>3
  <2>2. h < f
    BY <1>3 DEF Reaches
  <2>3. F \subseteq g..e /\ (g..e) \ F \subseteq K /\ c \in F
    BY <2>1 DEF Covers, Over
  <2>4. c \in Int /\ g <= c /\ c < d
    BY <1>3, <2>3
  <2>5. d \in g..e /\ d < t
    BY <2>2, <2>4
  <2>6. d \notin N
    BY <1>3
  <2> QED
    BY <2>3, <2>5, <2>6 DEF Over
<1>4. C = {} /\ N # {} => Reaches(N, K, h, f)
  BY <1>3 DEF Reaches
<1>5. C = {} => C \cup N = N
  OBVIOUS
<1> HIDE DEF N
<1>6. C = {} /\ N = {} => Reaches(C \cup N, K, h, f)
  <2> SUFFICES ASSUME C = {} /\ N = {} PROVE Reaches(C \cup N, K, h, f)
    OBVIOUS
  <2>1. C \cup N = C
    OBVIOUS
  <2>2. Reaches(C, K, h, f)
    OBVIOUS
  <2> QED
    BY <2>1, <2>2
<1>7. Reaches(C \cup N, K, h, f)
  BY <1>1, <1>4, <1>5, <1>6
<1> QED
  BY <1>7 DEF N

\* The part of the cache from a day on has no hole.
LEMMA PartIsWhole ==
  ASSUME NEW C, NEW K, C \subseteq Int, NoHole(C, K), NEW n \in Int
  PROVE  NoHole({d \in C : d >= n}, K)
BY DEF NoHole

\* What was read and what was fetched join in the answer.
LEMMA AnswerJoins ==
  ASSUME NEW H, NEW F, NEW K, NEW s \in Nat \ {0}, NEW e \in Nat, NEW g \in Nat \ {0},
         H \subseteq s..e, NoHole(H, K), Joins(H, g, s),
         Covers(F, K, g, e)
  PROVE  /\ H \subseteq {d \in H \cup F : d \in s..e}
         /\ NoHole({d \in H \cup F : d \in s..e}, K)
         /\ F # {} => FromFirst(H, {d \in H \cup F : d \in s..e}, K, s, e)
<1> DEFINE M == {d \in H \cup F : d \in s..e}
<1>1. H \subseteq M /\ M \subseteq s..e
  OBVIOUS
<1>2. ASSUME NEW d \in g..e, d >= s, F # {} PROVE d \in M \cup K
  BY <1>2 DEF Covers
<1>3. \A d \in M : d \in H \/ (d \in F /\ d >= g)
  BY DEF Covers
<1> HIDE DEF M
<1>4. ASSUME NEW a \in M, NEW b \in M, NEW d \in a..b
      PROVE  d \in M \cup K
  <2>1. a \in Int /\ b \in Int /\ a >= s /\ b <= e /\ d \in Int /\ a <= d /\ d <= b
    BY <1>1
  <2>2. CASE a \in H /\ b \in H
    BY <1>1, <2>2 DEF NoHole
  <2>3. CASE F # {} /\ d >= g
    BY <1>2, <2>1, <2>3
  <2>4. CASE a \in F /\ a >= g
    BY <2>1, <2>3, <2>4
  <2>5. CASE a \in H /\ b \in F /\ d < g
    <3>1. PICK m \in H : g <= m + 1
      BY <2>5 DEF Joins
    <3>2. d \in a..m
      BY <2>1, <2>5, <3>1
    <3> QED
      BY <1>1, <2>5, <3>2 DEF NoHole
  <2>6. CASE a \in H /\ b \in F /\ d >= g
    BY <2>3, <2>6
  <2> QED
    BY <1>3, <2>1, <2>2, <2>4, <2>5, <2>6
<1>5. NoHole(M, K)
  BY <1>4 DEF NoHole
<1>6. ASSUME F # {}, NEW d \in s..e, H = {} \/ \E h \in H : h <= d
      PROVE  d \in M \cup K
  <2>1. CASE d >= g
    BY <1>2, <1>6, <2>1
  <2>2. CASE d < g
    <3>1. H # {}
      BY <1>6, <2>2 DEF Joins
    <3>2. PICK h \in H, m \in H : h <= d /\ g <= m + 1
      BY <1>6, <3>1 DEF Joins
    <3>3. d \in h..m
      BY <1>6, <2>2, <3>2
    <3> QED
      BY <1>1, <3>3 DEF NoHole
  <2> QED
    BY <1>6, <2>1, <2>2
<1>7. F # {} => FromFirst(H, M, K, s, e)
  BY <1>6 DEF FromFirst
<1> QED
  BY <1>1, <1>5, <1>7 DEF M

\* One request changes and the cache does not.
LEMMA OneAnswer ==
  ASSUME WholeInv, BarsInv', NEW r \in Request, NEW q,
         req' = [req EXCEPT ![r] = q], UNCHANGED <<today, cached, skipped>>,
         behind \ {r} \subseteq behind',
         RequestHolds(q, cached, skipped, today),
         r \notin behind' => AnswerHolds(q, cached, skipped)
  PROVE  WholeInv'
<1>1. /\ req'[r] = q
      /\ \A p \in Request \ {r} : req'[p] = req[p]
  BY DEF WholeInv, BarsInv, RequestTypes
<1>2. ASSUME NEW p \in Request PROVE RequestHolds(req'[p], cached, skipped, today)
  BY <1>1 DEF WholeInv, RequestsHold
<1>3. ASSUME NEW p \in Request \ behind'
      PROVE  AnswerHolds(req'[p], cached, skipped)
  BY <1>1 DEF WholeInv, AnswersHold
<1>4. RequestsHold'
  BY <1>2 DEF RequestsHold
<1>5. AnswersHold'
  BY <1>3 DEF AnswersHold
<1> QED
  BY <1>4, <1>5 DEF WholeInv, CacheHolds

\* An idle request holds nothing.
LEMMA IdleHolds ==
  \A c, k, t : RequestHolds(Idle, c, k, t) /\ AnswerHolds(Idle, c, k)
BY DEF Idle, RequestHolds, AnswerHolds

\* The range is read: what is stored of it.
LEMMA ReadHolds ==
  ASSUME WholeInv, NEW r \in Request, NEW l \in Lookback, NEW S \in (SUBSET Symbol) \ {{}},
         ReadRange(r, l, S)
  PROVE  WholeInv'
<1> DEFINE had == [s \in Symbol |-> IF s \in S THEN {d \in cached[s] : d >= today - l}
                                    ELSE {}]
           n == Max({1, today - l})
           q == [Idle EXCEPT !.stage = "last", !.syms = S, !.start = n, !.end = today,
                             !.had = had]
<1>1. /\ req' = [req EXCEPT ![r] = q]
      /\ UNCHANGED <<today, cached, skipped, behind>>
  BY DEF ReadRange
<1>2. today \in Nat \ {0, 1} /\ l \in Nat \ {0} /\ today - l \in Int
  BY BarsAssumption DEF WholeInv, CacheHolds
<1>3. n \in {1, today - l} /\ n >= 1 /\ n >= today - l
  <2>1. IsFiniteSet({1, today - l})
    BY PairIsFinite
  <2> QED
    BY <1>2, <2>1, MaxIsLargest
<1> HIDE DEF n
<1>4. n \in Nat \ {0} /\ n < today
  BY <1>2, <1>3
<1>5. \A s \in S : had[s] = {d \in cached[s] : d >= n}
  <2> TAKE s \in S
  <2>1. cached[s] \subseteq 1..(today - 1)
    BY DEF WholeInv, CacheHolds
  <2>2. \A d \in cached[s] : d >= n <=> d >= today - l
    BY <1>2, <1>3, <2>1
  <2> QED
    BY <2>2
<1> HIDE DEF had
<1>6. RequestHolds(q, cached, skipped, today)
  <2>1. q.stage = "last" /\ q.syms = S /\ q.start = n /\ q.end = today
    BY DEF Idle
  <2>3. S \subseteq Symbol
    OBVIOUS
  <2>4. S # {}
    OBVIOUS
  <2>2. today \in {today - 1, today}
    OBVIOUS
  <2> HIDE DEF q
  <2> QED
    BY <1>4, <2>1, <2>2, <2>3, <2>4 DEF RequestHolds
<1>7. AnswerHolds(q, cached, skipped)
  BY <1>5 DEF Idle, AnswerHolds
<1>8. BarsInv'
  BY ReadKeeps DEF WholeInv
<1> HIDE DEF q
<1> QED
  BY <1>1, <1>6, <1>7, <1>8, OneAnswer

\* Of every symbol of the batch, the days from the gap on join what is stored.
LEMMA GapReaches ==
  ASSUME WholeInv, NEW r \in Request, req[r].stage = "last",
         NEW gap, gap = Min({Gap(s, req[r].start, req[r].end) : s \in req[r].syms}),
         ~(gap > req[r].end)
  PROVE  /\ gap \in 1..req[r].end
         /\ \A s \in req[r].syms :
              /\ cached[s] = {} => gap < req[r].end /\ gap <= req[r].start
              /\ cached[s] # {} =>
                   Max(cached[s]) \in cached[s] /\ gap <= Max(cached[s]) + 1
              /\ \A d \in cached[s] : d <= Max(cached[s])
<1> DEFINE start == req[r].start
           end == req[r].end
           syms == req[r].syms
           G == {Gap(s, start, end) : s \in syms}
<1>1. /\ syms \subseteq Symbol /\ syms # {}
      /\ start \in Nat \ {0} /\ end \in {today - 1, today} /\ start < end
      /\ today \in Nat \ {0, 1}
  BY DEF WholeInv, RequestsHold, RequestHolds, CacheHolds
<1>2. Min({end, today - 1}) = today - 1
  <2>1. IsFiniteSet({end, today - 1})
    BY PairIsFinite
  <2> DEFINE m == Min({end, today - 1})
  <2>2. end \in Int /\ today - 1 \in Int /\ end >= today - 1
    BY <1>1
  <2> HIDE DEF end
  <2>3. {end, today - 1} # {} /\ {end, today - 1} \subseteq Int
    BY <2>2
  <2>4. m \in {end, today - 1} /\ \A x \in {end, today - 1} : m <= x
    BY <2>1, <2>3, MinIsSmallest
  <2> HIDE DEF m
  <2>5. m = today - 1
    BY <2>2, <2>4
  <2> QED
    BY <2>5 DEF m
<1> HIDE DEF start, end, syms
<1>3. ASSUME NEW s \in syms
      PROVE  /\ Gap(s, start, end) \in Nat \ {0}
             /\ cached[s] = {} => Gap(s, start, end) = start
             /\ cached[s] # {} => Max(cached[s]) \in cached[s] /\ Max(cached[s]) \in Nat
                                  /\ Gap(s, start, end) <= Max(cached[s]) + 1
             /\ \A d \in cached[s] : d <= Max(cached[s])
  <2>1. cached[s] \subseteq 1..(today - 1)
    BY <1>1 DEF WholeInv, CacheHolds
  <2>2. CASE cached[s] = {}
    BY <1>1, <2>2 DEF Gap
  <2>3. CASE cached[s] # {}
    <3>1. IsFiniteSet(cached[s])
      <4>1. IsFiniteSet(1..(today - 1))
        <5>1. 1 \in Int /\ today - 1 \in Int
          BY <1>1
        <5> QED
          BY <5>1, FS_Interval
      <4> QED
        BY <2>1, <4>1, FS_Subset
    <3>2. Max(cached[s]) \in cached[s] /\ \A d \in cached[s] : d <= Max(cached[s])
      BY <1>1, <2>1, <2>3, <3>1, MaxIsLargest
    <3> DEFINE m == Max(cached[s])
    <3>3. m \in 1..(today - 1)
      BY <2>1, <3>2
    <3>4. Gap(s, start, end) = IF m >= today - 1 THEN today ELSE m + 1
      BY <1>2, <2>3 DEF Gap
    <3> HIDE DEF m
    <3>5. Gap(s, start, end) \in Nat \ {0} /\ Gap(s, start, end) <= m + 1
      BY <1>1, <3>3, <3>4
    <3> QED
      BY <2>3, <3>2, <3>3, <3>5 DEF m
  <2> QED
    BY <2>2, <2>3
<1>4. IsFiniteSet(G) /\ G # {} /\ G \subseteq Nat \ {0}
  <2>1. IsFiniteSet(syms)
    BY <1>1, BarsAssumption, FS_Subset
  <2> DEFINE f == [s \in syms |-> Gap(s, start, end)]
  <2>2. IsFiniteSet(G)
    <3>1. G = {f[s] : s \in syms}
      OBVIOUS
    <3>2. IsFiniteSet({f[s] : s \in syms})
      BY <2>1, ImageIsFinite
    <3> HIDE DEF G, f
    <3> QED
      BY <3>1, <3>2
  <2> QED
    BY <1>1, <1>3, <2>2
<1>5. gap \in G /\ \A x \in G : gap <= x
  <2>1. gap = Min(G)
    BY DEF start, end, syms
  <2> HIDE DEF G
  <2>2. G \subseteq Int
    BY <1>4
  <2>3. Min(G) \in G /\ \A x \in G : Min(G) <= x
    BY <1>4, <2>2, MinIsSmallest
  <2> QED
    BY <2>1, <2>3
<1>6. gap \in Nat \ {0} /\ gap <= end
  BY <1>1, <1>4, <1>5 DEF end
<1>7. ASSUME NEW s \in syms
      PROVE  /\ cached[s] = {} => gap < end /\ gap <= start
             /\ cached[s] # {} =>
                  Max(cached[s]) \in cached[s] /\ gap <= Max(cached[s]) + 1
             /\ \A d \in cached[s] : d <= Max(cached[s])
  <2>1. gap <= Gap(s, start, end)
    BY <1>5
  <2>2. /\ Gap(s, start, end) \in Nat \ {0}
        /\ cached[s] = {} => Gap(s, start, end) = start
        /\ cached[s] # {} => Max(cached[s]) \in cached[s] /\ Max(cached[s]) \in Nat
                             /\ Gap(s, start, end) <= Max(cached[s]) + 1
        /\ \A d \in cached[s] : d <= Max(cached[s])
    BY <1>3
  <2> HIDE DEF G
  <2> QED
    BY <1>1, <1>6, <2>1, <2>2
<1>8. gap \in 1..end
  BY <1>1, <1>6
<1> QED
  BY <1>7, <1>8 DEF start, end, syms

\* The last dates are read: what is stored of the range is what was read.
LEMMA LastDatesHolds ==
  ASSUME WholeInv, NEW r \in Request, LastDates(r)
  PROVE  WholeInv'
<1> DEFINE gap == Min({Gap(s, req[r].start, req[r].end) : s \in req[r].syms})
           p == [req[r] EXCEPT !.stage = "fetch", !.gap = gap]
           q == IF gap > req[r].end THEN Idle ELSE p
<1>1. /\ req' = [req EXCEPT ![r] = q]
      /\ UNCHANGED <<today, cached, skipped>>
      /\ behind \ {r} \subseteq behind'
      /\ gap > req[r].end \/ behind' = behind
      /\ req[r].stage = "last"
  BY DEF LastDates
<1>2. /\ p.stage = "fetch" /\ p.gap = gap /\ p.syms = req[r].syms
      /\ p.start = req[r].start /\ p.end = req[r].end /\ p.had = req[r].had
  BY DEF WholeInv, BarsInv, RequestTypes, RequestFields
<1>3. BarsInv'
  BY LastDatesKeeps DEF WholeInv
<1>4. CASE gap > req[r].end
  <2>1. q = Idle
    BY <1>4
  <2> HIDE DEF gap, p, q
  <2> QED
    BY <1>1, <1>3, <2>1, IdleHolds, OneAnswer
<1>5. CASE ~(gap > req[r].end)
  <2>1. /\ gap \in 1..req[r].end
        /\ \A s \in req[r].syms :
             /\ cached[s] = {} => gap < req[r].end /\ gap <= req[r].start
             /\ cached[s] # {} =>
                  Max(cached[s]) \in cached[s] /\ gap <= Max(cached[s]) + 1
             /\ \A d \in cached[s] : d <= Max(cached[s])
    BY <1>1, <1>5, GapReaches
  <2>2. q = p
    BY <1>5
  <2> HIDE DEF gap, p, q
  <2>3. /\ req[r].syms \subseteq Symbol /\ req[r].syms # {}
        /\ req[r].start \in Nat \ {0} /\ req[r].end \in {today - 1, today}
        /\ req[r].start < req[r].end /\ today \in Nat \ {0, 1}
    BY <1>1 DEF WholeInv, RequestsHold, RequestHolds, CacheHolds
  <2>4. \A s \in req[r].syms :
          cached[s] \subseteq 1..(today - 1) /\ NoHole(cached[s], skipped[s])
    BY <2>3 DEF WholeInv, CacheHolds
  <2>5. ASSUME NEW s \in req[r].syms
        PROVE  Reaches(cached[s], skipped[s], gap, req[r].end)
    <3>1. ASSUME cached[s] # {}, NEW d \in 1..(gap - 1), \A c \in cached[s] : c < d
          PROVE  FALSE
      <4>1. Max(cached[s]) \in cached[s] /\ gap <= Max(cached[s]) + 1
        BY <2>1, <3>1
      <4>2. Max(cached[s]) < d /\ Max(cached[s]) \in Int
        BY <2>4, <3>1, <4>1
      <4> QED
        BY <2>1, <4>1, <4>2
    <3> QED
      BY <2>1, <3>1 DEF Reaches
  <2>6. RequestHolds(p, cached, skipped, today)
    BY <1>2, <2>1, <2>3, <2>5 DEF RequestHolds
  <2>7. ASSUME NEW s \in req[r].syms, req[r].had[s] = {d \in cached[s] : d >= req[r].start}
        PROVE  /\ req[r].had[s] \subseteq req[r].start..req[r].end
               /\ NoHole(req[r].had[s], skipped[s])
               /\ Joins(req[r].had[s], gap, req[r].start)
    <3>1. cached[s] \subseteq 1..(today - 1) /\ NoHole(cached[s], skipped[s])
      BY <2>4
    <3>2. req[r].had[s] \subseteq req[r].start..req[r].end
      BY <2>3, <2>7, <3>1
    <3>3. NoHole(req[r].had[s], skipped[s])
      BY <2>3, <2>7, <3>1, PartIsWhole
    <3>4. ASSUME req[r].had[s] # {} PROVE \E m \in req[r].had[s] : gap <= m + 1
      <4>1. PICK d \in req[r].had[s] : TRUE
        BY <3>4
      <4>2. d \in cached[s] /\ d >= req[r].start
        BY <2>7
      <4>3. /\ Max(cached[s]) \in cached[s] /\ gap <= Max(cached[s]) + 1
            /\ d <= Max(cached[s])
        BY <2>1, <4>2
      <4>4. Max(cached[s]) \in Int /\ d \in Int
        BY <3>1, <4>2, <4>3
      <4>5. Max(cached[s]) \in req[r].had[s]
        BY <2>3, <2>7, <4>2, <4>3, <4>4
      <4> QED
        BY <4>3, <4>5
    <3>5. ASSUME req[r].had[s] = {} PROVE gap <= req[r].start
      <4>1. CASE cached[s] = {}
        BY <2>1, <4>1
      <4>2. CASE cached[s] # {}
        <5>1. Max(cached[s]) \in cached[s] /\ gap <= Max(cached[s]) + 1
          BY <2>1, <4>2
        <5>2. Max(cached[s]) \in Int /\ ~(Max(cached[s]) >= req[r].start)
          BY <2>7, <3>1, <3>5, <5>1
        <5> QED
          BY <2>1, <2>3, <5>1, <5>2
      <4> QED
        BY <4>1, <4>2
    <3> QED
      BY <3>2, <3>3, <3>4, <3>5 DEF Joins
  <2>8. r \notin behind => AnswerHolds(p, cached, skipped)
    <3> SUFFICES ASSUME r \notin behind PROVE AnswerHolds(p, cached, skipped)
      OBVIOUS
    <3>1. \A s \in req[r].syms : req[r].had[s] = {d \in cached[s] : d >= req[r].start}
      BY <1>1 DEF WholeInv, AnswersHold, AnswerHolds
    <3> QED
      BY <1>2, <2>7, <3>1 DEF AnswerHolds
  <2>9. behind' = behind
    BY <1>1, <1>5
  <2> QED
    BY <1>1, <1>3, <2>2, <2>6, <2>8, <2>9, OneAnswer
<1> QED
  BY <1>4, <1>5

\* The source answers: with what covers the days asked for, but for what it
\* left out.
LEMMA FetchHolds ==
  ASSUME WholeInv, NEW r \in Request, Fetch(r)
  PROVE  WholeInv'
<1>1. UNCHANGED <<today, cached>> /\ req[r].stage = "fetch" /\ BarsInv'
  BY FetchKeeps DEF Fetch, WholeInv
<1>2. CASE req' = [req EXCEPT ![r] = Idle] /\ behind' = behind \ {r} /\ UNCHANGED skipped
  BY <1>1, <1>2, IdleHolds, OneAnswer
<1>3. ASSUME NEW f \in Upstream(r),
             req' = [req EXCEPT ![r].stage = "write", ![r].gap = 0, ![r].fresh = f,
                                ![r].fetchedOn = today],
             skipped' = [s \in Symbol |-> skipped[s] \cup LeftOut(r, f)[s]],
             UNCHANGED behind
      PROVE  WholeInv'
  <2> DEFINE p == req[r]
             q == [p EXCEPT !.stage = "write", !.gap = 0, !.fresh = f,
                            !.fetchedOn = today]
  <2>1. /\ q.stage = "write" /\ q.fresh = f /\ q.syms = p.syms /\ q.start = p.start
        /\ q.end = p.end /\ q.had = p.had
    BY DEF WholeInv, BarsInv, RequestTypes, RequestFields
  <2>2. req' = [req EXCEPT ![r] = q]
    BY <1>3 DEF WholeInv, BarsInv, RequestTypes
  <2>3. /\ p.syms \subseteq Symbol /\ p.syms # {}
        /\ p.start \in Nat \ {0} /\ p.end \in {today - 1, today} /\ p.start < p.end
        /\ p.gap \in 1..p.end /\ today \in Nat \ {0, 1}
        /\ \A s \in p.syms : Reaches(cached[s], skipped[s], p.gap, p.end)
    BY <1>1 DEF WholeInv, RequestsHold, RequestHolds, CacheHolds
  <2>4. ASSUME NEW s \in Symbol
        PROVE  /\ skipped[s] \subseteq skipped'[s]
               /\ s \notin p.syms => f[s] = {}
               /\ s \in p.syms => Covers(f[s], skipped'[s], p.gap, p.end)
    <3>1. f[s] \in Served(r, s)
      BY DEF Upstream
    <3>2. skipped'[s] = skipped[s] \cup IF f[s] = {} THEN {} ELSE (p.gap..p.end) \ f[s]
      BY <1>3 DEF LeftOut
    <3>3. s \in p.syms => f[s] \subseteq p.gap..p.end
      BY <3>1 DEF Served
    <3>4. s \notin p.syms => f[s] = {}
      BY <3>1 DEF Served
    <3> HIDE DEF p, q
    <3> QED
      BY <3>2, <3>3, <3>4 DEF Covers
  <2> HIDE DEF q
  <2>5. ASSUME NEW s \in p.syms PROVE Reaches(cached[s], skipped'[s], p.gap, p.end)
    <3>1. skipped[s] \subseteq skipped'[s]
      BY <2>3, <2>4
    <3> QED
      BY <2>3, <3>1 DEF Reaches
  <2> DEFINE k == skipped'
  <2>6. RequestHolds(q, cached, k, today)
    <3>1. \A s \in q.syms : \E g \in 1..q.end :
            Covers(q.fresh[s], k[s], g, q.end) /\ Reaches(cached[s], k[s], g, q.end)
      <4> TAKE s \in q.syms
      <4>1. Covers(f[s], k[s], p.gap, p.end) /\ Reaches(cached[s], k[s], p.gap, p.end)
        BY <2>1, <2>3, <2>4, <2>5
      <4> HIDE DEF p, k
      <4> QED
        BY <2>1, <2>3, <4>1
    <3>2. \A s \in Symbol \ q.syms : q.fresh[s] = {}
      BY <2>1, <2>4
    <3> HIDE DEF p, k
    <3> QED
      BY <2>1, <2>3, <3>1, <3>2 DEF RequestHolds
  <2>7. r \notin behind => AnswerHolds(q, cached, k)
    <3> SUFFICES ASSUME r \notin behind, NEW s \in p.syms
                 PROVE  LET m == {d \in p.had[s] \cup f[s] : d \in p.start..p.end}
                        IN  /\ p.had[s] \subseteq m /\ NoHole(m, k[s])
                            /\ f[s] # {} => FromFirst(p.had[s], m, k[s], p.start, p.end)
      BY <2>1 DEF AnswerHolds
    <3>1. /\ p.had[s] \subseteq p.start..p.end /\ NoHole(p.had[s], skipped[s])
          /\ Joins(p.had[s], p.gap, p.start)
      BY <1>1 DEF WholeInv, AnswersHold, AnswerHolds
    <3>2. Covers(f[s], k[s], p.gap, p.end) /\ skipped[s] \subseteq k[s]
      BY <2>3, <2>4
    <3>3. NoHole(p.had[s], k[s])
      BY <3>1, <3>2 DEF NoHole
    <3>4. p.start \in Nat \ {0} /\ p.end \in Nat /\ p.gap \in Nat \ {0}
      BY <2>3
    <3> HIDE DEF p, k
    <3> QED
      BY <3>1, <3>2, <3>3, <3>4, AnswerJoins
  <2>8. \A s \in Symbol : skipped[s] \subseteq k[s]
    BY <2>4
  <2>9. ASSUME NEW o \in Request PROVE RequestHolds(req'[o], cached, k, today)
    <3>1. CASE o = r
      <4>1. req'[o] = q
        BY <2>2, <3>1 DEF WholeInv, BarsInv, RequestTypes
      <4> HIDE DEF k
      <4> QED
        BY <2>6, <4>1
    <3>2. CASE o # r
      <4>1. req'[o] = req[o]
        BY <2>2, <3>2 DEF WholeInv, BarsInv, RequestTypes
      <4>2. RequestHolds(req[o], cached, skipped, today)
        BY DEF WholeInv, RequestsHold
      <4> HIDE DEF k
      <4> QED
        BY <2>8, <4>1, <4>2, LeavingOutHolds
    <3> QED
      BY <3>1, <3>2
  <2>10. ASSUME NEW o \in Request \ behind PROVE AnswerHolds(req'[o], cached, k)
    <3>1. CASE o = r
      <4>1. req'[o] = q
        BY <2>2, <3>1 DEF WholeInv, BarsInv, RequestTypes
      <4> HIDE DEF k
      <4> QED
        BY <2>7, <3>1, <4>1
    <3>2. CASE o # r
      <4>1. req'[o] = req[o]
        BY <2>2, <3>2 DEF WholeInv, BarsInv, RequestTypes
      <4>2. AnswerHolds(req[o], cached, skipped) /\ RequestHolds(req[o], cached, skipped, today)
        BY DEF WholeInv, AnswersHold, RequestsHold
      <4>3. req[o].stage # "idle" => \A s \in req[o].syms : skipped[s] \subseteq k[s]
        BY <2>8, <4>2 DEF RequestHolds
      <4>4. req[o].stage = "idle" => AnswerHolds(req[o], cached, k)
        BY DEF AnswerHolds
      <4> HIDE DEF k
      <4> QED
        BY <4>1, <4>2, <4>3, <4>4, LeavingOutAnswers
    <3> QED
      BY <3>1, <3>2
  <2>11. CacheHolds'
    BY <1>1, <2>8 DEF WholeInv, CacheHolds, NoHole
  <2>12. RequestsHold'
    BY <1>1, <2>9 DEF RequestsHold
  <2>13. AnswersHold'
    BY <1>1, <1>3, <2>10 DEF AnswersHold
  <2> QED
    BY <1>1, <2>11, <2>12, <2>13 DEF WholeInv
<1> QED
  BY <1>1, <1>2, <1>3 DEF Fetch

\* What was fetched is stored.
LEMMA WriteHolds ==
  ASSUME WholeInv, NEW r \in Request, WriteAndMerge(r)
  PROVE  WholeInv'
<1> DEFINE q == req[r]
           new == [s \in Symbol |-> {d \in q.fresh[s] : d < today}]
<1>1. /\ UNCHANGED <<today, skipped>> /\ q.stage = "write" /\ BarsInv'
      /\ req' = [req EXCEPT ![r] = Idle]
      /\ cached' = [s \in Symbol |-> cached[s] \cup new[s]]
      /\ behind \ {r} \subseteq behind'
      /\ new = Nothing \/ \A o \in Request \ {r} : req[o].stage = "last" => o \in behind'
  BY WriteKeeps DEF WriteAndMerge, Storable, WholeInv
<1>2. /\ today \in Nat \ {0, 1} /\ today \in Nat /\ q.end \in {today - 1, today}
      /\ \A s \in Symbol \ q.syms : q.fresh[s] = {}
      /\ \A s \in q.syms : \E g \in 1..q.end :
           Covers(q.fresh[s], skipped[s], g, q.end)
           /\ Reaches(cached[s], skipped[s], g, q.end)
  BY <1>1 DEF WholeInv, RequestsHold, RequestHolds, CacheHolds
<1>3. \A s \in Symbol : cached'[s] = cached[s] \cup Over(q.fresh[s], today)
  BY <1>1 DEF Over
<1> HIDE DEF q, new
<1>4. \A s \in Symbol : s \notin q.syms => cached'[s] = cached[s]
  BY <1>2, <1>3 DEF Over
<1>5. \A s \in Symbol : cached[s] \subseteq 1..(today - 1) /\ NoHole(cached[s], skipped[s])
  BY DEF WholeInv, CacheHolds
<1>6. ASSUME NEW s \in Symbol
      PROVE  cached'[s] \subseteq 1..(today - 1) /\ NoHole(cached'[s], skipped[s])
  <2>1. CASE s \notin q.syms
    BY <1>4, <1>5, <2>1
  <2>2. CASE s \in q.syms
    <3>1. PICK g \in 1..q.end : Covers(q.fresh[s], skipped[s], g, q.end)
                                 /\ Reaches(cached[s], skipped[s], g, q.end)
      BY <1>2, <2>2
    <3>2. g \in Nat \ {0}
      BY <1>2
    <3>5. /\ cached[s] \subseteq 1..(today - 1) /\ NoHole(cached[s], skipped[s])
          /\ today \in Nat /\ q.end \in {today - 1, today}
      BY <1>2, <1>5
    <3>3. /\ cached[s] \cup Over(q.fresh[s], today) \subseteq 1..(today - 1)
          /\ NoHole(cached[s] \cup Over(q.fresh[s], today), skipped[s])
      BY <3>5, <3>1, <3>2, StoringJoins
    <3>4. cached'[s] = cached[s] \cup Over(q.fresh[s], today)
      BY <1>3
    <3> QED
      BY <3>3, <3>4
  <2> QED
    BY <2>1, <2>2
<1>7. CacheHolds'
  BY <1>1, <1>2, <1>6 DEF CacheHolds
<1>8. ASSUME NEW s \in Symbol, NEW h \in Nat \ {0}, NEW f \in {today - 1, today},
             Reaches(cached[s], skipped[s], h, f)
      PROVE  Reaches(cached'[s], skipped[s], h, f)
  <2>1. CASE s \notin q.syms
    BY <1>4, <1>8, <2>1
  <2>2. CASE s \in q.syms
    <3>1. PICK g \in 1..q.end : Covers(q.fresh[s], skipped[s], g, q.end)
                                 /\ Reaches(cached[s], skipped[s], g, q.end)
      BY <1>2, <2>2
    <3>2. g \in Nat \ {0}
      BY <1>2
    <3>5. /\ cached[s] \subseteq 1..(today - 1) /\ NoHole(cached[s], skipped[s])
          /\ today \in Nat /\ q.end \in {today - 1, today}
      BY <1>2, <1>5
    <3>3. Reaches(cached[s] \cup Over(q.fresh[s], today), skipped[s], h, f)
      <4>1. h \in Nat \ {0} /\ f \in {today - 1, today}
        OBVIOUS
      <4>2. Reaches(cached[s], skipped[s], h, f)
        BY <1>8
      <4>3. /\ Covers(q.fresh[s], skipped[s], g, q.end) /\ g \in Nat \ {0}
            /\ cached[s] \subseteq 1..(today - 1) /\ today \in Nat
            /\ q.end \in {today - 1, today}
        BY <3>1, <3>2, <3>5
      <4> QED
        BY <4>1, <4>2, <4>3, StoringReaches
    <3>4. cached'[s] = cached[s] \cup Over(q.fresh[s], today)
      BY <1>3
    <3> QED
      BY <3>3, <3>4
  <2> QED
    BY <2>1, <2>2
<1> DEFINE c == cached'
<1>9. ASSUME NEW o \in Request PROVE RequestHolds(req'[o], c, skipped, today)
  <2>1. CASE o = r
    <3>1. req'[o] = Idle
      BY <1>1, <2>1 DEF WholeInv, BarsInv, RequestTypes
    <3> QED
      BY <3>1, IdleHolds
  <2>2. CASE o # r
    <3>1. req'[o] = req[o]
      BY <1>1, <2>2 DEF WholeInv, BarsInv, RequestTypes
    <3> DEFINE p == req[o]
    <3>2. RequestHolds(p, cached, skipped, today)
      BY DEF WholeInv, RequestsHold
    <3>3. \A s \in Symbol : \A h \in Nat \ {0} : \A f \in {today - 1, today} :
            Reaches(cached[s], skipped[s], h, f) => Reaches(c[s], skipped[s], h, f)
      BY <1>8
    <3> HIDE DEF p, c
    <3>4. p.stage = "idle" => RequestHolds(p, c, skipped, today)
      BY DEF RequestHolds
    <3>5. ASSUME p.stage # "idle" PROVE RequestHolds(p, c, skipped, today)
      <4>1. /\ p.syms \subseteq Symbol /\ p.syms # {}
            /\ p.start \in Nat \ {0} /\ p.end \in {today - 1, today} /\ p.start < p.end
        BY <3>2, <3>5 DEF RequestHolds
      <4>2. p.stage = "fetch" =>
              /\ p.gap \in 1..p.end
              /\ \A s \in p.syms : Reaches(cached[s], skipped[s], p.gap, p.end)
        BY <3>2, <3>5 DEF RequestHolds
      <4>3. p.stage = "write" =>
              /\ \A s \in Symbol \ p.syms : p.fresh[s] = {}
              /\ \A s \in p.syms : \E g \in 1..p.end :
                   Covers(p.fresh[s], skipped[s], g, p.end)
                   /\ Reaches(cached[s], skipped[s], g, p.end)
        BY <3>2, <3>5 DEF RequestHolds
      <4>4. \A g \in 1..p.end : g \in Nat \ {0}
        BY <1>2, <4>1
      <4>5. p.stage = "fetch" =>
              \A s \in p.syms : Reaches(c[s], skipped[s], p.gap, p.end)
        BY <3>3, <4>1, <4>2, <4>4
      <4>6. p.stage = "write" =>
              \A s \in p.syms : \E g \in 1..p.end :
                 Covers(p.fresh[s], skipped[s], g, p.end)
                 /\ Reaches(c[s], skipped[s], g, p.end)
        BY <3>3, <4>1, <4>3, <4>4
      <4> QED
        BY <4>1, <4>2, <4>3, <4>5, <4>6 DEF RequestHolds
    <3>6. RequestHolds(p, c, skipped, today)
      BY <3>4, <3>5
    <3> QED
      BY <3>1, <3>6 DEF p
  <2> QED
    BY <2>1, <2>2
<1>10. ASSUME NEW o \in Request \ behind' PROVE AnswerHolds(req'[o], c, skipped)
  <2>1. CASE o = r
    <3>1. req'[o] = Idle
      BY <1>1, <2>1 DEF WholeInv, BarsInv, RequestTypes
    <3> QED
      BY <3>1, IdleHolds
  <2>2. CASE o # r
    <3>1. req'[o] = req[o] /\ o \notin behind
      BY <1>1, <2>2 DEF WholeInv, BarsInv, RequestTypes
    <3> DEFINE p == req[o]
    <3>2. AnswerHolds(p, cached, skipped) /\ RequestHolds(p, cached, skipped, today)
      BY <3>1 DEF WholeInv, AnswersHold, RequestsHold
    <3>3. CASE p.stage # "last"
      <4> HIDE DEF p
      <4>1. AnswerHolds(p, c, skipped)
        BY <3>2, <3>3 DEF AnswerHolds
      <4> QED
        BY <3>1, <4>1 DEF p
    <3>4. CASE p.stage = "last"
      <4>1. new = Nothing
        BY <1>1, <2>2, <3>4
      <4>2. \A s \in Symbol : c[s] = cached[s]
        BY <1>1, <4>1 DEF Nothing
      <4> HIDE DEF p, c
      <4>3. \A s \in p.syms : c[s] = cached[s]
        BY <3>2, <3>4, <4>2 DEF RequestHolds
      <4>4. AnswerHolds(p, c, skipped)
        BY <3>2, <4>3 DEF AnswerHolds
      <4> QED
        BY <3>1, <4>4 DEF p
    <3> QED
      BY <3>3, <3>4
  <2> QED
    BY <2>1, <2>2
<1>11. RequestsHold'
  BY <1>1, <1>9 DEF RequestsHold
<1>12. AnswersHold'
  BY <1>1, <1>10 DEF AnswersHold
<1> QED
  BY <1>1, <1>7, <1>11, <1>12 DEF WholeInv

\* At midnight every request under way ends on the day before.
LEMMA MidnightHolds == WholeInv /\ Midnight => WholeInv'
<1> SUFFICES ASSUME WholeInv, Midnight PROVE WholeInv'
  OBVIOUS
<1>1. /\ today' = today + 1 /\ UNCHANGED <<cached, req, skipped, behind>> /\ BarsInv'
      /\ today \in Nat \ {0, 1}
      /\ \A r \in Request : req[r].stage # "idle" => req[r].end = today
  <2>1. BarsInv' /\ today \in Nat \ {0, 1}
    BY MidnightKeeps DEF WholeInv, CacheHolds
  <2>2. \A r \in Request : req[r].stage # "idle" => req[r] # Idle
    BY IdleIsRequest
  <2> QED
    BY <2>1, <2>2 DEF Midnight
<1>2. CacheHolds'
  <2>1. \A s \in Symbol : cached[s] \subseteq 1..(today' - 1)
    <3>1. 1..(today - 1) \subseteq 1..(today' - 1)
      BY <1>1
    <3> QED
      BY <3>1 DEF WholeInv, CacheHolds
  <2> QED
    BY <1>1, <2>1 DEF WholeInv, CacheHolds
<1>3. ASSUME NEW r \in Request PROVE RequestHolds(req[r], cached, skipped, today + 1)
  <2>1. RequestHolds(req[r], cached, skipped, today)
    BY DEF WholeInv, RequestsHold
  <2>2. req[r].stage # "idle" => req[r].end = today
    BY <1>1
  <2> DEFINE p == req[r]
             t == today + 1
  <2>3. RequestHolds(p, cached, skipped, today) /\ (p.stage # "idle" => p.end \in {t - 1, t})
    BY <1>1, <2>1, <2>2
  <2> HIDE DEF t, p
  <2>4. RequestHolds(p, cached, skipped, t)
    BY <2>3 DEF RequestHolds
  <2> QED
    BY <2>4 DEF p, t
<1>4. RequestsHold' /\ AnswersHold'
  BY <1>1, <1>3 DEF WholeInv, RequestsHold, AnswersHold
<1> QED
  BY <1>1, <1>2, <1>4 DEF WholeInv

\* A set of days without a hole is whole.
LEMMA WithoutHoleIsWhole ==
  ASSUME NEW D, NEW K, IsFiniteSet(D), D \subseteq Int, NoHole(D, K)
  PROVE  Whole(D, K)
<1> SUFFICES ASSUME D # {} PROVE (Min(D)..Max(D)) \ D \subseteq K
  BY DEF Whole
<1>1. Min(D) \in D /\ Max(D) \in D
  BY MinIsSmallest, MaxIsLargest
<1> QED
  BY <1>1 DEF NoHole

\* The cache has no hole but for what the source left out; an answer shows all
\* the cache held and has no other hole, and where the source served the symbol
\* it lacks no day of the range but those before the first one held
\* (last_cached_date, get_bars_batch).
THEOREM LaterDaysAreAnswered == SpecBars => []OnlyEarlyDaysLack
<1>1. InitBars => WholeInv
  <2> SUFFICES ASSUME InitBars PROVE WholeInv
    OBVIOUS
  <2>1. \A s \in Symbol : cached[s] = {}
    BY DEF InitBars, Nothing
  <2>2. CacheHolds
    BY <2>1 DEF InitBars, CacheHolds, NoHole
  <2>3. \A r \in Request : req[r] = Idle
    BY DEF InitBars
  <2>4. RequestsHold /\ AnswersHold
    BY <2>3, IdleHolds DEF RequestsHold, AnswersHold
  <2>5. BarsInv
    BY IdleIsRequest DEF InitBars, BarsInv, RequestTypes, FetchedToday, FetchedDays
  <2> QED
    BY <2>2, <2>4, <2>5 DEF WholeInv
<1>2. WholeInv /\ [NextBars]_barVars => WholeInv'
  <2> SUFFICES ASSUME WholeInv, [NextBars]_barVars PROVE WholeInv'
    OBVIOUS
  <2>1. CASE UNCHANGED barVars
    BY <2>1 DEF barVars, WholeInv, CacheHolds, RequestsHold, AnswersHold, BarsInv,
                RequestTypes, FetchedToday, FetchedDays
  <2> QED
    BY <2>1, ReadHolds, LastDatesHolds, FetchHolds, WriteHolds, MidnightHolds
       DEF NextBars
<1>3. WholeInv => OnlyEarlyDaysLack
  <2> SUFFICES ASSUME WholeInv PROVE OnlyEarlyDaysLack
    OBVIOUS
  <2>1. today \in Nat \ {0, 1}
    BY DEF WholeInv, CacheHolds
  <2>2. ASSUME NEW s \in Symbol PROVE Whole(cached[s], skipped[s])
    <3>1. cached[s] \subseteq 1..(today - 1) /\ NoHole(cached[s], skipped[s])
      BY DEF WholeInv, CacheHolds
    <3>2. 1 \in Int /\ today - 1 \in Int
      BY <2>1
    <3>3. IsFiniteSet(cached[s]) /\ cached[s] \subseteq Int
      BY <3>1, <3>2, FS_Interval, FS_Subset
    <3> QED
      BY <3>1, <3>3, WithoutHoleIsWhole
  <2>3. ASSUME NEW r \in Request \ behind, req[r].stage = "write", NEW s \in req[r].syms
        PROVE  /\ req[r].had[s] \subseteq Merged(r, s)
               /\ Whole(Merged(r, s), skipped[s])
               /\ req[r].fresh[s] # {} => Lacking(r, s) \subseteq Early(r, s)
    <3> DEFINE m == Merged(r, s)
    <3>1. /\ req[r].had[s] \subseteq m /\ NoHole(m, skipped[s])
          /\ req[r].fresh[s] # {} =>
               FromFirst(req[r].had[s], m, skipped[s], req[r].start, req[r].end)
      BY <2>3 DEF WholeInv, AnswersHold, AnswerHolds, Merged
    <3>2. req[r].start \in Int /\ req[r].end \in Int
      BY <2>1, <2>3 DEF WholeInv, RequestsHold, RequestHolds
    <3>3. m \subseteq req[r].start..req[r].end
      BY DEF Merged
    <3>4. IsFiniteSet(req[r].start..req[r].end)
      BY <3>2, FS_Interval
    <3>6. req[r].start..req[r].end \subseteq Int
      OBVIOUS
    <3>5. IsFiniteSet(m) /\ m \subseteq Int
      BY <3>3, <3>4, <3>6, FS_Subset
    <3> HIDE DEF m
    <3>7. Whole(m, skipped[s])
      BY <3>1, <3>5, WithoutHoleIsWhole
    <3>8. ASSUME req[r].fresh[s] # {}, NEW d \in Lacking(r, s) PROVE d \in Early(r, s)
      <4>1. d \in req[r].start..req[r].end /\ d \notin m \cup skipped[s]
        BY <3>8 DEF Lacking, m
      <4>2. req[r].had[s] # {} /\ \A h \in req[r].had[s] : ~(h <= d)
        BY <3>1, <3>8, <4>1 DEF FromFirst
      <4>3. \A h \in req[r].had[s] : h \in Int
        BY <3>1, <3>5
      <4>4. d \in Int
        BY <3>2, <4>1
      <4>5. \A h \in req[r].had[s] : d < h
        BY <4>2, <4>3, <4>4
      <4> QED
        BY <4>1, <4>2, <4>5 DEF Early
    <3> QED
      BY <3>1, <3>7, <3>8 DEF m
  <2> QED
    BY <2>2, <2>3 DEF OnlyEarlyDaysLack, Answering
<1> QED
  BY <1>1, <1>2, <1>3, PTL DEF SpecBars

-----------------------------------------------------------------------------
(* The lot ledger: places, types and shape *)

\* Fills are finitely many.
LEMMA FillsAreFinite ==
  IsFiniteSet(FillId) /\ \A F \in SUBSET FillId : IsFiniteSet(F)
<1>1. IsFiniteSet(FillId)
  BY FS_Interval, SizeAssumption DEF FillId
<1> QED
  BY <1>1, FS_Subset

\* The place a row gets is behind every other (rowid, and the order of a dict).
LEMMA NextPosIsLast ==
  ASSUME NEW t, \A f \in FillId : t[f].pos \in Nat
  PROVE  NextPos(t) \in Nat \ {0} /\ \A f \in FillId : t[f].pos < NextPos(t)
<1> DEFINE S == {t[f].pos : f \in FillId}
           R == {0} \cup S
<1>1. IsFiniteSet(S)
  <2> DEFINE g == [f \in FillId |-> t[f].pos]
  <2>1. S = {g[f] : f \in FillId}
    OBVIOUS
  <2>2. IsFiniteSet({g[f] : f \in FillId})
    <3>1. IsFiniteSet(FillId)
      BY FillsAreFinite
    <3> HIDE DEF g
    <3> QED
      BY <3>1, ImageIsFinite
  <2> HIDE DEF S, g
  <2> QED
    BY <2>1, <2>2
<1>2. IsFiniteSet(R)
  BY <1>1, FS_Singleton, FS_Union
<1>3. R # {} /\ R \subseteq Int /\ 0 \in R /\ \A f \in FillId : t[f].pos \in R
  OBVIOUS
<1>4. NextPos(t) = 1 + Max(R)
  BY DEF NextPos
<1>6. \A x \in R : x \in Nat
  OBVIOUS
<1> HIDE DEF R
<1>5. Max(R) \in R /\ \A x \in R : x <= Max(R)
  BY <1>2, <1>3, MaxIsLargest
<1>7. Max(R) \in Nat
  BY <1>5, <1>6
<1> QED
  BY <1>3, <1>4, <1>5, <1>7

\* What is known of the lots in memory and of their rows: a lot was marked on
\* disk before it was opened, and a closed one holds nothing.
LotsHold ==
  /\ \A f \in FillId :
       /\ lots[f].pos = 0 => lots[f] = NoLot
       /\ lots[f].pos # 0 => f \in bookedRows
       /\ lots[f].exit # 0 => lots[f].left = 0 /\ lots[f].exit \in Logged
  /\ \A f, g \in FillId : lots[f].pos # 0 /\ lots[f].pos = lots[g].pos => f = g
RowsHold ==
  /\ \A f \in FillId :
       /\ rows[f].pos = 0 => rows[f] = NoLot
       /\ rows[f].pos # 0 => f \in bookedRows
       /\ rows[f].exit # 0 => rows[f].left = 0 /\ rows[f].exit \in Logged
  /\ \A f, g \in FillId : rows[f].pos # 0 /\ rows[f].pos = rows[g].pos => f = g

\* Where a booking stands, and what that says of its fill.
LedgerShape ==
  /\ mode = "down" => /\ step = "idle" /\ cur = 0 /\ failed = 0
                      /\ lots = [f \in FillId |-> NoLot] /\ booked = {}
  /\ mode # "down" => bookedRows \subseteq booked
  /\ dirty # {} => step = "write"
  /\ \A f \in dirty : lots[f].pos # 0
  /\ step = "mark" => cur \in booked \ bookedRows
  /\ step = "lot" => cur \in bookedRows /\ lots[cur].pos = 0 /\ rows[cur].pos = 0

LedgerTypes == TypeOK /\ LotsHold /\ RowsHold /\ LedgerShape

\* What is left of a lot that gives n is less by n, or nothing.
LEMMA LeftIsLess ==
  ASSUME NEW f, NEW n \in Nat, lots[f].left \in Nat, n <= lots[f].left
  PROVE  /\ Left(f, n) \in 0..(lots[f].left - n)
         /\ Left(f, n) # lots[f].left - n =>
              Left(f, n) = 0 /\ (lots[f].left - n) * log[cur].price < Dust
<1> DEFINE left == lots[f].left - n
           sliver == left * log[cur].price < Dust
<1>1. left \in Nat
  OBVIOUS
<1>2. Left(f, n) = IF sliver THEN 0 ELSE left
  BY DEF Left
<1> HIDE DEF left, sliver
<1>3. Left(f, n) \in 0..left /\ (Left(f, n) # left => Left(f, n) = 0 /\ sliver)
  BY <1>1, <1>2
<1> QED
  BY <1>3 DEF left, sliver

\* What a sale does to the lots: each gives what it takes of it, in order.
LEMMA SaleIsOfOpenLots ==
  ASSUME TypeOK, step # "idle", NEW take \in Takes(log[cur].qty)
  PROVE  /\ take \in [OpenLots -> 0..MaxQty]
         /\ \A f \in OpenLots : take[f] \in Nat /\ take[f] <= lots[f].left
         /\ \A f, g \in OpenLots : Before(f, g) /\ take[g] > 0 => take[f] = lots[f].left
         /\ SumOver(take, OpenLots) = log[cur].qty
<1>1. SumOf(take, OpenLots) = log[cur].qty
  BY DEF Takes
<1>2. SumOver(take, OpenLots) = log[cur].qty
  BY <1>1 DEF SumOf, SumOver
<1>3. take \in [OpenLots -> 0..MaxQty]
  BY DEF Takes
<1>4. \A f \in OpenLots : take[f] \in Nat /\ take[f] <= lots[f].left
  BY <1>3, SizeAssumption DEF Takes
<1>5. \A f, g \in OpenLots : Before(f, g) /\ take[g] > 0 => take[f] = lots[f].left
  BY DEF Takes
<1> QED
  BY <1>2, <1>3, <1>4, <1>5

\* The tables keep what holds of them while the lots stay as they are.
LEMMA TablesStay ==
  ASSUME LotsHold, RowsHold, lots' = lots, rows' = rows,
         bookedRows \subseteq bookedRows', Logged \subseteq Logged'
  PROVE  LotsHold' /\ RowsHold'
<1>1. LotsHold'
  BY DEF LotsHold
<1>2. RowsHold'
  BY DEF RowsHold
<1> QED
  BY <1>1, <1>2

\* The log: a fill is appended, and nothing that was logged changes.
LEMMA LogGrows ==
  ASSUME TypeOK, LogFill
  PROVE  /\ log' \in Seq(Fill) /\ Len(log') = Len(log) + 1
         /\ Logged' = Logged \cup {cur'} /\ cur' = Len(log) + 1
         /\ \A n \in Logged : log'[n] = log[n]
         /\ log'[cur'].day = day
<1>1. PICK d \in Deal, o \in Order :
        log' = Append(log, [side |-> d.side, qty |-> d.qty, price |-> d.price,
                            day |-> day, order |-> o])
  BY DEF LogFill
<1> DEFINE e == [side |-> d.side, qty |-> d.qty, price |-> d.price,
                 day |-> day, order |-> o]
<1>2. d \in [side : {"buy", "sell"}, qty : 1..MaxQty, price : Price]
  BY DealAssumption
<1>3. e \in Fill
  <2>1. day \in 0..Days
    BY BoundAssumption DEF TypeOK
  <2> QED
    BY <1>2, <2>1 DEF Fill
<1>4. log \in Seq(Fill)
  BY DEF TypeOK
<1>5. log' = Append(log, e) /\ e.day = day
  BY <1>1
<1> HIDE DEF e
<1>6. cur' = Len(log) + 1
  BY DEF LogFill
<1>7. /\ log' \in Seq(Fill) /\ Len(log') = Len(log) + 1
      /\ \A n \in 1..Len(log) : log'[n] = log[n]
      /\ log'[Len(log) + 1] = e
  BY <1>3, <1>4, <1>5
<1>8. DOMAIN log = 1..Len(log) /\ DOMAIN log' = 1..Len(log') /\ Len(log) \in Nat
  BY <1>4, <1>7
<1> QED
  BY <1>5, <1>6, <1>7, <1>8 DEF Logged

\* The fill that is booked is one of the log's.
LEMMA CurIsLogged ==
  ASSUME TypeOK
  PROVE  /\ Logged = 1..Len(log) /\ Len(log) \in Nat /\ Len(log) <= MaxFills
         /\ Logged \subseteq FillId /\ Logged \subseteq 0..MaxFills
         /\ \A n \in Logged : log[n] \in Fill
<1> QED
  BY SizeAssumption DEF TypeOK, Logged, FillId

\* The first state.
LEMMA LedgerInit == Init => LedgerTypes
<1> SUFFICES ASSUME Init PROVE LedgerTypes
  OBVIOUS
<1>1. log \in Seq(Fill) /\ Len(log) <= MaxFills
  BY PastAssumption DEF Init
<1>2. NoLot \in Lot
  BY SizeAssumption DEF NoLot, Lot
<1>3. 1 \in 1..Days /\ 0 \in 0..MaxFills /\ 0 \in 0..MaxMishaps
  BY SizeAssumption, BoundAssumption
<1>4. TypeOK
  BY <1>1, <1>2, <1>3 DEF Init, TypeOK, Step, Outcome
<1>5. LotsHold /\ RowsHold
  BY DEF Init, LotsHold, RowsHold, NoLot
<1> QED
  BY <1>4, <1>5 DEF Init, LedgerTypes, LedgerShape

\* A fill is logged.
LEMMA LogFillKeepsTypes == ASSUME LedgerTypes, LogFill PROVE LedgerTypes'
<1> USE DEF LedgerTypes
<1>1. /\ log' \in Seq(Fill) /\ Len(log') = Len(log) + 1
      /\ Logged' = Logged \cup {cur'} /\ cur' = Len(log) + 1
  BY LogGrows
<1>2. /\ Len(log) < MaxFills /\ step' = "book"
      /\ UNCHANGED <<day, mode, lots, booked, dirty, rows, bookedRows, score,
                     mishaps, failed, dropped, dusted>>
  BY DEF LogFill, memory, disk, history
<1>3. cur' \in 0..MaxFills
  BY <1>1, <1>2, CurIsLogged, SizeAssumption
<1>4. TypeOK'
  BY <1>1, <1>2, <1>3 DEF TypeOK, Step
<1>5. LotsHold' /\ RowsHold'
  BY <1>1, <1>2, TablesStay
<1>6. LedgerShape'
  BY <1>2 DEF LedgerShape, LogFill
<1> QED
  BY <1>4, <1>5, <1>6

\* The steps that leave lots, rows and log alone.
LEMMA QuietStepsKeepTypes ==
  ASSUME LedgerTypes,
         NextDay \/ MarkInMemory \/ MarkOnDisk \/ TooLittleToClose \/ WriteFails
           \/ ReplayNext \/ ReplayEnds
  PROVE  LedgerTypes'
<1> USE DEF LedgerTypes
<1>1. lots' = lots /\ rows' = rows /\ log' = log /\ score' = score
      /\ bookedRows \subseteq bookedRows'
  BY DEF NextDay, MarkInMemory, MarkOnDisk, TooLittleToClose, WriteFails,
         ReplayNext, ReplayEnds, memory, disk, history
<1>2. Logged' = Logged
  BY <1>1 DEF Logged
<1>3. LotsHold' /\ RowsHold'
  BY <1>1, <1>2, TablesStay
<1>4. CASE NextDay
  <2>1. TypeOK'
    BY <1>4, BoundAssumption DEF NextDay, TypeOK, Logged, memory, disk, history
  <2>2. LedgerShape'
    BY <1>4 DEF NextDay, LedgerShape, memory, disk, history
  <2> QED
    BY <1>3, <2>1, <2>2
<1>5. CASE MarkInMemory
  <2>1. cur \in Logged
    BY <1>5 DEF MarkInMemory, TypeOK
  <2>2. TypeOK'
    BY <1>5, <2>1 DEF MarkInMemory, Booked, Step, TypeOK, Logged, disk, history
  <2>3. LedgerShape'
    BY <1>5 DEF MarkInMemory, Booked, LedgerShape, disk, history
  <2> QED
    BY <1>3, <2>2, <2>3
<1>6. CASE MarkOnDisk
  <2>1. cur \in Logged
    BY <1>6 DEF MarkOnDisk, TypeOK
  <2>2. TypeOK'
    BY <1>6, <2>1 DEF MarkOnDisk, Step, TypeOK, Logged, memory, history
  <2>3. lots[cur].pos = 0 /\ rows[cur].pos = 0
    BY <1>6, <2>1, CurIsLogged DEF MarkOnDisk, LedgerShape, LotsHold, RowsHold
  <2>4. LedgerShape'
    BY <1>6, <2>3 DEF MarkOnDisk, LedgerShape, memory, history
  <2> QED
    BY <1>3, <2>2, <2>4
<1>7. CASE TooLittleToClose
  <2>1. cur \in Logged
    BY <1>7 DEF TooLittleToClose, TypeOK
  <2>2. log[cur].qty \in Nat
    BY <2>1, CurIsLogged, SizeAssumption DEF Fill
  <2>3. TypeOK'
    BY <1>7, <2>1, <2>2 DEF TooLittleToClose, Booked, Step, TypeOK, Logged, memory, disk, history
  <2>4. LedgerShape'
    BY <1>7 DEF TooLittleToClose, Booked, LedgerShape, memory, disk, history
  <2> QED
    BY <1>3, <2>3, <2>4
<1>8. CASE WriteFails
  <2>1. mishaps' \in 0..MaxMishaps /\ failed' \in 0..mishaps'
    BY <1>8, BoundAssumption DEF WriteFails, TypeOK
  <2>2. cur \in Logged
    BY <1>8 DEF WriteFails, TypeOK
  <2>3. TypeOK'
    BY <1>8, <2>1, <2>2 DEF WriteFails, Booked, Step, TypeOK, Logged, disk
  <2>4. LedgerShape'
    BY <1>8 DEF WriteFails, Booked, LedgerShape, disk
  <2> QED
    BY <1>3, <2>3, <2>4
<1>9. CASE ReplayNext
  <2>1. cur' \in Logged /\ cur' \in 0..MaxFills
    BY <1>9, CurIsLogged DEF ReplayNext, TypeOK
  <2>2. TypeOK'
    BY <1>9, <2>1 DEF ReplayNext, Step, TypeOK, Logged, memory, disk, history
  <2>3. LedgerShape'
    BY <1>9 DEF ReplayNext, LedgerShape, memory, disk, history
  <2> QED
    BY <1>3, <2>2, <2>3
<1>10. CASE ReplayEnds
  <2>1. TypeOK'
    BY <1>10 DEF ReplayEnds, Step, TypeOK, Logged, memory, disk, history
  <2>2. LedgerShape'
    BY <1>10 DEF ReplayEnds, LedgerShape, memory, disk, history
  <2> QED
    BY <1>3, <2>1, <2>2
<1> QED
  BY <1>4, <1>5, <1>6, <1>7, <1>8, <1>9, <1>10

\* open_lot: a new lot takes the next place.
LEMMA OpenLotMoves ==
  ASSUME LedgerTypes, OpenLot
  PROVE  /\ cur \in Logged /\ cur \in FillId /\ log[cur].qty \in 1..MaxQty
         /\ lots'[cur].left = log[cur].qty /\ lots'[cur].exit = 0
         /\ lots'[cur].pos = NextPos(lots) /\ lots'[cur] \in Lot
         /\ \A f \in FillId \ {cur} : lots'[f] = lots[f]
         /\ DOMAIN lots' = FillId /\ lots' = [f \in FillId |-> lots'[f]]
         /\ lots[cur] = NoLot /\ rows[cur] = NoLot
         /\ cur \in bookedRows
         /\ NextPos(lots) \in Nat \ {0} /\ \A f \in FillId : lots[f].pos < NextPos(lots)
<1> USE DEF LedgerTypes
<1>1. cur \in Logged /\ cur \in FillId /\ log[cur] \in Fill
  BY CurIsLogged DEF OpenLot, TypeOK
<1>2. log[cur].qty \in 1..MaxQty /\ log[cur].qty \in 0..MaxQty
  BY <1>1, SizeAssumption DEF Fill
<1>3. \A f \in FillId : lots[f].pos \in Nat
  BY DEF TypeOK, Lot
<1>4. NextPos(lots) \in Nat \ {0} /\ \A f \in FillId : lots[f].pos < NextPos(lots)
  BY <1>3, NextPosIsLast
<1> DEFINE p == NextPos(lots)
           new == [left |-> log[cur].qty, exit |-> 0, pos |-> p]
<1>5. new \in Lot /\ new.left = log[cur].qty /\ new.exit = 0 /\ new.pos = p
  BY <1>2, <1>4, SizeAssumption DEF Lot
<1>6. lots' = [lots EXCEPT ![cur] = new]
  BY DEF OpenLot
<1>7. lots[cur] = NoLot /\ rows[cur] = NoLot /\ cur \in bookedRows
  BY <1>1 DEF OpenLot, LedgerShape, LotsHold, RowsHold
<1> HIDE DEF new
<1>8. /\ lots'[cur] = new /\ \A f \in FillId \ {cur} : lots'[f] = lots[f]
      /\ DOMAIN lots' = FillId /\ lots' = [f \in FillId |-> lots'[f]]
  BY <1>1, <1>6 DEF TypeOK
<1> QED
  BY <1>1, <1>2, <1>4, <1>5, <1>7, <1>8

\* A buy opens a lot of its own.
LEMMA OpenLotKeepsTypes == ASSUME LedgerTypes, OpenLot PROVE LedgerTypes'
<1> USE DEF LedgerTypes
<1> DEFINE p == NextPos(lots)
<1>1. /\ cur \in Logged /\ cur \in FillId
      /\ lots'[cur].exit = 0
      /\ lots'[cur].pos = p /\ lots'[cur] \in Lot
      /\ \A f \in FillId \ {cur} : lots'[f] = lots[f]
      /\ lots' = [f \in FillId |-> lots'[f]]
      /\ cur \in bookedRows
      /\ p \in Nat \ {0} /\ \A f \in FillId : lots[f].pos < p
  BY OpenLotMoves
<1> HIDE DEF p
<1>2. /\ dirty' = {cur} /\ step' = "write" /\ step = "lot"
      /\ UNCHANGED <<log, day, mode, cur, booked, rows, bookedRows, score,
                     mishaps, failed, dropped, dusted>>
  BY DEF OpenLot, disk, history
<1>3. Logged' = Logged
  BY <1>2 DEF Logged
<1>4. lots' \in [FillId -> Lot]
  <2>1. \A f \in FillId : lots'[f] \in Lot
    BY <1>1 DEF TypeOK
  <2> QED
    BY <1>1, <2>1
<1>5. TypeOK'
  BY <1>1, <1>2, <1>3, <1>4 DEF TypeOK, Step
<1>6. LotsHold'
  <2>1. ASSUME NEW f \in FillId
        PROVE  /\ lots'[f].pos = 0 => lots'[f] = NoLot
               /\ lots'[f].pos # 0 => f \in bookedRows'
               /\ lots'[f].exit # 0 => lots'[f].left = 0 /\ lots'[f].exit \in Logged'
    BY <1>1, <1>2, <1>3 DEF LotsHold
  <2>2. ASSUME NEW f \in FillId, NEW g \in FillId, lots'[f].pos # 0,
               lots'[f].pos = lots'[g].pos
        PROVE  f = g
    <3>1. \A h \in FillId : lots[h].pos \in Nat /\ lots[h].pos < p
      BY <1>1 DEF TypeOK, Lot
    <3>2. \A h \in FillId \ {cur} : lots'[h].pos = lots[h].pos /\ lots'[h].pos # p
      BY <1>1, <3>1
    <3>3. CASE f = cur \/ g = cur
      BY <1>1, <2>2, <3>2, <3>3
    <3>4. CASE f # cur /\ g # cur
      BY <2>2, <3>2, <3>4 DEF LotsHold
    <3> QED
      BY <3>3, <3>4
  <2> QED
    BY <2>1, <2>2 DEF LotsHold
<1>7. RowsHold'
  BY <1>2, <1>3 DEF RowsHold
<1>8. LedgerShape'
  BY <1>1, <1>2 DEF LedgerShape
<1> QED
  BY <1>5, <1>6, <1>7, <1>8

\* A lot that has given something.
LEMMA ClosedIsLot ==
  ASSUME NEW l \in Lot, NEW n
  PROVE  Closed(l, n) = [left |-> n, exit |-> IF n = 0 THEN cur ELSE l.exit, pos |-> l.pos]
<1> DEFINE e == IF n = 0 THEN cur ELSE l.exit
<1>1. Closed(l, n) = [l EXCEPT !.left = n, !.exit = e]
  BY DEF Closed, Lot
<1> HIDE DEF e
<1>3. DOMAIN l = {"left", "exit", "pos"}
  BY DEF Lot
<1>2. [l EXCEPT !.left = n, !.exit = e] = [left |-> n, exit |-> e, pos |-> l.pos]
  <2> DEFINE r == [l EXCEPT !.left = n, !.exit = e]
             q == [left |-> n, exit |-> e, pos |-> l.pos]
  <2>1. DOMAIN r = {"left", "exit", "pos"} /\ r = [x \in {"left", "exit", "pos"} |-> r[x]]
    BY <1>3
  <2>2. DOMAIN q = {"left", "exit", "pos"} /\ q = [x \in {"left", "exit", "pos"} |-> q[x]]
    OBVIOUS
  <2>3. r.left = q.left /\ r.exit = q.exit /\ r.pos = q.pos
    BY <1>3
  <2> HIDE DEF r, q
  <2>4. r = q
    BY <2>1, <2>2, <2>3
  <2> QED
    BY <2>4 DEF r, q
<1> QED
  BY <1>1, <1>2 DEF e

\* close_lots: the lots it takes from hold less, and are closed when they hold
\* nothing.
LEMMA CloseLotsMoves ==
  ASSUME LedgerTypes, CloseLots
  PROVE  \E take \in Takes(log[cur].qty) :
           LET hit == {f \in OpenLots : take[f] > 0} IN
           /\ \A f \in hit :
                /\ lots'[f].left = Left(f, take[f])
                /\ lots'[f].exit = IF Left(f, take[f]) = 0 THEN cur ELSE 0
                /\ lots'[f].pos = lots[f].pos
                /\ lots'[f] \in Lot
           /\ \A f \in FillId \ hit : lots'[f] = lots[f]
           /\ DOMAIN lots' = FillId /\ lots' = [f \in FillId |-> lots'[f]]
           /\ hit \subseteq FillId /\ dirty' = hit
           /\ dusted' = dusted
                + SumOver([f \in hit |-> lots[f].left - take[f] - Left(f, take[f])], hit)
<1> USE DEF LedgerTypes
<1>1. PICK take \in Takes(log[cur].qty) :
        LET hit == {f \in OpenLots : take[f] > 0}
        IN /\ lots' = [f \in FillId |->
                         IF f \in hit THEN Closed(lots[f], Left(f, take[f]))
                         ELSE lots[f]]
           /\ dirty' = hit
           /\ dusted' = dusted + SumOf(
                [f \in hit |-> lots[f].left - take[f] - Left(f, take[f])], hit)
  BY DEF CloseLots
<1> DEFINE hit == {f \in OpenLots : take[f] > 0}
<1>2. /\ take \in [OpenLots -> 0..MaxQty]
      /\ \A f \in OpenLots : take[f] \in Nat /\ take[f] <= lots[f].left
  BY SaleIsOfOpenLots DEF CloseLots
<1>3. cur \in Logged /\ cur \in 0..MaxFills
  BY CurIsLogged DEF CloseLots, TypeOK
<1>4. hit \subseteq FillId /\ \A f \in hit : f \in OpenLots
  BY DEF OpenLots
<1>5. ASSUME NEW f \in hit
      PROVE  /\ lots'[f].left = Left(f, take[f])
             /\ lots'[f].exit = IF Left(f, take[f]) = 0 THEN cur ELSE 0
             /\ lots'[f].pos = lots[f].pos
             /\ lots'[f] \in Lot
  <2>1. f \in FillId /\ f \in OpenLots /\ take[f] \in Nat /\ take[f] <= lots[f].left
    BY <1>2, <1>4
  <2>2. lots[f] \in Lot /\ lots[f].exit = 0 /\ lots[f].left \in 0..MaxQty
    BY <2>1 DEF OpenLots, IsOpen, TypeOK, Lot
  <2>3. lots[f].left \in Nat
    BY <2>2, SizeAssumption
  <2>4. Left(f, take[f]) \in 0..(lots[f].left - take[f])
    BY <2>1, <2>3, LeftIsLess
  <2>5. Left(f, take[f]) \in 0..MaxQty
    BY <2>1, <2>2, <2>4, SizeAssumption
  <2> DEFINE n == Left(f, take[f])
  <2>6. lots'[f] = Closed(lots[f], n)
    BY <1>1, <2>1
  <2> HIDE DEF n
  <2>7. Closed(lots[f], n)
          = [left |-> n, exit |-> IF n = 0 THEN cur ELSE lots[f].exit, pos |-> lots[f].pos]
    BY <2>2, ClosedIsLot
  <2>8. lots[f].pos \in Nat /\ n \in 0..MaxQty /\ 0 \in 0..MaxFills
    BY <2>2, <2>5, SizeAssumption DEF Lot, n
  <2>9. /\ lots'[f].left = n
        /\ lots'[f].exit = IF n = 0 THEN cur ELSE 0
        /\ lots'[f].pos = lots[f].pos
        /\ lots'[f] \in Lot
    BY <1>3, <2>2, <2>6, <2>7, <2>8 DEF Lot
  <2> QED
    BY <2>9 DEF n
<1>6. /\ \A f \in FillId \ hit : lots'[f] = lots[f]
      /\ DOMAIN lots' = FillId /\ lots' = [f \in FillId |-> lots'[f]]
  BY <1>1
<1>7. dusted' = dusted
        + SumOver([f \in hit |-> lots[f].left - take[f] - Left(f, take[f])], hit)
  BY <1>1 DEF SumOf, SumOver
<1> QED
  BY <1>1, <1>4, <1>5, <1>6, <1>7

\* A sale takes from lots that are open and closes those it empties.
LEMMA CloseLotsKeepsTypes == ASSUME LedgerTypes, CloseLots PROVE LedgerTypes'
<1> USE DEF LedgerTypes
<1>1. PICK take \in Takes(log[cur].qty) :
           LET hit == {f \in OpenLots : take[f] > 0} IN
           /\ \A f \in hit :
                /\ lots'[f].left = Left(f, take[f])
                /\ lots'[f].exit = IF Left(f, take[f]) = 0 THEN cur ELSE 0
                /\ lots'[f].pos = lots[f].pos
                /\ lots'[f] \in Lot
           /\ \A f \in FillId \ hit : lots'[f] = lots[f]
           /\ DOMAIN lots' = FillId /\ lots' = [f \in FillId |-> lots'[f]]
           /\ hit \subseteq FillId /\ dirty' = hit
           /\ dusted' = dusted
                + SumOver([f \in hit |-> lots[f].left - take[f] - Left(f, take[f])], hit)
  BY CloseLotsMoves
<1> DEFINE hit == {f \in OpenLots : take[f] > 0}
           dust == [f \in hit |-> lots[f].left - take[f] - Left(f, take[f])]
<1>2. /\ step' = "write" /\ step = "lot"
      /\ UNCHANGED <<log, day, mode, cur, booked, rows, bookedRows, score,
                     mishaps, failed, dropped>>
  BY DEF CloseLots, disk
<1>3. Logged' = Logged /\ cur \in Logged
  BY <1>2 DEF Logged, TypeOK
<1>4. \A f \in hit : dust[f] \in Nat
  <2> SUFFICES ASSUME NEW f \in hit PROVE dust[f] \in Nat
    OBVIOUS
  <2>1. f \in OpenLots /\ f \in FillId /\ lots[f].left \in Nat
    BY <1>1, SizeAssumption DEF TypeOK, Lot
  <2>2. take[f] \in Nat /\ take[f] <= lots[f].left
    BY <2>1, SaleIsOfOpenLots DEF CloseLots
  <2>3. Left(f, take[f]) \in 0..(lots[f].left - take[f])
    BY <2>1, <2>2, LeftIsLess
  <2>4. lots[f].left - take[f] - Left(f, take[f]) \in Nat
    BY <2>1, <2>2, <2>3
  <2> QED
    BY <2>4
<1>5. dusted' \in Nat
  <2>1. IsFiniteSet(hit)
    BY <1>1, FillsAreFinite
  <2>2. dusted' = dusted + SumOver(dust, hit) /\ dusted \in Nat
    BY <1>1 DEF TypeOK
  <2> HIDE DEF dust, hit
  <2>3. SumOver(dust, hit) \in Nat
    BY <1>4, <2>1, SumIsNat
  <2> QED
    BY <2>2, <2>3
<1> HIDE DEF dust
<1>6. hit \subseteq FillId /\ hit = dirty'
  BY <1>1
<1>7. \A f \in hit : lots[f].pos # 0 /\ lots[f].exit = 0
  BY DEF OpenLots, IsOpen, Exists
<1>8. \A f \in hit : /\ lots'[f].exit # 0 => lots'[f].left = 0 /\ lots'[f].exit = cur
                     /\ lots'[f].pos = lots[f].pos
                     /\ lots'[f] \in Lot
  BY <1>1
<1>9. /\ \A f \in FillId \ hit : lots'[f] = lots[f]
      /\ lots' = [f \in FillId |-> lots'[f]]
  BY <1>1
<1> HIDE DEF hit
<1>10. lots' \in [FillId -> Lot]
  <2>1. \A f \in FillId : lots'[f] \in Lot
    BY <1>8, <1>9 DEF TypeOK
  <2> QED
    BY <1>9, <2>1
<1>11. TypeOK'
  BY <1>2, <1>3, <1>5, <1>6, <1>10 DEF TypeOK, Step
<1>12. LotsHold'
  <2>1. ASSUME NEW f \in FillId
        PROVE  /\ lots'[f].pos = 0 => lots'[f] = NoLot
               /\ lots'[f].pos # 0 => f \in bookedRows'
               /\ lots'[f].exit # 0 => lots'[f].left = 0 /\ lots'[f].exit \in Logged'
    BY <1>2, <1>3, <1>7, <1>8, <1>9 DEF LotsHold
  <2>2. \A f \in FillId : lots'[f].pos = lots[f].pos
    BY <1>8, <1>9
  <2>3. ASSUME NEW f \in FillId, NEW g \in FillId, lots'[f].pos # 0,
               lots'[f].pos = lots'[g].pos
        PROVE  f = g
    BY <2>2, <2>3 DEF LotsHold
  <2> QED
    BY <2>1, <2>3 DEF LotsHold
<1>13. RowsHold'
  BY <1>2, <1>3 DEF RowsHold
<1>14. LedgerShape'
  <2>1. \A f \in dirty' : lots'[f].pos # 0
    BY <1>6, <1>7, <1>8
  <2> QED
    BY <1>2, <2>1 DEF LedgerShape, CloseLots
<1> QED
  BY <1>11, <1>12, <1>13, <1>14

\* _persist_lot: one row becomes what the lot is, but for its place.
LEMMA PersistLotMoves ==
  ASSUME LedgerTypes, PersistLot
  PROVE  \E f \in dirty : \E p \in Nat \ {0} :
           /\ f \in FillId
           /\ rows'[f].left = lots[f].left /\ rows'[f].exit = lots[f].exit
           /\ rows'[f].pos = p /\ rows'[f] \in Lot
           /\ \A g \in FillId \ {f} : rows'[g] = rows[g] /\ rows[g].pos < p
           /\ DOMAIN rows' = FillId /\ rows' = [g \in FillId |-> rows'[g]]
           /\ dirty' = dirty \ {f}
           /\ dirty' # {} => step' = "write"
           /\ step' \in {"write", "score", "idle"}
           /\ step' # "write" => dirty = {f}
<1> USE DEF LedgerTypes
<1>1. PICK f \in dirty :
        LET others == [rows EXCEPT ![f] = NoLot]
        IN /\ rows' = [rows EXCEPT ![f] = [lots[f] EXCEPT !.pos = NextPos(others)]]
           /\ dirty' = dirty \ {f}
           /\ step' = IF dirty = {f} THEN Booked ELSE "write"
  BY DEF PersistLot
<1> DEFINE others == [rows EXCEPT ![f] = NoLot]
           p == NextPos(others)
           new == [lots[f] EXCEPT !.pos = p]
<1>2. f \in FillId /\ lots[f] \in Lot
  BY DEF TypeOK
<1>3. /\ \A g \in FillId : others[g].pos \in Nat
      /\ \A g \in FillId \ {f} : others[g] = rows[g]
  BY DEF TypeOK, Lot, NoLot
<1> HIDE DEF others
<1>4. p \in Nat \ {0} /\ \A g \in FillId : others[g].pos < p
  BY <1>3, NextPosIsLast
<1>5. rows' = [rows EXCEPT ![f] = new]
  BY <1>1 DEF others
<1> HIDE DEF p
<1>6. /\ new.left = lots[f].left /\ new.exit = lots[f].exit /\ new.pos = p
      /\ new \in Lot
  BY <1>2, <1>4 DEF Lot
<1> HIDE DEF new
<1>7. /\ rows'[f] = new /\ \A g \in FillId \ {f} : rows'[g] = rows[g]
      /\ DOMAIN rows' = FillId /\ rows' = [g \in FillId |-> rows'[g]]
  BY <1>2, <1>5 DEF TypeOK
<1>8. \A g \in FillId \ {f} : rows'[g] = rows[g] /\ rows[g].pos < p
  BY <1>3, <1>4, <1>7
<1>9. /\ rows'[f].left = lots[f].left /\ rows'[f].exit = lots[f].exit
      /\ rows'[f].pos = p /\ rows'[f] \in Lot
  BY <1>6, <1>7
<1>10. /\ dirty' = dirty \ {f} /\ (dirty' # {} => step' = "write")
       /\ step' \in {"write", "score", "idle"}
       /\ step' # "write" => dirty = {f}
  BY <1>1 DEF Booked
<1> QED
  BY <1>2, <1>4, <1>7, <1>8, <1>9, <1>10

\* Writing one lot moves it from memory to its row.
LEMMA PersistLotKeepsTypes == ASSUME LedgerTypes, PersistLot PROVE LedgerTypes'
<1> USE DEF LedgerTypes
<1>1. PICK f \in dirty, p \in Nat \ {0} :
           /\ f \in FillId
           /\ rows'[f].left = lots[f].left /\ rows'[f].exit = lots[f].exit
           /\ rows'[f].pos = p /\ rows'[f] \in Lot
           /\ \A g \in FillId \ {f} : rows'[g] = rows[g] /\ rows[g].pos < p
           /\ DOMAIN rows' = FillId /\ rows' = [g \in FillId |-> rows'[g]]
           /\ dirty' = dirty \ {f}
           /\ dirty' # {} => step' = "write"
           /\ step' \in {"write", "score", "idle"}
  BY PersistLotMoves
<1>2. /\ step = "write"
      /\ UNCHANGED <<log, day, mode, cur, lots, booked, bookedRows, score,
                     mishaps, failed, dropped, dusted>>
  BY DEF PersistLot, history
<1>3. Logged' = Logged /\ cur \in Logged
  BY <1>2 DEF Logged, TypeOK
<1>4. rows' \in [FillId -> Lot]
  <2>1. \A g \in FillId : rows'[g] \in Lot
    BY <1>1 DEF TypeOK
  <2> QED
    BY <1>1, <2>1
<1>5. TypeOK'
  BY <1>1, <1>2, <1>3, <1>4 DEF TypeOK, Step
<1>6. lots[f].pos # 0
  BY DEF LedgerShape
<1>7. RowsHold'
  <2>1. ASSUME NEW g \in FillId
        PROVE  /\ rows'[g].pos = 0 => rows'[g] = NoLot
               /\ rows'[g].pos # 0 => g \in bookedRows'
               /\ rows'[g].exit # 0 => rows'[g].left = 0 /\ rows'[g].exit \in Logged'
    <3>1. CASE g = f
      BY <1>1, <1>2, <1>3, <1>6, <3>1 DEF LotsHold
    <3>2. CASE g # f
      BY <1>1, <1>2, <1>3, <3>2 DEF RowsHold
    <3> QED
      BY <3>1, <3>2
  <2>2. ASSUME NEW g \in FillId, NEW h \in FillId, rows'[g].pos # 0,
               rows'[g].pos = rows'[h].pos
        PROVE  g = h
    <3>1. \A i \in FillId \ {f} : rows'[i].pos = rows[i].pos /\ rows'[i].pos # p
      <4>1. \A i \in FillId : rows[i].pos \in Nat
        BY DEF TypeOK, Lot
      <4> QED
        BY <1>1, <4>1
    <3>2. CASE g = f \/ h = f
      BY <1>1, <2>2, <3>1, <3>2
    <3>3. CASE g # f /\ h # f
      BY <2>2, <3>1, <3>3 DEF RowsHold
    <3> QED
      BY <3>2, <3>3
  <2> QED
    BY <2>1, <2>2 DEF RowsHold
<1>8. LotsHold'
  BY <1>2, <1>3 DEF LotsHold
<1>9. LedgerShape'
  BY <1>1, <1>2 DEF LedgerShape
<1> QED
  BY <1>5, <1>7, <1>8, <1>9

\* The recorder: a score stays, or is that of a lot this sale closed.
LEMMA ScoreMoves ==
  ASSUME LedgerTypes, ScoreClosedLots
  PROVE  /\ DOMAIN score' = Order /\ score' = [o \in Order |-> score'[o]]
         /\ \A o \in Order : score'[o] = score[o] \/ score'[o] \in {"win", "loss", "flat"}
         /\ \A f \in FillId :
              Exists(f) /\ lots[f].exit = cur /\ log[f].order \in Judged
              => score'[log[f].order] \in {"win", "loss", "flat"}
<1> DEFINE closed == {f \in FillId : Exists(f) /\ lots[f].exit = cur}
           of(o) == {f \in closed : log[f].order = o}
           last(o) == CHOOSE f \in of(o) : \A g \in of(o) : lots[g].pos <= lots[f].pos
<1>1. score' = [o \in Order |-> IF o \notin Judged \/ of(o) = {} THEN score[o]
                                ELSE Outcomes(last(o))]
  BY DEF ScoreClosedLots
<1>2. \A x : Outcomes(x) \in {"win", "loss", "flat"}
  BY DEF Outcomes
<1>3. \A f \in closed : log[f].order \in Judged =>
        of(log[f].order) # {} /\ log[f].order \in Order
  BY DealAssumption
<1>4. \A o : Outcomes(last(o)) \in {"win", "loss", "flat"}
  BY <1>2
<1> HIDE DEF last, of
<1>5. \A o \in Order : score'[o] = score[o] \/ score'[o] \in {"win", "loss", "flat"}
  BY <1>1, <1>4
<1>6. \A f \in closed : log[f].order \in Judged
        => score'[log[f].order] \in {"win", "loss", "flat"}
  BY <1>1, <1>3, <1>4
<1> QED
  BY <1>1, <1>5, <1>6

\* Scoring marks lots that are closed.
LEMMA ScoreKeepsTypes == ASSUME LedgerTypes, ScoreClosedLots PROVE LedgerTypes'
<1> USE DEF LedgerTypes
<1>1. /\ score' = [o \in Order |-> score'[o]]
      /\ \A o \in Order : score'[o] = score[o] \/ score'[o] \in {"win", "loss", "flat"}
  BY ScoreMoves
<1>2. score' \in [Order -> Outcome]
  <2>1. \A o \in Order : score'[o] \in Outcome
    BY <1>1 DEF TypeOK, Outcome
  <2> QED
    BY <1>1, <2>1
<1>3. /\ step = "score" /\ step' = "idle"
      /\ UNCHANGED <<log, day, mode, cur, lots, booked, dirty, rows, bookedRows,
                     mishaps, failed, dropped, dusted>>
  BY DEF ScoreClosedLots, memory, disk, history
<1>4. Logged' = Logged
  BY <1>3 DEF Logged
<1>5. TypeOK'
  BY <1>2, <1>3, <1>4 DEF TypeOK, Step
<1>6. LotsHold' /\ RowsHold'
  BY <1>3, <1>4, TablesStay
<1>7. LedgerShape'
  BY <1>3 DEF LedgerShape
<1> QED
  BY <1>5, <1>6, <1>7

\* Memory is lost when the process ends.
LEMMA HaltKeepsTypes == ASSUME LedgerTypes, Stop \/ Crash PROVE LedgerTypes'
<1> USE DEF LedgerTypes
<1>1. /\ mode' = "down" /\ step' = "idle" /\ cur' = 0
      /\ lots' = [f \in FillId |-> NoLot] /\ booked' = {} /\ dirty' = {}
      /\ failed' = 0
      /\ UNCHANGED <<log, day, rows, bookedRows, score, dropped, dusted>>
  BY DEF Stop, Crash, Halt, disk
<1>2. mishaps' \in 0..MaxMishaps
  BY BoundAssumption DEF Stop, Crash, TypeOK
<1>3. Logged' = Logged
  BY <1>1 DEF Logged
<1>4. NoLot \in Lot /\ 0 \in 0..MaxFills
  BY SizeAssumption DEF NoLot, Lot
<1>5. TypeOK'
  BY <1>1, <1>2, <1>3, <1>4 DEF TypeOK, Step
<1>6. LotsHold'
  BY <1>1, <1>3 DEF LotsHold, NoLot
<1>7. RowsHold'
  BY <1>1, <1>3 DEF RowsHold
<1>8. LedgerShape'
  BY <1>1 DEF LedgerShape
<1> QED
  BY <1>5, <1>6, <1>7, <1>8

\* It starts with what is on disk.
LEMMA StartKeepsTypes == ASSUME LedgerTypes, Start PROVE LedgerTypes'
<1> USE DEF LedgerTypes
<1>1. /\ lots' = rows /\ booked' = bookedRows /\ mode' \in {"replay", "up"}
      /\ mode = "down"
      /\ UNCHANGED <<log, day, step, cur, dirty, rows, bookedRows, score, mishaps,
                     failed, dropped, dusted>>
  BY DEF Start, disk, history
<1>2. Logged' = Logged
  BY <1>1 DEF Logged
<1>3. TypeOK'
  BY <1>1, <1>2 DEF TypeOK
<1>4. LotsHold'
  BY <1>1, <1>2 DEF LotsHold, RowsHold
<1>5. RowsHold'
  BY <1>1, <1>2 DEF RowsHold
<1>6. LedgerShape'
  <2>1. step = "idle" /\ dirty = {}
    BY <1>1 DEF LedgerShape
  <2> QED
    BY <1>1, <2>1 DEF LedgerShape
<1> QED
  BY <1>3, <1>4, <1>5, <1>6

\* Every step keeps the types and the shape of the ledger.
LEMMA LedgerNext == ASSUME LedgerTypes, [Next]_vars PROVE LedgerTypes'
<1>1. CASE UNCHANGED vars
  <2>1. /\ UNCHANGED <<log, day, mode, step, cur, lots, booked, dirty, rows, bookedRows,
                       score, mishaps, failed, dropped, dusted>>
    BY <1>1 DEF vars, memory, disk, history
  <2>2. Logged' = Logged
    BY <2>1 DEF Logged
  <2>3. TypeOK' /\ LotsHold' /\ RowsHold' /\ LedgerShape'
    BY <2>1, <2>2 DEF LedgerTypes, TypeOK, LotsHold, RowsHold, LedgerShape
  <2> QED
    BY <2>3 DEF LedgerTypes
<1>2. CASE Next
  BY <1>2, LogFillKeepsTypes, QuietStepsKeepTypes, OpenLotKeepsTypes,
     CloseLotsKeepsTypes, PersistLotKeepsTypes, ScoreKeepsTypes, HaltKeepsTypes,
     StartKeepsTypes DEF Next
<1> QED
  BY <1>1, <1>2

-----------------------------------------------------------------------------
(* Memory and disk *)

\* At a step that leaves lots, rows and what is dirty alone.
LEMMA TablesFollow ==
  ASSUME LedgerTypes, DiskFollowsMemory, mode # "down", UNCHANGED <<lots, rows, dirty>>,
         failed' = 0 => failed = 0,
         bookedRows' \subseteq booked',
         failed' = 0 => booked' \ bookedRows' \subseteq IF step' = "mark" THEN {cur'} ELSE {}
  PROVE  DiskFollowsMemory'
BY DEF DiskFollowsMemory, Exists

\* Every step keeps the rows of lots equal to memory, but for those being written.
LEMMA DiskFollows ==
  ASSUME LedgerTypes, DiskFollowsMemory, [Next]_vars, LedgerTypes'
  PROVE  DiskFollowsMemory'
<1> USE DEF LedgerTypes
<1>1. CASE UNCHANGED vars
  BY <1>1 DEF vars, memory, disk, history, DiskFollowsMemory, Exists
<1>2. CASE LogFill
  BY <1>2 DEF LogFill, memory, disk, history, DiskFollowsMemory, Exists
<1>3. CASE NextDay
  BY <1>3 DEF NextDay, memory, disk, history, DiskFollowsMemory, Exists
<1>4. CASE MarkInMemory
  <2>1. mode # "down" /\ bookedRows \subseteq booked
    BY <1>4 DEF MarkInMemory, LedgerShape
  <2>2. UNCHANGED <<lots, rows, dirty, bookedRows, failed, cur>> /\ booked \subseteq booked'
    BY <1>4 DEF MarkInMemory, disk, history
  <2>3. failed = 0 => booked' \ bookedRows' \subseteq IF step' = "mark" THEN {cur'} ELSE {}
    BY <1>4, <2>1, <2>2 DEF MarkInMemory, DiskFollowsMemory, Booked
  <2> QED
    BY <2>1, <2>2, <2>3, TablesFollow
<1>5. CASE MarkOnDisk
  <2>1. mode # "down" /\ bookedRows \subseteq booked /\ cur \in booked
    BY <1>5 DEF MarkOnDisk, LedgerShape
  <2>2. /\ UNCHANGED <<lots, rows, dirty, booked, failed, cur>> /\ step = "mark"
        /\ bookedRows' = bookedRows \cup {cur}
    BY <1>5 DEF MarkOnDisk, memory, history
  <2>3. failed = 0 => booked' \ bookedRows' = {}
    BY <2>1, <2>2 DEF DiskFollowsMemory
  <2> QED
    BY <2>1, <2>2, <2>3, TablesFollow
<1>6. CASE OpenLot
  <2>1. /\ \A f \in FillId \ {cur} : lots'[f] = lots[f]
        /\ dirty' = {cur} /\ step = "lot" /\ step' = "write"
        /\ UNCHANGED <<mode, rows, booked, bookedRows, failed, cur>>
    BY <1>6, OpenLotMoves DEF OpenLot, disk, history
  <2>2. dirty = {}
    BY <2>1 DEF LedgerShape
  <2> QED
    BY <2>1, <2>2 DEF DiskFollowsMemory, Exists
<1>7. CASE CloseLots
  <2>1. PICK take \in Takes(log[cur].qty) :
          LET hit == {f \in OpenLots : take[f] > 0} IN
            /\ \A f \in FillId \ hit : lots'[f] = lots[f]
            /\ dirty' = hit
    BY <1>7, CloseLotsMoves
  <2>2. \A f \in FillId \ dirty' : lots'[f] = lots[f]
    BY <2>1
  <2>3. /\ step = "lot" /\ step' = "write"
        /\ UNCHANGED <<mode, rows, booked, bookedRows, failed, cur>>
    BY <1>7 DEF CloseLots, disk
  <2>4. dirty = {}
    BY <2>3 DEF LedgerShape
  <2> QED
    BY <2>2, <2>3, <2>4 DEF DiskFollowsMemory, Exists
<1>8. CASE TooLittleToClose
  <2>1. /\ UNCHANGED <<lots, rows, dirty, booked, bookedRows, failed, mode>>
        /\ step = "lot"
    BY <1>8 DEF TooLittleToClose, memory, disk
  <2> QED
    BY <2>1 DEF DiskFollowsMemory, Exists
<1>9. CASE PersistLot
  <2>1. PICK f \in dirty, p \in Nat \ {0} :
           /\ f \in FillId
           /\ rows'[f].left = lots[f].left /\ rows'[f].exit = lots[f].exit
           /\ rows'[f].pos = p
           /\ \A g \in FillId \ {f} : rows'[g] = rows[g]
           /\ dirty' = dirty \ {f}
    BY <1>9, PersistLotMoves
  <2>2. UNCHANGED <<lots, booked, bookedRows, failed, mode, cur>> /\ step = "write"
    BY <1>9 DEF PersistLot, history
  <2>3. lots[f].pos # 0
    BY DEF LedgerShape
  <2> QED
    BY <2>1, <2>2, <2>3 DEF DiskFollowsMemory, Exists
<1>10. CASE WriteFails
  <2>1. failed' # 0
    BY <1>10, BoundAssumption DEF WriteFails, TypeOK
  <2> QED
    BY <2>1 DEF DiskFollowsMemory
<1>11. CASE ScoreClosedLots
  BY <1>11 DEF ScoreClosedLots, memory, disk, history, DiskFollowsMemory, Exists
<1>12. CASE Stop \/ Crash
  BY <1>12 DEF Stop, Crash, Halt, DiskFollowsMemory
<1>13. CASE Start
  <2>1. lots' = rows /\ booked' = bookedRows /\ rows' = rows /\ bookedRows' = bookedRows
    BY <1>13 DEF Start, disk
  <2> QED
    BY <2>1 DEF DiskFollowsMemory, Exists
<1>14. CASE ReplayNext
  BY <1>14 DEF ReplayNext, memory, disk, history, DiskFollowsMemory, Exists
<1>15. CASE ReplayEnds
  BY <1>15 DEF ReplayEnds, memory, disk, history, DiskFollowsMemory, Exists
<1> QED
  BY <1>1, <1>2, <1>3, <1>4, <1>5, <1>6, <1>7, <1>8, <1>9, <1>10, <1>11, <1>12,
     <1>13, <1>14, <1>15 DEF Next

\* DiskFollowsMemory: a ledger none of whose writes has failed is on disk, but
\* for the fill it is booking.
THEOREM RestartIsTransparent == Spec => []DiskFollowsMemory
<1>1. Init => LedgerTypes /\ DiskFollowsMemory
  BY LedgerInit DEF Init, DiskFollowsMemory
<1>2. LedgerTypes /\ DiskFollowsMemory /\ [Next]_vars
        => (LedgerTypes /\ DiskFollowsMemory)'
  BY LedgerNext, DiskFollows
<1> QED
  BY <1>1, <1>2, PTL DEF Spec

-----------------------------------------------------------------------------
(* First in, first out *)

\* A sale takes nothing from a lot while an older one has something left.
LEMMA OldestGivesFirst ==
  ASSUME LedgerTypes, [Next]_vars, mode = "up", mode' = "up",
         NEW f \in FillId, NEW g \in FillId, Exists(f), Exists(g),
         log[f].day < log[g].day, lots'[g].left < lots[g].left
  PROVE  lots'[f].left = 0
<1> USE DEF LedgerTypes
<1>1. \A h \in FillId : lots[h].left \in Nat
  BY SizeAssumption DEF TypeOK, Lot
<1>2. lots' # lots
  BY <1>1
<1>3. CASE OpenLot
  <2>1. g # cur
    BY <1>3 DEF OpenLot, LedgerShape, Exists
  <2>2. lots'[g] = lots[g]
    BY <1>3, <2>1, OpenLotMoves
  <2> QED
    BY <1>1, <2>2
<1>4. CASE CloseLots
  <2>1. PICK take \in Takes(log[cur].qty) :
          LET hit == {h \in OpenLots : take[h] > 0} IN
            /\ \A h \in hit : lots'[h].left = Left(h, take[h])
            /\ \A h \in FillId \ hit : lots'[h] = lots[h]
    BY <1>4, CloseLotsMoves
  <2>2. g \in OpenLots /\ take[g] > 0
    BY <1>1, <2>1
  <2>3. CASE f \in OpenLots
    <3>1. take[f] = lots[f].left /\ take[f] \in Nat
      <4>1. Before(f, g)
        BY DEF Before
      <4> QED
        BY <1>4, <2>2, <2>3, <4>1, SaleIsOfOpenLots DEF CloseLots
    <3>2. CASE take[f] > 0
      <4>1. Left(f, take[f]) \in 0..(lots[f].left - take[f])
        BY <1>1, <3>1, LeftIsLess
      <4>2. Left(f, take[f]) = 0
        BY <1>1, <3>1, <4>1
      <4> QED
        BY <2>1, <2>3, <3>2, <4>2
    <3>3. CASE ~(take[f] > 0)
      <4>1. take[f] = 0
        BY <3>1, <3>3
      <4>2. lots'[f] = lots[f]
        BY <2>1, <3>3
      <4> QED
        BY <3>1, <4>1, <4>2
    <3> QED
      BY <3>2, <3>3
  <2>4. CASE f \notin OpenLots
    <3>1. lots[f].exit # 0
      BY <2>4 DEF OpenLots, IsOpen
    <3>2. lots[f].left = 0
      BY <3>1 DEF LotsHold
    <3> QED
      BY <2>1, <2>4, <3>2
  <2> QED
    BY <2>3, <2>4
<1>5. CASE ~(OpenLot \/ CloseLots)
  BY <1>2, <1>5 DEF Next, LogFill, NextDay, MarkInMemory, MarkOnDisk,
     TooLittleToClose, PersistLot, WriteFails, ScoreClosedLots, Stop, Crash, Halt,
     Start, ReplayNext, ReplayEnds, vars, memory, disk, history
<1> QED
  BY <1>3, <1>4, <1>5

\* OldestFirst: a lot gives only when every older one is used up, also when
\* restarts have changed the order in which the lots are held.
THEOREM FirstInFirstOut == Spec => OldestFirst
<1>1. LedgerTypes /\ [Next]_vars =>
        [mode = "up" /\ mode' = "up" =>
           \A f, g \in FillId :
             /\ Exists(f) /\ Exists(g) /\ log[f].day < log[g].day
             /\ lots'[g].left < lots[g].left
             => lots'[f].left = 0]_vars
  BY OldestGivesFirst
<1> QED
  BY <1>1, LedgerInit, LedgerNext, PTL DEF Spec, OldestFirst

-----------------------------------------------------------------------------
(* Closed lots are scored *)

\* A fill of this release is marked on disk, or about to be.
NewFillIsMarked ==
  \A n \in Logged : log[n].day > 0 =>
    \/ n \in bookedRows
    \/ mode = "up" /\ n = cur /\ step \in {"book", "mark"}

\* The order of a lot that a new fill closed has its score, or gets it at the
\* end of this booking.
ClosedInMemory ==
  \A f \in FillId :
    lots[f].exit # 0 /\ log[lots[f].exit].day > 0 /\ log[f].order \in Judged =>
      \/ score[log[f].order] # "none"
      \/ mode = "up" /\ lots[f].exit = cur /\ step \in {"write", "score"}
ClosedOnDisk ==
  \A f \in FillId :
    rows[f].exit # 0 /\ log[rows[f].exit].day > 0 /\ log[f].order \in Judged =>
      score[log[f].order] # "none"

ScoreInv ==
  mishaps = 0 =>
    /\ NewFillIsMarked
    /\ mode = "replay" => \A n \in Logged : log[n].day = 0
    /\ mode # "down" => ClosedInMemory
    /\ mode = "down" => ClosedOnDisk

LedgerScores == LedgerTypes /\ DiskFollowsMemory /\ ScoreInv

\* A closed lot is one of a logged fill, and so is the sale that closed it.
LEMMA ClosedIsLogged ==
  ASSUME LedgerTypes
  PROVE  /\ \A f \in FillId : lots[f].exit # 0 =>
              lots[f].pos # 0 /\ f \in Logged /\ lots[f].exit \in Logged
         /\ \A f \in FillId : rows[f].exit # 0 =>
              rows[f].pos # 0 /\ f \in Logged /\ rows[f].exit \in Logged
BY DEF LedgerTypes, LotsHold, RowsHold, TypeOK, NoLot

\* Without a mishap, every step keeps closed lots scored or about to be scored.
LEMMA ScoresFollow ==
  ASSUME LedgerScores, [Next]_vars, mishaps' = 0, mishaps = 0
  PROVE  ScoreInv'
<1> USE DEF LedgerScores, LedgerTypes
<1>1. CASE UNCHANGED vars
  BY <1>1 DEF vars, memory, disk, history, ScoreInv, NewFillIsMarked,
     ClosedInMemory, ClosedOnDisk, Logged
<1>2. CASE LogFill
  <2>1. /\ Logged' = Logged \cup {cur'} /\ \A n \in Logged : log'[n] = log[n]
    BY <1>2, LogGrows
  <2>2. /\ mode = "up" /\ step = "idle" /\ step' = "book"
        /\ UNCHANGED <<mode, lots, bookedRows, score>>
    BY <1>2 DEF LogFill, memory, disk, history
  <2>3. NewFillIsMarked'
    BY <2>1, <2>2 DEF ScoreInv, NewFillIsMarked
  <2>4. ClosedInMemory'
    BY <2>1, <2>2, ClosedIsLogged DEF ScoreInv, ClosedInMemory
  <2> QED
    BY <2>2, <2>3, <2>4 DEF ScoreInv
<1>3. CASE NextDay
  BY <1>3 DEF NextDay, memory, disk, history, ScoreInv, NewFillIsMarked,
     ClosedInMemory, ClosedOnDisk, Logged
<1>4. CASE MarkInMemory
  <2>1. /\ step = "book" /\ UNCHANGED <<log, mode, cur, lots, rows, bookedRows, score>>
        /\ step' \in {"mark", "score", "idle"}
        /\ step' # "mark" => cur \in booked
        /\ mode # "down"
    BY <1>4 DEF MarkInMemory, Booked, disk, history, LedgerShape
  <2>2. failed = 0
    BY DEF TypeOK
  <2>3. step' # "mark" => cur \in bookedRows
    BY <2>1, <2>2 DEF DiskFollowsMemory
  <2>4. NewFillIsMarked'
    BY <2>1, <2>3 DEF ScoreInv, NewFillIsMarked, Logged
  <2>5. ClosedInMemory'
    BY <2>1 DEF ScoreInv, ClosedInMemory
  <2> QED
    BY <2>1, <2>4, <2>5 DEF ScoreInv, Logged
<1>5. CASE MarkOnDisk
  <2>1. /\ step = "mark" /\ step' = "lot" /\ bookedRows' = bookedRows \cup {cur}
        /\ UNCHANGED <<log, mode, cur, lots, rows, score>> /\ mode # "down"
    BY <1>5 DEF MarkOnDisk, memory, history, LedgerShape
  <2>2. NewFillIsMarked'
    BY <2>1 DEF ScoreInv, NewFillIsMarked, Logged
  <2>3. ClosedInMemory'
    BY <2>1 DEF ScoreInv, ClosedInMemory
  <2> QED
    BY <2>1, <2>2, <2>3 DEF ScoreInv, Logged
<1>6. CASE OpenLot
  <2>1. /\ lots'[cur].exit = 0 /\ \A f \in FillId \ {cur} : lots'[f] = lots[f]
        /\ step = "lot" /\ step' = "write" /\ mode # "down"
        /\ UNCHANGED <<log, mode, cur, rows, bookedRows, score>>
    BY <1>6, OpenLotMoves DEF OpenLot, disk, history, LedgerShape
  <2>2. NewFillIsMarked'
    BY <2>1 DEF ScoreInv, NewFillIsMarked, Logged
  <2>3. ClosedInMemory'
    BY <2>1 DEF ScoreInv, ClosedInMemory
  <2> QED
    BY <2>1, <2>2, <2>3 DEF ScoreInv, Logged
<1>7. CASE CloseLots
  <2>1. PICK take \in Takes(log[cur].qty) :
          LET hit == {f \in OpenLots : take[f] > 0} IN
            /\ \A f \in hit : lots'[f].exit = IF Left(f, take[f]) = 0 THEN cur ELSE 0
            /\ \A f \in FillId \ hit : lots'[f] = lots[f]
    BY <1>7, CloseLotsMoves
  <2>2. \A f \in FillId : lots'[f].exit \in {0, cur} \/ lots'[f] = lots[f]
    BY <2>1
  <2>3. /\ step = "lot" /\ step' = "write" /\ mode \in {"up", "replay"}
        /\ cur \in Logged
        /\ UNCHANGED <<log, mode, cur, rows, bookedRows, score>>
    BY <1>7 DEF CloseLots, disk, LedgerShape, TypeOK
  <2>4. NewFillIsMarked'
    BY <2>3 DEF ScoreInv, NewFillIsMarked, Logged
  <2>5. ClosedInMemory'
    <3>1. mode = "replay" => ~(log[cur].day > 0)
      BY <2>3 DEF ScoreInv
    <3> QED
      BY <2>2, <2>3, <3>1 DEF ScoreInv, ClosedInMemory
  <2> QED
    BY <2>3, <2>4, <2>5 DEF ScoreInv, Logged
<1>8. CASE TooLittleToClose
  <2>1. /\ step = "lot" /\ mode # "down" /\ step' \notin {"book", "mark", "write"}
        /\ UNCHANGED <<log, mode, cur, lots, rows, bookedRows, score>>
    BY <1>8 DEF TooLittleToClose, Booked, memory, disk, LedgerShape
  <2>2. NewFillIsMarked'
    BY <2>1 DEF ScoreInv, NewFillIsMarked, Logged
  <2>3. ClosedInMemory'
    BY <2>1 DEF ScoreInv, ClosedInMemory
  <2> QED
    BY <2>1, <2>2, <2>3 DEF ScoreInv, Logged
<1>9. CASE PersistLot
  <2>1. /\ step = "write" /\ mode # "down"
        /\ mode = "up" => step' \in {"write", "score"}
        /\ step' \in {"write", "score", "idle"}
        /\ UNCHANGED <<log, mode, cur, lots, bookedRows, score>>
    BY <1>9 DEF PersistLot, Booked, history, LedgerShape
  <2>2. NewFillIsMarked'
    BY <2>1 DEF ScoreInv, NewFillIsMarked, Logged
  <2>3. ClosedInMemory'
    BY <2>1 DEF ScoreInv, ClosedInMemory
  <2> QED
    BY <2>1, <2>2, <2>3 DEF ScoreInv, Logged
<1>10. CASE ScoreClosedLots
  <2>1. /\ step = "score" /\ step' = "idle" /\ mode # "down"
        /\ UNCHANGED <<log, mode, cur, lots, rows, bookedRows>>
    BY <1>10 DEF ScoreClosedLots, memory, disk, history, LedgerShape
  <2>2. NewFillIsMarked'
    BY <2>1 DEF ScoreInv, NewFillIsMarked, Logged
  <2>3. ASSUME NEW f \in FillId, lots[f].exit # 0, log[lots[f].exit].day > 0,
               log[f].order \in Judged
        PROVE  score'[log[f].order] # "none"
    <3>1. CASE lots[f].exit = cur
      <4>1. Exists(f)
        BY <2>3, ClosedIsLogged DEF Exists
      <4> QED
        BY <1>10, <2>3, <3>1, <4>1, ScoreMoves
    <3>2. CASE lots[f].exit # cur
      <4>1. score[log[f].order] # "none"
        BY <2>1, <2>3, <3>2 DEF ScoreInv, ClosedInMemory
      <4>2. log[f].order \in Order
        BY <2>3, DealAssumption
      <4> QED
        BY <1>10, <4>1, <4>2, ScoreMoves
    <3> QED
      BY <3>1, <3>2
  <2>4. ClosedInMemory'
    BY <2>1, <2>3 DEF ClosedInMemory
  <2> QED
    BY <2>1, <2>2, <2>4 DEF ScoreInv, Logged
<1>11. CASE Stop
  <2>1. /\ step = "idle" /\ mode # "down" /\ mode' = "down"
        /\ UNCHANGED <<log, rows, bookedRows, score>>
    BY <1>11 DEF Stop, Halt, disk
  <2>2. dirty = {} /\ failed = 0
    BY <2>1 DEF LedgerShape, TypeOK
  <2>3. \A f \in FillId : rows[f].exit = lots[f].exit
    BY <2>1, <2>2 DEF DiskFollowsMemory
  <2>4. NewFillIsMarked'
    BY <2>1 DEF ScoreInv, NewFillIsMarked, Logged
  <2>5. ClosedOnDisk'
    BY <2>1, <2>3 DEF ScoreInv, ClosedInMemory, ClosedOnDisk
  <2> QED
    BY <2>1, <2>4, <2>5 DEF ScoreInv
<1>12. CASE Start
  <2>1. /\ mode = "down" /\ mode' = IF bookedRows = {} THEN "replay" ELSE "up"
        /\ lots' = rows
        /\ UNCHANGED <<log, step, cur, rows, bookedRows, score>>
    BY <1>12 DEF Start, disk, history
  <2>2. NewFillIsMarked'
    BY <2>1 DEF ScoreInv, NewFillIsMarked, Logged
  <2>3. ASSUME bookedRows = {}, NEW n \in Logged PROVE log[n].day = 0
    <3>1. ~(log[n].day > 0)
      BY <2>1, <2>3 DEF ScoreInv, NewFillIsMarked
    <3>2. log[n].day \in 0..Days
      BY CurIsLogged DEF Fill
    <3> QED
      BY <3>1, <3>2, BoundAssumption
  <2>4. ClosedInMemory'
    BY <2>1 DEF ScoreInv, ClosedInMemory, ClosedOnDisk
  <2> QED
    BY <2>1, <2>2, <2>3, <2>4 DEF ScoreInv, Logged
<1>13. CASE ReplayNext \/ ReplayEnds
  <2>1. /\ mode = "replay" /\ mode' \in {"replay", "up"}
        /\ UNCHANGED <<log, lots, rows, bookedRows, score>>
    BY <1>13 DEF ReplayNext, ReplayEnds, memory, disk, history
  <2>2. NewFillIsMarked'
    BY <2>1 DEF ScoreInv, NewFillIsMarked, Logged
  <2>3. ClosedInMemory'
    BY <2>1 DEF ScoreInv, ClosedInMemory
  <2> QED
    BY <2>1, <2>2, <2>3 DEF ScoreInv, Logged
<1>14. CASE WriteFails \/ Crash
  <2>1. mishaps' = mishaps + 1
    BY <1>14 DEF WriteFails, Crash
  <2> QED
    BY <2>1
<1> QED
  BY <1>1, <1>2, <1>3, <1>4, <1>5, <1>6, <1>7, <1>8, <1>9, <1>10, <1>11, <1>12,
     <1>13, <1>14 DEF Next

\* Mishaps are only ever added.
LEMMA MishapsGrow ==
  ASSUME LedgerTypes, [Next]_vars, mishaps' = 0 PROVE mishaps = 0
<1>1. mishaps \in 0..MaxMishaps
  BY DEF LedgerTypes, TypeOK
<1>2. mishaps' = mishaps \/ mishaps' = mishaps + 1
  BY DEF Next, LogFill, NextDay, MarkInMemory, MarkOnDisk, OpenLot, CloseLots,
     TooLittleToClose, PersistLot, WriteFails, ScoreClosedLots, Stop, Crash, Halt,
     Start, ReplayNext, ReplayEnds, vars, memory, disk, history
<1> QED
  BY <1>1, <1>2, BoundAssumption

\* ClosedLotIsScored: an order whose lot was closed has its outcome, unless a
\* crash or a failed write came between.
THEOREM ClosedLotsAreScored == Spec => []ClosedLotIsScored
<1>1. Init => LedgerScores
  <2> SUFFICES ASSUME Init PROVE LedgerScores
    OBVIOUS
  <2>1. LedgerTypes /\ DiskFollowsMemory
    BY LedgerInit DEF Init, DiskFollowsMemory
  <2>2. \A n \in Logged : log[n].day = 0
    BY PastAssumption DEF Init, Logged
  <2>3. ScoreInv
    BY <2>2 DEF Init, ScoreInv, NewFillIsMarked, ClosedOnDisk, NoLot
  <2> QED
    BY <2>1, <2>3 DEF LedgerScores
<1>2. LedgerScores /\ [Next]_vars => LedgerScores'
  <2> SUFFICES ASSUME LedgerScores, [Next]_vars PROVE LedgerScores'
    OBVIOUS
  <2>1. LedgerTypes' /\ DiskFollowsMemory'
    BY LedgerNext, DiskFollows DEF LedgerScores
  <2>2. CASE mishaps' = 0
    BY <2>1, <2>2, MishapsGrow, ScoresFollow DEF LedgerScores
  <2>3. CASE mishaps' # 0
    BY <2>1, <2>3 DEF LedgerScores, ScoreInv
  <2> QED
    BY <2>2, <2>3
<1>3. LedgerScores => ClosedLotIsScored
  BY DEF LedgerScores, ScoreInv, ClosedInMemory, ClosedLotIsScored, Quiet
<1> QED
  BY <1>1, <1>2, <1>3, PTL DEF Spec

-----------------------------------------------------------------------------
(* What the lots hold is what was booked *)

\* What a crash or a failed write may leave out: one fill and its sliver.
Unit == MaxQty + Sliver
Times(n) == n * Unit
Within(x, b) == -b <= x /\ x <= b

\* The quantities below the dust threshold are bounded, and one fill with its dust
\* is no more than one Unit.
LEMMA UnitIsEnough ==
  /\ Sliver \in Nat /\ Unit \in Nat /\ MaxQty <= Unit
  /\ \A q \in 0..MaxQty : \A p \in Price : q * p < Dust => q <= Sliver
<1> DEFINE S == {q \in 0..MaxQty : q = 0 \/ \E p \in Price : q * p < Dust}
<1>1. IsFiniteSet(0..MaxQty)
  BY FS_Interval, SizeAssumption
<1>2. IsFiniteSet(S)
  BY <1>1, FS_Subset
<1>3. 0 \in S /\ S \subseteq Int /\ \A q \in S : q \in Nat
  BY SizeAssumption
<1>4. \A q \in 0..MaxQty : \A p \in Price : q * p < Dust => q \in S
  OBVIOUS
<1>5. Sliver = Max(S)
  BY DEF Sliver
<1> HIDE DEF S
<1>6. Max(S) \in S /\ \A q \in S : q <= Max(S)
  BY <1>2, <1>3, MaxIsLargest
<1>7. Sliver \in Nat
  BY <1>3, <1>5, <1>6
<1>8. \A q \in 0..MaxQty : \A p \in Price : q * p < Dust => q <= Sliver
  BY <1>4, <1>5, <1>6
<1> QED
  BY <1>7, <1>8, SizeAssumption DEF Unit

\* Multiples of the unit add up.
LEMMA TimesAdds ==
  /\ \A n \in Nat : Times(n) \in Nat /\ Times(n + 1) = Times(n) + Unit
  /\ \A m \in Nat : \A n \in 0..m : Times(m) = Times(m - n) + Times(n)
  /\ Times(0) = 0
<1>1. Unit \in Nat
  BY UnitIsEnough
<1>2. \A n \in Nat : n * Unit \in Nat /\ (n + 1) * Unit = n * Unit + Unit
  BY <1>1
<1>3. \A m \in Nat : \A n \in 0..m : m * Unit = (m - n) * Unit + n * Unit
  BY <1>1
<1>4. 0 * Unit = 0
  BY <1>1
<1> QED
  BY <1>2, <1>3, <1>4 DEF Times

\* What table t holds; what the fills F of log l bought and sold; by how much
\* the tables t and u differ on F.
HeldIn(t) == SumOver([f \in FillId |-> t[f].left], FillId)
QtyOf(l, F) == SumOver([f \in FillId |-> l[f].qty], F)
Signed(e) == IF e.side = "buy" THEN e.qty ELSE -e.qty
NetOf(l, F) == SumOver([f \in FillId |-> Signed(l[f])], F)
Abs(x) == IF x < 0 THEN -x ELSE x
Distance(t, u) == [f \in FillId |-> Abs(t[f].left - u[f].left)]
ApartOn(t, u, F) == SumOver(Distance(t, u), F)

\* What a table of lots holds is an integer.
LEMMA HeldIsInt ==
  ASSUME NEW t \in [FillId -> Lot] PROVE HeldIn(t) \in Int
<1> DEFINE g == [f \in FillId |-> t[f].left]
<1>1. \A f \in FillId : g[f] \in Int
  BY SizeAssumption DEF Lot
<1> HIDE DEF g
<1>2. SumOver(g, FillId) \in Int
  BY <1>1, SumIsInt, FillsAreFinite
<1> QED
  BY <1>2 DEF HeldIn, g

\* Changing one lot changes what the table holds by that much.
LEMMA HeldChanges ==
  ASSUME NEW t \in [FillId -> Lot], NEW u \in [FillId -> Lot], NEW f \in FillId,
         \A g \in FillId \ {f} : u[g].left = t[g].left
  PROVE  HeldIn(u) = HeldIn(t) - t[f].left + u[f].left
<1> DEFINE a == [g \in FillId |-> t[g].left]
           b == [g \in FillId |-> u[g].left]
<1>1. \A g \in FillId : a[g] \in Int /\ b[g] \in Int
  BY SizeAssumption DEF Lot
<1>2. a[f] = t[f].left /\ b[f] = u[f].left /\ \A g \in FillId \ {f} : b[g] = a[g]
  OBVIOUS
<1> HIDE DEF a, b
<1>3. SumOver(b, FillId) = SumOver(a, FillId) - a[f] + b[f]
  <2>1. IsFiniteSet(FillId)
    BY FillsAreFinite
  <2>2. \A g \in FillId \ {f} : b[g] = a[g]
    BY <1>2
  <2> QED
    BY <1>1, <2>1, <2>2, SumChanges
<1> QED
  BY <1>2, <1>3 DEF HeldIn, a, b

\* The fills of a log: their quantities are numbers, and one more fill adds
\* its own.
LEMMA FillsAdd ==
  ASSUME NEW l, NEW F \in SUBSET FillId, \A n \in F : l[n] \in Fill
  PROVE  /\ QtyOf(l, F) \in Nat /\ NetOf(l, F) \in Int
         /\ Within(NetOf(l, F), QtyOf(l, F))
         /\ \A x \in F : l[x].qty \in Nat /\ l[x].qty <= MaxQty
         /\ \A x \in F : Within(Signed(l[x]), MaxQty) /\ Signed(l[x]) \in Int
         /\ \A x \in F : /\ QtyOf(l, F) = l[x].qty + QtyOf(l, F \ {x})
                         /\ NetOf(l, F) = Signed(l[x]) + NetOf(l, F \ {x})
<1> DEFINE q == [f \in FillId |-> l[f].qty]
           s == [f \in FillId |-> Signed(l[f])]
<1>1. IsFiniteSet(F)
  BY FillsAreFinite
<1>2. \A x \in F : l[x].qty \in Nat /\ l[x].qty <= MaxQty
  BY SizeAssumption DEF Fill
<1>3. \A x \in F : Signed(l[x]) = l[x].qty \/ Signed(l[x]) = -l[x].qty
  BY DEF Signed
<1>4. \A x \in F : /\ q[x] \in Nat /\ s[x] \in Int /\ -q[x] <= s[x] /\ s[x] <= q[x]
                   /\ q[x] = l[x].qty /\ s[x] = Signed(l[x])
  BY <1>2, <1>3
<1> HIDE DEF q, s
<1>5. SumOver(q, F) \in Nat /\ SumOver(s, F) \in Int
  BY <1>1, <1>4, SumIsNat, SumIsInt
<1>6. -SumOver(q, F) <= SumOver(s, F) /\ SumOver(s, F) <= SumOver(q, F)
  BY <1>1, <1>4, SumIsWithin
<1>7. \A x \in F : /\ SumOver(q, F) = q[x] + SumOver(q, F \ {x})
                   /\ SumOver(s, F) = s[x] + SumOver(s, F \ {x})
  BY <1>1, <1>4, SumTakesOut
<1>8. \A x \in F : Within(Signed(l[x]), MaxQty) /\ Signed(l[x]) \in Int
  BY <1>2, <1>3, SizeAssumption DEF Within
<1> QED
  BY <1>2, <1>4, <1>5, <1>6, <1>7, <1>8 DEF QtyOf, NetOf, Within, q, s

\* They are those of any log that has the same fills.
LEMMA FillsAreLocal ==
  ASSUME NEW l, NEW m, NEW F \in SUBSET FillId, \A n \in F : m[n] = l[n]
  PROVE  QtyOf(m, F) = QtyOf(l, F) /\ NetOf(m, F) = NetOf(l, F)
<1> DEFINE q == [f \in FillId |-> l[f].qty]
           s == [f \in FillId |-> Signed(l[f])]
           r == [f \in FillId |-> m[f].qty]
           v == [f \in FillId |-> Signed(m[f])]
<1>1. IsFiniteSet(F)
  BY FillsAreFinite
<1>2. \A x \in F : q[x] = r[x] /\ s[x] = v[x]
  OBVIOUS
<1> HIDE DEF q, s, r, v
<1>3. SumOver(q, F) = SumOver(r, F) /\ SumOver(s, F) = SumOver(v, F)
  BY <1>1, <1>2, SumIsLocal
<1> QED
  BY <1>3 DEF QtyOf, NetOf, q, s, r, v

\* Two sets of fills that share none.
LEMMA FillsJoin ==
  ASSUME NEW l, NEW F \in SUBSET FillId, NEW G \in SUBSET FillId, F \cap G = {},
         \A n \in F \cup G : l[n] \in Fill
  PROVE  NetOf(l, F \cup G) = NetOf(l, F) + NetOf(l, G)
<1> DEFINE s == [f \in FillId |-> Signed(l[f])]
<1>1. IsFiniteSet(F) /\ IsFiniteSet(G)
  BY FillsAreFinite
<1>2. \A x \in F \cup G : s[x] \in Int
  BY SizeAssumption DEF Fill, Signed
<1> HIDE DEF s
<1>3. SumOver(s, F \cup G) = SumOver(s, F) + SumOver(s, G)
  BY <1>1, <1>2, SumOfUnion
<1> QED
  BY <1>3 DEF NetOf, s

\* How far two tables are apart bounds the difference of what they hold.
LEMMA TablesApart ==
  ASSUME NEW t \in [FillId -> Lot], NEW u \in [FillId -> Lot]
  PROVE  /\ \A F \in SUBSET FillId : ApartOn(t, u, F) \in Nat
         /\ \A G \in SUBSET FillId : \A F \in SUBSET G :
              ApartOn(t, u, F) <= ApartOn(t, u, G)
         /\ Within(HeldIn(t) - HeldIn(u), ApartOn(t, u, FillId))
<1> DEFINE a == [f \in FillId |-> t[f].left]
           b == [f \in FillId |-> u[f].left]
           d == [f \in FillId |-> t[f].left - u[f].left]
           g == Distance(t, u)
<1>1. \A f \in FillId : t[f].left \in Int /\ u[f].left \in Int
  BY SizeAssumption DEF Lot
<1>2. \A f \in FillId : /\ a[f] \in Int /\ b[f] \in Int /\ d[f] \in Int
                        /\ a[f] = b[f] + d[f]
  BY <1>1
<1>3. \A f \in FillId : g[f] \in Nat /\ -g[f] <= d[f] /\ d[f] <= g[f]
  BY <1>1 DEF Distance, Abs
<1>4. HeldIn(t) = SumOver(a, FillId) /\ HeldIn(u) = SumOver(b, FillId)
  BY DEF HeldIn
<1>5. \A F : ApartOn(t, u, F) = SumOver(g, F)
  BY DEF ApartOn
<1> HIDE DEF a, b, d, g
<1>6. SumOver(a, FillId) = SumOver(b, FillId) + SumOver(d, FillId)
  BY <1>2, SumOfSums, FillsAreFinite
<1>7. /\ -SumOver(g, FillId) <= SumOver(d, FillId)
      /\ SumOver(d, FillId) <= SumOver(g, FillId)
  BY <1>2, <1>3, SumIsWithin, FillsAreFinite
<1>8. SumOver(a, FillId) \in Int /\ SumOver(b, FillId) \in Int /\ SumOver(d, FillId) \in Int
  BY <1>2, SumIsInt, FillsAreFinite
<1>9. Within(HeldIn(t) - HeldIn(u), ApartOn(t, u, FillId))
  <2>1. ApartOn(t, u, FillId) = SumOver(g, FillId)
    BY <1>5
  <2>2. HeldIn(t) - HeldIn(u) = SumOver(d, FillId)
    BY <1>4, <1>6, <1>8
  <2> QED
    BY <1>7, <2>1, <2>2 DEF Within
<1>10. \A F \in SUBSET FillId : SumOver(g, F) \in Nat
  <2> SUFFICES ASSUME NEW F \in SUBSET FillId PROVE SumOver(g, F) \in Nat
    OBVIOUS
  <2>1. \A f \in FillId : g[f] \in Nat
    BY <1>3
  <2> QED
    BY <2>1, SumOfPart, FillsAreFinite
<1>11. ASSUME NEW G \in SUBSET FillId, NEW F \in SUBSET G
       PROVE  SumOver(g, F) <= SumOver(g, G)
  <2>1. \A f \in G : g[f] \in Nat
    BY <1>3
  <2>2. IsFiniteSet(G)
    BY FillsAreFinite
  <2> QED
    BY <2>1, <2>2, SumOfPart
<1> QED
  BY <1>5, <1>9, <1>10, <1>11

\* The tables that agree on F are no further apart on it than others.
LEMMA ApartIsLocal ==
  ASSUME NEW t, NEW u, NEW v, NEW w, NEW F \in SUBSET FillId,
         \A f \in F : t[f].left = v[f].left /\ u[f].left = w[f].left
  PROVE  ApartOn(v, w, F) = ApartOn(t, u, F)
<1>1. IsFiniteSet(F)
  BY FillsAreFinite
<1>2. \A f \in F : Distance(t, u)[f] = Distance(v, w)[f]
  BY DEF Distance
<1> DEFINE g == Distance(t, u)
           h == Distance(v, w)
<1> HIDE DEF g, h
<1>3. SumOver(g, F) = SumOver(h, F)
  BY <1>1, <1>2, SumIsLocal DEF g, h
<1> QED
  BY <1>3 DEF ApartOn, g, h

\* What the open lots hold is what all of them hold.
LEMMA OpenIsHeld ==
  ASSUME LedgerTypes PROVE OpenQty = HeldIn(lots) /\ HeldIn(lots) \in Int
<1> USE DEF LedgerTypes
<1> DEFINE a == [f \in FillId |-> lots[f].left]
           b == [f \in OpenLots |-> lots[f].left]
<1>1. IsFiniteSet(FillId) /\ IsFiniteSet(OpenLots) /\ OpenLots \subseteq FillId
  BY FillsAreFinite DEF OpenLots
<1>2. \A f \in FillId : a[f] \in Int
  BY SizeAssumption DEF TypeOK, Lot
<1>3. \A f \in FillId \ OpenLots : a[f] = 0
  BY DEF OpenLots, IsOpen, Exists, LotsHold, NoLot
<1>4. \A f \in OpenLots : b[f] = a[f]
  BY <1>1
<1>5. OpenQty = SumOver(b, OpenLots)
  BY DEF OpenQty, SumOf, SumOver
<1>6. HeldIn(lots) = SumOver(a, FillId)
  BY DEF HeldIn
<1> HIDE DEF a, b
<1>7. SumOver(a, FillId) = SumOver(a, OpenLots)
  BY <1>1, <1>2, <1>3, SumExtends
<1>8. SumOver(b, OpenLots) = SumOver(a, OpenLots)
  BY <1>1, <1>4, SumIsLocal
<1>9. SumOver(a, FillId) \in Int
  BY <1>1, <1>2, SumIsInt
<1> QED
  BY <1>5, <1>6, <1>7, <1>8, <1>9

\* What a sale does to the sums: the lots hold less by what is sold and by one
\* sliver at most.
LEMMA SaleIsSold ==
  ASSUME LedgerTypes, CloseLots, LedgerTypes'
  PROVE  \E d \in 0..Sliver :
           /\ dusted' = dusted + d
           /\ HeldIn(lots') = HeldIn(lots) - log[cur].qty - d
           /\ ApartOn(rows, lots', FillId)
                <= ApartOn(rows, lots, FillId) + log[cur].qty + d
<1> USE DEF LedgerTypes
<1>1. PICK take \in Takes(log[cur].qty) :
           LET hit == {f \in OpenLots : take[f] > 0} IN
           /\ \A f \in hit : lots'[f].left = Left(f, take[f])
           /\ \A f \in FillId \ hit : lots'[f] = lots[f]
           /\ hit \subseteq FillId
           /\ dusted' = dusted
                + SumOver([f \in hit |-> lots[f].left - take[f] - Left(f, take[f])], hit)
  BY CloseLotsMoves
<1>4. /\ \A f \in FillId : lots[f].left \in 0..MaxQty /\ lots[f].left \in Nat
      /\ \A f \in FillId : lots'[f].left \in Int
      /\ \A f \in FillId : lots[f].pos \in Int
  <2>1. lots \in [FillId -> Lot] /\ lots' \in [FillId -> Lot]
    BY DEF TypeOK
  <2> QED
    BY <2>1, SizeAssumption DEF Lot
<1> DEFINE hit == {f \in OpenLots : take[f] > 0}
           sliver == [f \in hit |-> lots[f].left - take[f] - Left(f, take[f])]
           given == [f \in FillId |-> IF f \in hit THEN take[f] ELSE 0]
           dust == [f \in FillId |-> IF f \in hit THEN sliver[f] ELSE 0]
           loss == [f \in FillId |-> given[f] + dust[f]]
           a == [f \in FillId |-> lots[f].left]
           b == [f \in FillId |-> lots'[f].left]
           q == log[cur].qty
<1>2. /\ take \in [OpenLots -> 0..MaxQty]
      /\ \A f \in OpenLots : take[f] \in Nat /\ take[f] <= lots[f].left
      /\ \A f, g \in OpenLots : Before(f, g) /\ take[g] > 0 => take[f] = lots[f].left
      /\ SumOver(take, OpenLots) = q
  BY SaleIsOfOpenLots DEF CloseLots
<1>3. /\ IsFiniteSet(FillId) /\ hit \subseteq FillId /\ hit \subseteq OpenLots
      /\ IsFiniteSet(hit) /\ OpenLots \subseteq FillId /\ IsFiniteSet(OpenLots)
  BY FillsAreFinite DEF OpenLots
<1>5. cur \in Logged /\ log[cur] \in Fill /\ log[cur].price \in Price /\ q \in Nat
  BY CurIsLogged, SizeAssumption DEF CloseLots, TypeOK, Fill
<1>6. ASSUME NEW f \in hit
      PROVE  /\ take[f] \in Nat /\ sliver[f] \in Nat
             /\ lots[f].left = lots'[f].left + (take[f] + sliver[f])
             /\ sliver[f] # 0 => take[f] # lots[f].left /\ sliver[f] <= Sliver
  <2>1. take[f] \in Nat /\ take[f] <= lots[f].left /\ f \in FillId
    BY <1>2, <1>3
  <2>2. /\ Left(f, take[f]) \in 0..(lots[f].left - take[f])
        /\ Left(f, take[f]) # lots[f].left - take[f] =>
             Left(f, take[f]) = 0 /\ (lots[f].left - take[f]) * log[cur].price < Dust
    BY <1>4, <2>1, LeftIsLess
  <2> DEFINE n == lots[f].left - take[f]
             m == Left(f, take[f])
  <2>3. sliver[f] = n - m /\ lots'[f].left = m /\ n \in 0..MaxQty /\ n \in Nat
    BY <1>1, <1>4, <2>1, SizeAssumption
  <2>4. m \in 0..n /\ (m # n => m = 0 /\ n * log[cur].price < Dust)
    BY <2>2
  <2>5. m # n => n <= Sliver
    BY <1>5, <2>3, <2>4, UnitIsEnough
  <2>6. n = 0 => m = n
    BY <2>4
  <2>7. lots[f].left = take[f] + n /\ (take[f] = lots[f].left => n = 0)
    BY <1>4, <2>1
  <2> HIDE DEF n, m, sliver
  <2>8. sliver[f] \in Nat /\ (sliver[f] # 0 => m # n)
    BY <2>3, <2>4
  <2>9. sliver[f] # 0 => sliver[f] <= Sliver
    BY <2>3, <2>4, <2>5, UnitIsEnough
  <2>10. lots[f].left = lots'[f].left + (take[f] + sliver[f])
    BY <2>1, <2>3, <2>4, <2>7
  <2> QED
    BY <2>1, <2>6, <2>7, <2>8, <2>9, <2>10
<1>7. \A f \in FillId : /\ given[f] \in Nat /\ dust[f] \in Nat /\ loss[f] \in Nat
                        /\ loss[f] = given[f] + dust[f]
                        /\ lots[f].left = lots'[f].left + loss[f]
                        /\ (dust[f] # 0 => f \in hit /\ sliver[f] # 0 /\ dust[f] <= Sliver)
                        /\ (f \in hit => given[f] = take[f] /\ dust[f] = sliver[f])
                        /\ (f \notin hit => given[f] = 0 /\ dust[f] = 0)
  <2> SUFFICES ASSUME NEW f \in FillId
               PROVE  /\ given[f] \in Nat /\ dust[f] \in Nat /\ loss[f] \in Nat
                      /\ loss[f] = given[f] + dust[f]
                      /\ lots[f].left = lots'[f].left + loss[f]
                      /\ (dust[f] # 0 => f \in hit /\ sliver[f] # 0 /\ dust[f] <= Sliver)
                      /\ (f \in hit => given[f] = take[f] /\ dust[f] = sliver[f])
                      /\ (f \notin hit => given[f] = 0 /\ dust[f] = 0)
    OBVIOUS
  <2>1. CASE f \in hit
    <3>1. given[f] = take[f] /\ dust[f] = sliver[f] /\ loss[f] = take[f] + sliver[f]
      BY <2>1
    <3> HIDE DEF given, dust, loss, sliver, hit
    <3> QED
      BY <1>6, <2>1, <3>1
  <2>2. CASE f \notin hit
    <3>1. given[f] = 0 /\ dust[f] = 0 /\ loss[f] = 0 /\ lots'[f] = lots[f]
      BY <1>1, <2>2
    <3> HIDE DEF given, dust, loss, sliver, hit
    <3> QED
      BY <1>4, <2>2, <3>1
  <2> QED
    BY <2>1, <2>2
<1>8. ASSUME NEW f \in hit, NEW g \in hit, sliver[f] # 0, sliver[g] # 0
      PROVE  f = g
  <2>1. take[f] # lots[f].left /\ take[g] # lots[g].left
    BY <1>6, <1>8
  <2>2. ~Before(f, g) /\ ~Before(g, f)
    BY <1>2, <2>1
  <2>3. f \in Logged /\ g \in Logged /\ lots[f].pos # 0 /\ lots[g].pos # 0
    BY DEF OpenLots, IsOpen, Exists, LotsHold, TypeOK
  <2>4. log[f].day \in Int /\ log[g].day \in Int
    BY <2>3, CurIsLogged, BoundAssumption DEF Fill
  <2>5. lots[f].pos \in Int /\ lots[g].pos \in Int
    BY <1>3, <1>4
  <2>6. lots[f].pos = lots[g].pos
    BY <2>2, <2>4, <2>5 DEF Before
  <2>7. f \in FillId /\ g \in FillId
    BY <1>3
  <2> QED
    BY <2>3, <2>6, <2>7 DEF LotsHold
<1>9. \A f, g \in FillId : dust[f] # 0 /\ dust[g] # 0 => f = g
  BY <1>7, <1>8
<1> HIDE DEF given, dust, loss, sliver, hit
<1>10. SumOver(given, FillId) = q
  <2>1. \A f \in hit : given[f] = take[f] /\ given[f] \in Int
    BY <1>3, <1>7
  <2>2. \A f \in FillId \ hit : given[f] = 0
    BY <1>7
  <2>3. \A f \in OpenLots \ hit : take[f] = 0
    BY <1>2 DEF hit
  <2>4. \A f \in OpenLots : take[f] \in Int
    BY <1>2
  <2>5. SumOver(given, FillId) = SumOver(given, hit)
    BY <1>3, <2>1, <2>2, SumExtends
  <2>6. SumOver(given, hit) = SumOver(take, hit)
    BY <1>3, <2>1, SumIsLocal
  <2>7. SumOver(take, OpenLots) = SumOver(take, hit)
    BY <1>3, <2>1, <2>3, <2>4, SumExtends
  <2> QED
    BY <1>2, <2>5, <2>6, <2>7
<1>11. dusted' = dusted + SumOver(dust, FillId)
  <2>1. \A f \in hit : dust[f] = sliver[f] /\ dust[f] \in Int
    BY <1>3, <1>7
  <2>2. \A f \in FillId \ hit : dust[f] = 0
    BY <1>7
  <2>3. dusted' = dusted + SumOver(sliver, hit)
    BY <1>1 DEF sliver, hit
  <2>4. SumOver(dust, FillId) = SumOver(dust, hit)
    BY <1>3, <2>1, <2>2, SumExtends
  <2>5. SumOver(dust, hit) = SumOver(sliver, hit)
    BY <1>3, <2>1, SumIsLocal
  <2> QED
    BY <2>3, <2>4, <2>5
<1>12. SumOver(dust, FillId) \in 0..Sliver
  <2>1. \A f \in FillId : dust[f] \in Nat /\ dust[f] \in Int /\ (dust[f] # 0 => dust[f] <= Sliver)
    BY <1>7
  <2>2. CASE \A f \in FillId : dust[f] = 0
    <3>1. SumOver(dust, FillId) = 0
      BY <1>3, <2>2, SumOfZeros
    <3> QED
      BY <3>1, UnitIsEnough
  <2>3. CASE \E f \in FillId : dust[f] # 0
    <3>1. PICK f \in FillId : dust[f] # 0
      BY <2>3
    <3>2. \A g \in FillId \ {f} : dust[g] = 0
      BY <1>9, <3>1
    <3>3. SumOver(dust, FillId) = dust[f] + SumOver(dust, FillId \ {f})
      BY <1>3, <2>1, SumTakesOut
    <3>4. IsFiniteSet(FillId \ {f})
      BY FillsAreFinite
    <3>5. SumOver(dust, FillId \ {f}) = 0
      BY <3>2, <3>4, SumOfZeros
    <3>6. dust[f] \in Nat /\ dust[f] <= Sliver /\ Sliver \in Nat
      BY <2>1, <3>1, UnitIsEnough
    <3> QED
      BY <3>3, <3>5, <3>6
  <2> QED
    BY <2>2, <2>3
<1>13. SumOver(loss, FillId) = q + SumOver(dust, FillId)
  <2>1. \A f \in FillId : /\ given[f] \in Int /\ dust[f] \in Int
                          /\ loss[f] = given[f] + dust[f]
    BY <1>7
  <2> HIDE DEF q
  <2>2. SumOver(loss, FillId) = SumOver(given, FillId) + SumOver(dust, FillId)
    BY <1>3, <2>1, SumOfSums
  <2> QED
    BY <1>10, <2>2
<1>14. HeldIn(lots') = HeldIn(lots) - q - SumOver(dust, FillId)
  <2>1. \A f \in FillId : a[f] = b[f] + loss[f] /\ b[f] \in Int /\ loss[f] \in Int
    BY <1>4, <1>7
  <2>2. HeldIn(lots') = SumOver(b, FillId) /\ HeldIn(lots) = SumOver(a, FillId)
    BY DEF HeldIn
  <2> HIDE DEF a, b, q
  <2>3. SumOver(a, FillId) = SumOver(b, FillId) + SumOver(loss, FillId)
    BY <1>3, <2>1, SumOfSums
  <2>4. SumOver(b, FillId) \in Int
    BY <1>3, <2>1, SumIsInt
  <2>5. q \in Int /\ SumOver(dust, FillId) \in Int
    BY <1>5, <1>12, UnitIsEnough DEF q
  <2> QED
    BY <1>13, <2>2, <2>3, <2>4, <2>5
<1>15. ApartOn(rows, lots', FillId)
         <= ApartOn(rows, lots, FillId) + (q + SumOver(dust, FillId))
  <2> DEFINE g == Distance(rows, lots)
             h == Distance(rows, lots')
             k == [f \in FillId |-> g[f] + loss[f]]
  <2>1. \A f \in FillId : /\ g[f] \in Int /\ h[f] \in Int /\ loss[f] \in Int
                          /\ k[f] = g[f] + loss[f] /\ h[f] <= k[f]
    <3> SUFFICES ASSUME NEW f \in FillId
                 PROVE  /\ g[f] \in Int /\ h[f] \in Int /\ loss[f] \in Int
                        /\ k[f] = g[f] + loss[f] /\ h[f] <= k[f]
      OBVIOUS
    <3>1. /\ loss[f] \in Nat /\ lots[f].left \in Int /\ lots'[f].left \in Int
          /\ lots[f].left = lots'[f].left + loss[f]
      BY <1>4, <1>7
    <3>2. rows[f].left \in Int
      BY SizeAssumption DEF TypeOK, Lot
    <3>3. /\ g[f] = Abs(rows[f].left - lots[f].left)
          /\ h[f] = Abs(rows[f].left - lots'[f].left)
          /\ k[f] = g[f] + loss[f]
      BY DEF Distance
    <3> HIDE DEF g, h, k
    <3> QED
      BY <3>1, <3>2, <3>3 DEF Abs
  <2>2. ApartOn(rows, lots', FillId) = SumOver(h, FillId)
        /\ ApartOn(rows, lots, FillId) = SumOver(g, FillId)
    BY DEF ApartOn
  <2> HIDE DEF g, h, k, q
  <2>3. SumOver(h, FillId) <= SumOver(k, FillId)
    <3>1. \A f \in FillId : h[f] \in Int /\ k[f] \in Int /\ h[f] <= k[f]
      BY <2>1
    <3> QED
      BY <1>3, <3>1, SumIsMonotone
  <2>4. SumOver(k, FillId) = SumOver(g, FillId) + SumOver(loss, FillId)
    BY <1>3, <2>1, SumOfSums
  <2> QED
    BY <1>13, <2>2, <2>3, <2>4
<1>16. \E d \in 0..Sliver : d = SumOver(dust, FillId)
  BY <1>12
<1>17. PICK d \in 0..Sliver : d = SumOver(dust, FillId)
  BY <1>16
<1>18. ApartOn(rows, lots, FillId) \in Int /\ d \in Int /\ q \in Int
  <2>1. ApartOn(rows, lots, FillId) \in Nat
    BY TablesApart DEF TypeOK
  <2> HIDE DEF q
  <2> QED
    BY <1>5, <2>1, UnitIsEnough
<1>19. ApartOn(rows, lots', FillId) <= ApartOn(rows, lots, FillId) + q + d
  BY <1>15, <1>17, <1>18
<1> QED
  BY <1>11, <1>14, <1>17, <1>19

\* The fills that are booked in memory only, but for the one being marked; what
\* the fill being booked still owes to the lots; how far memory and disk are
\* from holding what was booked.
Unmarked == (booked \ bookedRows) \ (IF step = "mark" THEN {cur} ELSE {})
Owed == IF step = "lot" THEN Signed(log[cur]) ELSE 0
MemoryBalance == NetOf(log, bookedRows) + dropped - dusted - HeldIn(lots)
DiskBalance == NetOf(log, bookedRows) + dropped - dusted - HeldIn(rows)

\* What the failed writes of this process have left behind, but for the fill
\* being written, and with it.
Behind == QtyOf(log, Unmarked) + ApartOn(rows, lots, FillId \ dirty)
BehindAll == QtyOf(log, Unmarked) + ApartOn(rows, lots, FillId)

BalanceInv ==
  /\ mode = "down" => Within(DiskBalance, Times(mishaps))
  /\ mode # "down" => /\ Within(MemoryBalance - Owed, Times(mishaps - failed))
                      /\ Behind <= Times(failed)
                      /\ step = "write" => BehindAll <= Times(failed + 1)

\* The sums of a state are those of its variables.
LEMMA SumsOfNext ==
  /\ MemoryBalance' = NetOf(log', bookedRows') + dropped' - dusted' - HeldIn(lots')
  /\ DiskBalance' = NetOf(log', bookedRows') + dropped' - dusted' - HeldIn(rows')
  /\ Behind' = QtyOf(log', Unmarked') + ApartOn(rows', lots', FillId \ dirty')
  /\ BehindAll' = QtyOf(log', Unmarked') + ApartOn(rows', lots', FillId)
BY DEF MemoryBalance, DiskBalance, Behind, BehindAll

\* All of them are integers.
LEMMA BalanceTypes ==
  ASSUME LedgerTypes
  PROVE  /\ \A F \in SUBSET Logged : NetOf(log, F) \in Int /\ QtyOf(log, F) \in Nat
         /\ HeldIn(lots) \in Int /\ HeldIn(rows) \in Int
         /\ dropped \in Int /\ dusted \in Int
         /\ Unmarked \in SUBSET Logged /\ QtyOf(log, Unmarked) \in Nat
         /\ bookedRows \in SUBSET Logged /\ NetOf(log, bookedRows) \in Int
         /\ MemoryBalance \in Int /\ DiskBalance \in Int
         /\ \A F \in SUBSET FillId : ApartOn(rows, lots, F) \in Nat
         /\ Owed \in Int /\ Within(Owed, MaxQty)
         /\ mishaps \in Nat /\ failed \in 0..mishaps
         /\ dirty # {} => step = "write"
<1> USE DEF LedgerTypes
<1>1. \A F \in SUBSET Logged : NetOf(log, F) \in Int /\ QtyOf(log, F) \in Nat
  <2> SUFFICES ASSUME NEW F \in SUBSET Logged
               PROVE  NetOf(log, F) \in Int /\ QtyOf(log, F) \in Nat
    OBVIOUS
  <2>1. F \in SUBSET FillId /\ \A n \in F : log[n] \in Fill
    BY CurIsLogged
  <2> QED
    BY <2>1, FillsAdd
<1>2. HeldIn(lots) \in Int /\ HeldIn(rows) \in Int
  BY HeldIsInt DEF TypeOK
<1>3. dropped \in Int /\ dusted \in Int /\ mishaps \in Nat /\ failed \in 0..mishaps
  BY BoundAssumption DEF TypeOK
<1>4. Unmarked \in SUBSET Logged /\ bookedRows \in SUBSET Logged
  BY DEF Unmarked, TypeOK
<1>5. \A F \in SUBSET FillId : ApartOn(rows, lots, F) \in Nat
  BY TablesApart DEF TypeOK
<1>6. Owed \in Int /\ Within(Owed, MaxQty)
  <2>1. CASE step = "lot"
    <3>1. {cur} \in SUBSET FillId /\ \A n \in {cur} : log[n] \in Fill
      BY <2>1, CurIsLogged DEF TypeOK
    <3> QED
      BY <2>1, <3>1, FillsAdd DEF Owed
  <2>2. CASE step # "lot"
    BY <2>2, SizeAssumption DEF Owed, Within
  <2> QED
    BY <2>1, <2>2
<1>7. MemoryBalance \in Int /\ DiskBalance \in Int
  BY <1>1, <1>2, <1>3, <1>4 DEF MemoryBalance, DiskBalance
<1> QED
  BY <1>1, <1>2, <1>3, <1>4, <1>5, <1>6, <1>7 DEF LedgerShape

\* One lot, taken out of the distance.
LEMMA ApartTakesOut ==
  ASSUME NEW t \in [FillId -> Lot], NEW u \in [FillId -> Lot],
         NEW F \in SUBSET FillId, NEW f \in F
  PROVE  /\ ApartOn(t, u, F) = Abs(t[f].left - u[f].left) + ApartOn(t, u, F \ {f})
         /\ ApartOn(t, u, F \ {f}) \in Nat
<1> DEFINE g == Distance(t, u)
<1>1. \A h \in F : g[h] \in Int
  BY SizeAssumption DEF Distance, Abs, Lot
<1>2. g[f] = Abs(t[f].left - u[f].left) /\ IsFiniteSet(F)
  BY FillsAreFinite DEF Distance
<1> HIDE DEF g
<1>3. SumOver(g, F) = g[f] + SumOver(g, F \ {f})
  BY <1>1, <1>2, SumTakesOut
<1>4. F \ {f} \in SUBSET FillId
  OBVIOUS
<1>5. ApartOn(t, u, F \ {f}) \in Nat
  BY <1>4, TablesApart
<1> QED
  BY <1>2, <1>3, <1>5 DEF ApartOn, g

\* A step that changes none of the sums.
LEMMA BalanceStays ==
  ASSUME LedgerTypes, LedgerTypes', BalanceInv, mode # "down", mode' # "down",
         mishaps' = mishaps, failed' = failed,
         MemoryBalance' - Owed' = MemoryBalance - Owed,
         Behind' <= Behind, step' = "write" => step = "write" /\ BehindAll' <= BehindAll
  PROVE  BalanceInv'
<1> DEFINE F == FillId \ dirty
           G == FillId \ dirty'
<1>1. Behind \in Int /\ BehindAll \in Int
  BY BalanceTypes DEF Behind, BehindAll
<1>2. Behind' \in Int /\ BehindAll' \in Int
  <2>1. /\ QtyOf(log', Unmarked') \in Nat
        /\ \A H \in SUBSET FillId : ApartOn(rows', lots', H) \in Nat
    <3>1. /\ log' \in Seq(Fill) /\ Len(log') <= MaxFills
          /\ rows' \in [FillId -> Lot] /\ lots' \in [FillId -> Lot]
          /\ booked' \subseteq Logged'
      BY DEF LedgerTypes, TypeOK
    <3>2. Unmarked' \in SUBSET FillId /\ \A n \in Unmarked' : log'[n] \in Fill
      BY <3>1, SizeAssumption DEF Unmarked, Logged, FillId
    <3> QED
      BY <3>1, <3>2, FillsAdd, TablesApart
  <2> QED
    BY <2>1, SumsOfNext
<1>3. failed \in Nat /\ Times(failed) \in Int /\ Times(failed + 1) \in Int
  BY BalanceTypes, TimesAdds
<1>4. Behind' <= Times(failed)
  BY <1>1, <1>2, <1>3 DEF BalanceInv
<1>5. step' = "write" => BehindAll' <= Times(failed + 1)
  BY <1>1, <1>2, <1>3 DEF BalanceInv
<1> QED
  BY <1>4, <1>5 DEF BalanceInv

\* A step that leaves log, lots, rows and marks on disk alone.
LEMMA BalanceQuiet ==
  ASSUME LedgerTypes, LedgerTypes', BalanceInv, mode # "down", mode' # "down",
         UNCHANGED <<log, lots, rows, bookedRows, dirty, dropped, dusted, mishaps, failed>>,
         Unmarked' = Unmarked, Owed' = Owed, step' = "write" => step = "write"
  PROVE  BalanceInv'
<1>1. MemoryBalance' = MemoryBalance /\ Behind' = Behind /\ BehindAll' = BehindAll
  BY SumsOfNext DEF MemoryBalance, Behind, BehindAll
<1>2. Behind \in Int /\ BehindAll \in Int
  BY BalanceTypes DEF Behind, BehindAll
<1> QED
  BY <1>1, <1>2, BalanceStays

\* The steps that do nothing to what is on disk and in the lots.
LEMMA QuietBalance ==
  ASSUME LedgerTypes, LedgerTypes', BalanceInv,
         NextDay \/ MarkInMemory \/ ScoreClosedLots \/ ReplayNext \/ ReplayEnds,
         mode # "down"
  PROVE  BalanceInv'
<1>1. /\ UNCHANGED <<log, lots, rows, bookedRows, dirty, dropped, dusted, mishaps, failed>>
      /\ mode' # "down"
      /\ step' = "write" => step = "write"
      /\ (step # "lot" /\ step' # "lot") \/ (step' = step /\ cur' = cur)
  BY DEF NextDay, MarkInMemory, Booked, ScoreClosedLots, ReplayNext, ReplayEnds,
     memory, disk, history
<1>2. Owed' = Owed
  BY <1>1 DEF Owed
<1>3. Unmarked' = Unmarked
  <2>1. CASE MarkInMemory
    BY <2>1 DEF MarkInMemory, Booked, disk, history, Unmarked
  <2>2. CASE ~MarkInMemory
    <3>1. booked' = booked /\ bookedRows' = bookedRows
      BY <2>2 DEF NextDay, MarkInMemory, Booked, ScoreClosedLots, ReplayNext, ReplayEnds,
         memory, disk, history
    <3>2. (step # "mark" /\ step' # "mark") \/ (step' = step /\ cur' = cur)
      BY <2>2 DEF NextDay, MarkInMemory, Booked, ScoreClosedLots, ReplayNext, ReplayEnds,
         memory, disk, history
    <3> QED
      BY <3>1, <3>2 DEF Unmarked
  <2> QED
    BY <2>1, <2>2
<1> QED
  BY <1>1, <1>2, <1>3, BalanceQuiet

\* A new fill is logged: nothing is booked yet.
LEMMA LogFillBalance ==
  ASSUME LedgerTypes, LedgerTypes', BalanceInv, LogFill
  PROVE  BalanceInv'
<1>1. /\ \A n \in Logged : log'[n] = log[n]
  BY LogGrows DEF LedgerTypes
<1>2. /\ UNCHANGED <<lots, rows, booked, bookedRows, dirty, dropped, dusted, mishaps, failed>>
      /\ mode = "up" /\ mode' = "up" /\ step = "idle" /\ step' = "book"
  BY DEF LogFill, memory, disk, history
<1>3. Unmarked' = Unmarked /\ Owed' = 0 /\ Owed = 0
  BY <1>2 DEF Unmarked, Owed
<1>4. Unmarked \in SUBSET FillId /\ bookedRows \in SUBSET FillId
      /\ Unmarked \subseteq Logged /\ bookedRows \subseteq Logged
  BY BalanceTypes, CurIsLogged DEF LedgerTypes
<1>5. QtyOf(log', Unmarked) = QtyOf(log, Unmarked)
      /\ NetOf(log', bookedRows) = NetOf(log, bookedRows)
  <2>1. \A n \in Unmarked : log'[n] = log[n]
    BY <1>1, <1>4
  <2>2. \A n \in bookedRows : log'[n] = log[n]
    BY <1>1, <1>4
  <2> QED
    BY <1>4, <2>1, <2>2, FillsAreLocal
<1>6. MemoryBalance' = MemoryBalance /\ Behind' = Behind
  BY <1>2, <1>3, <1>5, SumsOfNext DEF MemoryBalance, Behind
<1>7. Behind \in Int
  BY BalanceTypes DEF Behind
<1> QED
  BY <1>2, <1>3, <1>6, <1>7, BalanceStays

\* The fill is marked as booked on disk: the lots owe it from here on.
LEMMA MarkBalance ==
  ASSUME LedgerTypes, LedgerTypes', BalanceInv, MarkOnDisk
  PROVE  BalanceInv'
<1>1. /\ UNCHANGED <<log, mode, cur, lots, rows, booked, dirty, dropped, dusted, mishaps, failed>>
      /\ bookedRows' = bookedRows \cup {cur} /\ step = "mark" /\ step' = "lot"
  BY DEF MarkOnDisk, memory, history
<1>2. cur \in booked \ bookedRows /\ mode # "down" /\ cur \in Logged
  BY <1>1 DEF LedgerTypes, LedgerShape, TypeOK
<1>3. Unmarked' = Unmarked
  BY <1>1, <1>2 DEF Unmarked
<1>4. Owed = 0 /\ Owed' = Signed(log[cur])
  BY <1>1 DEF Owed
<1> DEFINE F == bookedRows \cup {cur}
<1>5. /\ F \in SUBSET FillId /\ \A n \in F : log[n] \in Fill
      /\ cur \in F /\ F \ {cur} = bookedRows
  BY <1>2, CurIsLogged DEF LedgerTypes, TypeOK
<1> HIDE DEF F
<1>6. NetOf(log, F) = Signed(log[cur]) + NetOf(log, bookedRows)
      /\ Signed(log[cur]) \in Int
  <2>2. \A x \in F : /\ Within(Signed(log[x]), MaxQty) /\ Signed(log[x]) \in Int
    BY <1>5, FillsAdd
  <2>3. \A x \in F : /\ QtyOf(log, F) = log[x].qty + QtyOf(log, F \ {x})
                     /\ NetOf(log, F) = Signed(log[x]) + NetOf(log, F \ {x})
    BY <1>5, FillsAdd
  <2>1. NetOf(log, F) = Signed(log[cur]) + NetOf(log, F \ {cur})
        /\ Signed(log[cur]) \in Int
    BY <1>5, <2>2, <2>3
  <2> QED
    BY <1>5, <2>1
<1>7. MemoryBalance' = NetOf(log, F) + dropped - dusted - HeldIn(lots)
  BY <1>1, SumsOfNext DEF F
<1>8. MemoryBalance' - Owed' = MemoryBalance - Owed
  <2>1. /\ NetOf(log, bookedRows) \in Int /\ dropped \in Int /\ dusted \in Int
        /\ HeldIn(lots) \in Int
    BY BalanceTypes
  <2> QED
    BY <1>4, <1>6, <1>7, <2>1 DEF MemoryBalance
<1>9. Behind' = Behind /\ Behind \in Int
  BY <1>1, <1>3, SumsOfNext, BalanceTypes DEF Behind
<1> QED
  BY <1>1, <1>2, <1>8, <1>9, BalanceStays

\* A sale too small to close anything is dropped and counted as such.
LEMMA DropBalance ==
  ASSUME LedgerTypes, LedgerTypes', BalanceInv, TooLittleToClose
  PROVE  BalanceInv'
<1>1. /\ UNCHANGED <<log, mode, cur, lots, rows, booked, bookedRows, dirty, dusted,
                     mishaps, failed>>
      /\ step = "lot" /\ step' \in {"score", "idle"} /\ log[cur].side = "sell"
      /\ dropped' = dropped + log[cur].qty
  BY DEF TooLittleToClose, Booked, memory, disk
<1>2. mode # "down" /\ log[cur].qty \in Int
  BY <1>1, CurIsLogged DEF LedgerTypes, LedgerShape, TypeOK, Fill
<1>3. Unmarked' = Unmarked /\ Owed' = 0 /\ Owed = -log[cur].qty
  BY <1>1 DEF Unmarked, Owed, Signed
<1>4. MemoryBalance' = NetOf(log, bookedRows) + (dropped + log[cur].qty) - dusted - HeldIn(lots)
  BY <1>1, SumsOfNext
<1>5. MemoryBalance' - Owed' = MemoryBalance - Owed
  <2>1. /\ NetOf(log, bookedRows) \in Int /\ dropped \in Int /\ dusted \in Int
        /\ HeldIn(lots) \in Int
    BY BalanceTypes
  <2> QED
    BY <1>2, <1>3, <1>4, <2>1 DEF MemoryBalance
<1>6. Behind' = Behind /\ Behind \in Int
  BY <1>1, <1>3, SumsOfNext, BalanceTypes DEF Behind
<1> QED
  BY <1>1, <1>2, <1>5, <1>6, BalanceStays

\* A buy opens its lot in memory: the fill owes nothing more, its row does.
LEMMA OpenBalance ==
  ASSUME LedgerTypes, LedgerTypes', BalanceInv, OpenLot
  PROVE  BalanceInv'
<1>1. /\ UNCHANGED <<log, mode, cur, rows, booked, bookedRows, dropped, dusted, mishaps, failed>>
      /\ step = "lot" /\ step' = "write" /\ log[cur].side = "buy" /\ dirty' = {cur}
  BY DEF OpenLot, disk, history
<1>2. /\ cur \in FillId /\ log[cur].qty \in 1..MaxQty
      /\ lots'[cur].left = log[cur].qty
      /\ \A f \in FillId \ {cur} : lots'[f] = lots[f]
      /\ lots[cur] = NoLot /\ rows[cur] = NoLot
  BY OpenLotMoves
<1>3. mode # "down" /\ dirty = {} /\ log[cur].qty \in Int
      /\ lots \in [FillId -> Lot] /\ lots' \in [FillId -> Lot] /\ rows \in [FillId -> Lot]
  BY <1>1, <1>2, SizeAssumption DEF LedgerTypes, LedgerShape, TypeOK
<1>4. Unmarked' = Unmarked /\ Owed' = 0 /\ Owed = log[cur].qty
  BY <1>1 DEF Unmarked, Owed, Signed
<1>5. HeldIn(lots') = HeldIn(lots) + log[cur].qty
  <2>1. HeldIn(lots') = HeldIn(lots) - lots[cur].left + lots'[cur].left
    BY <1>2, <1>3, HeldChanges
  <2>2. lots[cur].left = 0 /\ HeldIn(lots) \in Int
    BY <1>2, BalanceTypes DEF NoLot
  <2> QED
    BY <1>2, <1>3, <2>1, <2>2
<1>6. MemoryBalance' - Owed' = MemoryBalance - Owed
  <2>1. MemoryBalance' = NetOf(log, bookedRows) + dropped - dusted - (HeldIn(lots) + log[cur].qty)
    BY <1>1, <1>5, SumsOfNext
  <2>2. /\ NetOf(log, bookedRows) \in Int /\ dropped \in Int /\ dusted \in Int
        /\ HeldIn(lots) \in Int
    BY BalanceTypes
  <2> QED
    BY <1>3, <1>4, <2>1, <2>2 DEF MemoryBalance
<1> DEFINE q == QtyOf(log, Unmarked)
           a == ApartOn(rows, lots, FillId)
           b == ApartOn(rows, lots, FillId \ {cur})
<1>7. ApartOn(rows, lots', FillId \ {cur}) = b
  <2>1. FillId \ {cur} \in SUBSET FillId
    OBVIOUS
  <2> QED
    BY <1>2, <2>1, ApartIsLocal
<1>8. ApartOn(rows, lots', FillId) = log[cur].qty + b
  <2>1. FillId \in SUBSET FillId
    OBVIOUS
  <2>2. ApartOn(rows, lots', FillId)
          = Abs(rows[cur].left - lots'[cur].left) + ApartOn(rows, lots', FillId \ {cur})
    BY <1>2, <1>3, <2>1, ApartTakesOut
  <2>3. Abs(rows[cur].left - lots'[cur].left) = log[cur].qty
    <3>1. rows[cur].left = 0 /\ lots'[cur].left = log[cur].qty
      BY <1>2 DEF NoLot
    <3>2. log[cur].qty \in Nat \ {0}
      BY <1>2
    <3> QED
      BY <3>1, <3>2 DEF Abs
  <2> QED
    BY <1>7, <2>2, <2>3
<1>9. a \in Nat /\ b \in Nat /\ b <= a /\ q \in Nat
  <2>1. FillId \in SUBSET FillId /\ FillId \ {cur} \in SUBSET FillId
    OBVIOUS
  <2> QED
    BY <1>3, <2>1, TablesApart, BalanceTypes
<1>10. Behind = q + a
  <2>1. FillId \ {} = FillId
    OBVIOUS
  <2> QED
    BY <1>3, <2>1 DEF Behind
<1>11. Behind' = q + b /\ BehindAll' = q + (log[cur].qty + b)
  BY <1>1, <1>4, <1>7, <1>8, SumsOfNext
<1> HIDE DEF q, a, b
<1>12. failed \in Nat /\ Times(failed) \in Nat /\ Times(failed + 1) = Times(failed) + Unit
       /\ log[cur].qty \in Nat /\ log[cur].qty <= Unit /\ Unit \in Nat
  <2>1. failed \in Nat
    BY BalanceTypes
  <2>2. Times(failed) \in Nat /\ Times(failed + 1) = Times(failed) + Unit
    BY <2>1, TimesAdds
  <2>3. Unit \in Nat /\ MaxQty <= Unit /\ MaxQty \in Nat
    BY UnitIsEnough, SizeAssumption
  <2>4. log[cur].qty \in Nat /\ log[cur].qty <= Unit
    BY <1>2, <2>3
  <2> QED
    BY <2>1, <2>2, <2>3, <2>4
<1>13. Behind <= Times(failed)
  BY <1>3 DEF BalanceInv
<1>14. Behind' <= Times(failed)
  BY <1>9, <1>10, <1>11, <1>12, <1>13
<1>15. BehindAll' <= Times(failed + 1)
  BY <1>9, <1>10, <1>11, <1>12, <1>13
<1> QED
  BY <1>1, <1>3, <1>6, <1>14, <1>15 DEF BalanceInv

\* A sale is taken from the lots in memory, with the dust it leaves.
LEMMA SaleBalance ==
  ASSUME LedgerTypes, LedgerTypes', BalanceInv, CloseLots
  PROVE  BalanceInv'
<1>1. /\ UNCHANGED <<log, mode, cur, rows, booked, bookedRows, dropped, mishaps, failed>>
      /\ step = "lot" /\ step' = "write" /\ log[cur].side = "sell"
  BY DEF CloseLots, disk
<1>2. PICK d \in 0..Sliver :
        /\ dusted' = dusted + d
        /\ HeldIn(lots') = HeldIn(lots) - log[cur].qty - d
        /\ ApartOn(rows, lots', FillId)
             <= ApartOn(rows, lots, FillId) + log[cur].qty + d
  BY SaleIsSold
<1>3. /\ dirty' \in SUBSET FillId /\ \A f \in FillId \ dirty' : lots'[f] = lots[f]
  <2>1. PICK take \in Takes(log[cur].qty) :
          LET hit == {f \in OpenLots : take[f] > 0} IN
            /\ \A f \in FillId \ hit : lots'[f] = lots[f]
            /\ hit \subseteq FillId /\ dirty' = hit
    BY CloseLotsMoves DEF LedgerTypes
  <2> QED
    BY <2>1
<1>4. /\ mode # "down" /\ dirty = {}
      /\ lots \in [FillId -> Lot] /\ lots' \in [FillId -> Lot] /\ rows \in [FillId -> Lot]
  BY <1>1 DEF LedgerTypes, LedgerShape, TypeOK
<1>5. log[cur].qty \in Nat /\ log[cur].qty <= MaxQty /\ MaxQty \in Nat
  <2>1. log[cur] \in Fill
    BY <1>1, CurIsLogged DEF LedgerTypes, TypeOK
  <2> QED
    BY <2>1, SizeAssumption DEF Fill
<1>6. Unmarked' = Unmarked /\ Owed' = 0 /\ Owed = -log[cur].qty
  BY <1>1 DEF Unmarked, Owed, Signed
<1>7. d \in Nat /\ d <= Sliver /\ Sliver \in Nat /\ Unit \in Nat /\ Unit = MaxQty + Sliver
  BY UnitIsEnough DEF Unit
<1>8. MemoryBalance' - Owed' = MemoryBalance - Owed
  <2>1. MemoryBalance' = NetOf(log, bookedRows) + dropped - (dusted + d)
                           - (HeldIn(lots) - log[cur].qty - d)
    BY <1>1, <1>2, SumsOfNext
  <2>2. /\ NetOf(log, bookedRows) \in Int /\ dropped \in Int /\ dusted \in Int
        /\ HeldIn(lots) \in Int
    BY BalanceTypes
  <2> QED
    BY <1>5, <1>6, <1>7, <2>1, <2>2 DEF MemoryBalance
<1> DEFINE q == QtyOf(log, Unmarked)
           a == ApartOn(rows, lots, FillId)
           b == ApartOn(rows, lots, FillId \ dirty')
           c == ApartOn(rows, lots', FillId)
<1>9. ApartOn(rows, lots', FillId \ dirty') = b
  <2> DEFINE F == FillId \ dirty'
  <2>1. F \in SUBSET FillId /\ \A f \in F : lots'[f] = lots[f]
    BY <1>3
  <2> HIDE DEF F
  <2>2. ApartOn(rows, lots', F) = ApartOn(rows, lots, F)
    BY <2>1, ApartIsLocal
  <2> QED
    BY <2>2 DEF F
<1>10. a \in Nat /\ b \in Nat /\ b <= a /\ q \in Nat /\ c \in Nat
  <2> DEFINE F == FillId \ dirty'
  <2>1. FillId \in SUBSET FillId /\ F \in SUBSET FillId
    OBVIOUS
  <2> HIDE DEF F
  <2>2. /\ ApartOn(rows, lots, FillId) \in Nat /\ ApartOn(rows, lots, F) \in Nat
        /\ ApartOn(rows, lots, F) <= ApartOn(rows, lots, FillId)
        /\ ApartOn(rows, lots', FillId) \in Nat
    BY <1>4, <2>1, TablesApart
  <2> QED
    BY <2>2, BalanceTypes DEF F
<1>11. Behind = q + a
  <2>1. FillId \ {} = FillId
    OBVIOUS
  <2> QED
    BY <1>4, <2>1 DEF Behind
<1>12. Behind' = q + b /\ BehindAll' = q + c
  BY <1>1, <1>6, <1>9, SumsOfNext
<1>13. c <= a + log[cur].qty + d
  BY <1>2
<1> HIDE DEF q, a, b, c
<1>14. failed \in Nat /\ Times(failed) \in Nat /\ Times(failed + 1) = Times(failed) + Unit
  <2>1. failed \in Nat
    BY BalanceTypes
  <2> QED
    BY <2>1, TimesAdds
<1>15. Behind <= Times(failed)
  BY <1>4 DEF BalanceInv
<1>16. Behind' <= Times(failed)
  BY <1>10, <1>11, <1>12, <1>14, <1>15
<1>17. BehindAll' <= Times(failed + 1)
  BY <1>5, <1>7, <1>10, <1>11, <1>12, <1>13, <1>14, <1>15
<1> QED
  BY <1>1, <1>4, <1>8, <1>16, <1>17 DEF BalanceInv

\* A lot is written: its row is no longer apart from memory.
LEMMA PersistBalance ==
  ASSUME LedgerTypes, LedgerTypes', BalanceInv, PersistLot
  PROVE  BalanceInv'
<1>1. PICK f \in dirty, p \in Nat \ {0} :
           /\ f \in FillId
           /\ rows'[f].left = lots[f].left
           /\ \A g \in FillId \ {f} : rows'[g] = rows[g]
           /\ dirty' = dirty \ {f}
           /\ step' \in {"write", "score", "idle"}
  BY PersistLotMoves
<1>2. /\ UNCHANGED <<log, mode, cur, lots, booked, bookedRows, dropped, dusted,
                     mishaps, failed>>
      /\ step = "write"
  BY DEF PersistLot, history
<1>3. /\ mode # "down"
      /\ lots \in [FillId -> Lot] /\ rows' \in [FillId -> Lot] /\ rows \in [FillId -> Lot]
      /\ lots[f].left \in Int
  BY <1>1, <1>2, SizeAssumption DEF LedgerTypes, LedgerShape, TypeOK, Lot
<1>4. Unmarked' = Unmarked /\ Owed' = 0 /\ Owed = 0
  BY <1>1, <1>2 DEF Unmarked, Owed
<1>5. MemoryBalance' - Owed' = MemoryBalance - Owed
  BY <1>2, <1>4, SumsOfNext DEF MemoryBalance
<1>6. ASSUME NEW F \in SUBSET FillId, f \in F
      PROVE  ApartOn(rows', lots, F) = ApartOn(rows, lots, F \ {f})
  <2> DEFINE G == F \ {f}
  <2>1. G \in SUBSET FillId /\ \A g \in G : rows'[g] = rows[g]
    BY <1>1
  <2>2. ApartOn(rows', lots, F) = Abs(rows'[f].left - lots[f].left) + ApartOn(rows', lots, F \ {f})
        /\ ApartOn(rows', lots, F \ {f}) \in Nat
    BY <1>3, <1>6, ApartTakesOut
  <2>3. Abs(rows'[f].left - lots[f].left) = 0
    BY <1>1, <1>3 DEF Abs
  <2> HIDE DEF G
  <2>4. ApartOn(rows', lots, G) = ApartOn(rows, lots, G)
    BY <2>1, ApartIsLocal
  <2> DEFINE c == ApartOn(rows', lots, F \ {f})
  <2>5. ApartOn(rows', lots, F) = 0 + c /\ c \in Nat
    BY <2>2, <2>3
  <2>6. c = ApartOn(rows, lots, F \ {f})
    BY <2>4 DEF G
  <2> HIDE DEF c
  <2>7. ApartOn(rows', lots, F) = c
    BY <2>5
  <2> QED
    BY <2>6, <2>7
<1>7. Behind' = Behind
  <2> DEFINE F == FillId \ dirty'
  <2>1. F \in SUBSET FillId /\ f \in F /\ F \ {f} = FillId \ dirty
    BY <1>1
  <2> HIDE DEF F
  <2>2. ApartOn(rows', lots, F) = ApartOn(rows, lots, FillId \ dirty)
    BY <1>6, <2>1
  <2>3. ApartOn(rows', lots', FillId \ dirty') = ApartOn(rows, lots, FillId \ dirty)
    BY <1>2, <2>2 DEF F
  <2> QED
    BY <1>2, <1>4, <2>3, SumsOfNext DEF Behind
<1>8. BehindAll' <= BehindAll
  <2> DEFINE G == FillId \ {f}
  <2>1. G \in SUBSET FillId /\ FillId \in SUBSET FillId /\ f \in FillId
    BY <1>1
  <2>2. ApartOn(rows', lots, FillId) = ApartOn(rows, lots, G)
    BY <1>6, <2>1
  <2> HIDE DEF G
  <2>3. /\ ApartOn(rows, lots, G) <= ApartOn(rows, lots, FillId)
        /\ ApartOn(rows, lots, G) \in Nat /\ ApartOn(rows, lots, FillId) \in Nat
    BY <1>3, <2>1, TablesApart
  <2>4. BehindAll' = QtyOf(log, Unmarked) + ApartOn(rows, lots, G)
    BY <1>2, <1>4, <2>2, SumsOfNext
  <2>5. QtyOf(log, Unmarked) \in Nat
    BY BalanceTypes
  <2> QED
    BY <2>3, <2>4, <2>5 DEF BehindAll
<1>9. Behind \in Int
  BY BalanceTypes DEF Behind
<1> QED
  BY <1>2, <1>3, <1>5, <1>7, <1>8, <1>9, BalanceStays

\* A write fails: one more unit may be apart, and is counted as a mishap.
LEMMA FailBalance ==
  ASSUME LedgerTypes, LedgerTypes', BalanceInv, WriteFails
  PROVE  BalanceInv'
<1>1. /\ UNCHANGED <<log, cur, lots, rows, booked, bookedRows, dropped, dusted>>
      /\ step \in {"mark", "write"} /\ step' \in {"score", "idle"}
      /\ mode' = "up" /\ dirty' = {}
      /\ mishaps' = mishaps + 1 /\ failed' = failed + 1
  BY DEF WriteFails, Booked, disk
<1>2. mode # "down" /\ (step = "mark" => cur \in booked \ bookedRows /\ dirty = {})
  BY <1>1 DEF LedgerTypes, LedgerShape
<1>3. /\ mishaps \in Nat /\ failed \in Nat /\ Times(failed) \in Nat
      /\ Times(failed + 1) = Times(failed) + Unit /\ Unit \in Nat
      /\ MaxQty <= Unit /\ MaxQty \in Nat
  <2>1. mishaps \in Nat /\ failed \in Nat
    BY BalanceTypes
  <2> QED
    BY <2>1, TimesAdds, UnitIsEnough, SizeAssumption
<1>4. Within(MemoryBalance' - Owed', Times(mishaps' - failed'))
  <2>1. MemoryBalance' = MemoryBalance /\ Owed' = 0 /\ Owed = 0
    BY <1>1, SumsOfNext DEF MemoryBalance, Owed
  <2>2. mishaps' - failed' = mishaps - failed
    BY <1>1, <1>3
  <2> QED
    BY <1>2, <2>1, <2>2 DEF BalanceInv
<1> DEFINE a == ApartOn(rows, lots, FillId)
<1>5. Behind' = QtyOf(log, Unmarked') + a
  <2>1. FillId \ {} = FillId
    OBVIOUS
  <2> QED
    BY <1>1, <2>1, SumsOfNext
<1>6. a \in Nat /\ QtyOf(log, Unmarked) \in Nat
  <2>1. FillId \in SUBSET FillId
    OBVIOUS
  <2> QED
    BY <2>1, BalanceTypes
<1>7. CASE step = "mark"
  <2> DEFINE F == booked \ bookedRows
  <2>1. /\ F \in SUBSET FillId /\ cur \in F /\ \A n \in F : log[n] \in Fill
        /\ F \ {cur} = Unmarked /\ F = Unmarked'
    BY <1>1, <1>2, <1>7, CurIsLogged DEF LedgerTypes, TypeOK, Unmarked
  <2> HIDE DEF F
  <2>2. \A x \in F : QtyOf(log, F) = log[x].qty + QtyOf(log, F \ {x})
    BY <2>1, FillsAdd
  <2>3. \A x \in F : log[x].qty \in Nat /\ log[x].qty <= MaxQty
    BY <2>1, FillsAdd
  <2>4. QtyOf(log, F) = log[cur].qty + QtyOf(log, Unmarked)
        /\ log[cur].qty \in Nat /\ log[cur].qty <= MaxQty
    BY <2>1, <2>2, <2>3
  <2>5. Behind = QtyOf(log, Unmarked) + a
    <3>1. FillId \ {} = FillId
      OBVIOUS
    <3> QED
      BY <1>2, <1>7, <3>1 DEF Behind
  <2>6. Behind <= Times(failed)
    BY <1>2 DEF BalanceInv
  <2> HIDE DEF a
  <2>7. Behind' <= Times(failed) + Unit
    BY <1>3, <1>5, <1>6, <2>1, <2>4, <2>5, <2>6
  <2> QED
    BY <1>1, <1>3, <1>4, <2>7 DEF BalanceInv
<1>8. CASE step = "write"
  <2>1. Unmarked' = Unmarked
    BY <1>1, <1>8 DEF Unmarked
  <2>2. Behind' = BehindAll /\ BehindAll <= Times(failed + 1)
    BY <1>2, <1>5, <1>8, <2>1 DEF BehindAll, BalanceInv
  <2> QED
    BY <1>1, <2>2, <1>4 DEF BalanceInv
<1> QED
  BY <1>1, <1>7, <1>8

\* The process ends: what memory held beyond the rows is at most one unit for
\* each mishap.
LEMMA HaltBalance ==
  ASSUME LedgerTypes, LedgerTypes', BalanceInv, Stop \/ Crash
  PROVE  BalanceInv'
<1>1. /\ UNCHANGED <<log, rows, bookedRows, dropped, dusted>>
      /\ mode # "down" /\ mode' = "down"
      /\ mishaps' = (IF step = "idle" THEN mishaps ELSE mishaps + 1)
  BY DEF Stop, Crash, Halt, disk
<1> DEFINE k == mishaps - failed
           a == ApartOn(rows, lots, FillId)
           h == HeldIn(lots) - HeldIn(rows)
           e == MemoryBalance - Owed
<1>2. /\ mishaps \in Nat /\ failed \in 0..mishaps /\ failed \in Nat /\ k \in Nat
      /\ Times(k) \in Nat /\ Times(failed) \in Nat /\ Times(mishaps) = Times(k) + Times(failed)
      /\ Times(failed + 1) = Times(failed) + Unit /\ Times(mishaps + 1) = Times(mishaps) + Unit
      /\ Unit \in Nat /\ MaxQty <= Unit /\ MaxQty \in Nat
  <2>1. mishaps \in Nat /\ failed \in 0..mishaps
    BY BalanceTypes
  <2>2. k \in Nat /\ failed \in Nat
    BY <2>1
  <2> QED
    BY <2>1, <2>2, TimesAdds, UnitIsEnough, SizeAssumption
<1>3. DiskBalance' = e + Owed + h
  <2>1. DiskBalance' = NetOf(log, bookedRows) + dropped - dusted - HeldIn(rows)
    BY <1>1, SumsOfNext
  <2>2. /\ NetOf(log, bookedRows) \in Int /\ dropped \in Int /\ dusted \in Int
        /\ HeldIn(lots) \in Int /\ HeldIn(rows) \in Int /\ Owed \in Int
    BY BalanceTypes
  <2> QED
    BY <2>1, <2>2 DEF MemoryBalance
<1>4. /\ e \in Int /\ Owed \in Int /\ Within(Owed, MaxQty) /\ h \in Int
      /\ QtyOf(log, Unmarked) \in Nat /\ a \in Nat
  <2>1. FillId \in SUBSET FillId
    OBVIOUS
  <2> QED
    BY <2>1, BalanceTypes
<1>5. Within(h, a)
  <2>1. Within(HeldIn(rows) - HeldIn(lots), a)
    BY TablesApart DEF LedgerTypes, TypeOK
  <2>2. HeldIn(lots) \in Int /\ HeldIn(rows) \in Int
    BY BalanceTypes
  <2>3. HeldIn(rows) - HeldIn(lots) = -h
    BY <2>2
  <2> HIDE DEF h, a
  <2> QED
    BY <1>4, <2>1, <2>3 DEF Within
<1>6. Within(e, Times(k))
  BY <1>1 DEF BalanceInv
<1>7. step # "write" => a <= Times(failed)
  <2> SUFFICES ASSUME step # "write" PROVE a <= Times(failed)
    OBVIOUS
  <2>1. dirty = {} /\ FillId \ {} = FillId
    BY DEF LedgerTypes, LedgerShape
  <2>2. Behind = QtyOf(log, Unmarked) + a /\ Behind <= Times(failed)
    BY <1>1, <2>1 DEF Behind, BalanceInv
  <2> HIDE DEF a
  <2> QED
    BY <1>2, <1>4, <2>2
<1>8. step = "write" => a <= Times(failed) + Unit
  <2> SUFFICES ASSUME step = "write" PROVE a <= Times(failed) + Unit
    OBVIOUS
  <2>1. BehindAll = QtyOf(log, Unmarked) + a /\ BehindAll <= Times(failed) + Unit
    BY <1>1, <1>2 DEF BehindAll, BalanceInv
  <2> HIDE DEF a
  <2> QED
    BY <1>2, <1>4, <2>1
<1>9. step # "lot" => Owed = 0
  BY DEF Owed
<1> HIDE DEF k, a, h, e
<1>10. CASE step = "idle"
  <2>1. Within(DiskBalance', Times(mishaps))
    BY <1>2, <1>3, <1>4, <1>5, <1>6, <1>7, <1>9, <1>10 DEF Within
  <2> QED
    BY <1>1, <1>10, <2>1 DEF BalanceInv
<1>11. CASE step # "idle"
  <2>1. CASE step = "write"
    BY <1>1, <1>2, <1>3, <1>4, <1>5, <1>6, <1>8, <1>9, <1>11, <2>1 DEF Within, BalanceInv
  <2>2. CASE step # "write"
    BY <1>1, <1>2, <1>3, <1>4, <1>5, <1>6, <1>7, <1>11, <2>2 DEF Within, BalanceInv
  <2> QED
    BY <2>1, <2>2
<1> QED
  BY <1>10, <1>11

\* A start reads the rows back: memory is as far off as the disk is.
LEMMA StartBalance ==
  ASSUME LedgerTypes, LedgerTypes', BalanceInv, Start
  PROVE  BalanceInv'
<1>1. /\ UNCHANGED <<log, rows, bookedRows, dropped, dusted, mishaps, failed, step, cur, dirty>>
      /\ lots' = rows /\ booked' = bookedRows /\ mode = "down" /\ mode' # "down"
  BY DEF Start, disk, history
<1>2. step = "idle" /\ failed = 0 /\ dirty = {} /\ rows \in [FillId -> Lot]
      /\ mishaps \in Nat
  BY <1>1, BoundAssumption DEF LedgerTypes, LedgerShape, TypeOK
<1>3. MemoryBalance' = DiskBalance /\ Owed' = 0 /\ DiskBalance \in Int
  BY <1>1, <1>2, SumsOfNext, BalanceTypes DEF DiskBalance, Owed
<1>4. Within(MemoryBalance' - Owed', Times(mishaps' - failed'))
  <2>1. Within(DiskBalance, Times(mishaps))
    BY <1>1 DEF BalanceInv
  <2>2. mishaps' - failed' = mishaps /\ MemoryBalance' - Owed' = DiskBalance
    BY <1>1, <1>2, <1>3
  <2> QED
    BY <2>1, <2>2
<1>5. Behind' = 0
  <2> DEFINE g == Distance(rows, rows)
             q == [f \in FillId |-> log[f].qty]
  <2>1. \A f \in FillId : g[f] = 0
    <3> SUFFICES ASSUME NEW f \in FillId PROVE g[f] = 0
      OBVIOUS
    <3>1. rows[f].left \in Int
      BY <1>2, SizeAssumption DEF Lot
    <3> QED
      BY <3>1 DEF Distance, Abs
  <2> HIDE DEF g, q
  <2>2. SumOver(g, FillId) = 0
    BY <2>1, FillsAreFinite, SumOfZeros
  <2>3. ApartOn(rows, rows, FillId) = 0
    BY <2>2 DEF ApartOn, g
  <2>4. QtyOf(log, {}) = 0
    BY SumOfNothing DEF QtyOf
  <2>5. Unmarked' = {} /\ FillId \ {} = FillId
    BY <1>1 DEF Unmarked
  <2> QED
    BY <1>1, <1>2, <2>3, <2>4, <2>5, SumsOfNext
<1>6. Times(failed') = 0
  BY <1>1, <1>2, TimesAdds
<1> QED
  BY <1>1, <1>2, <1>4, <1>5, <1>6 DEF BalanceInv

\* At the start nothing is logged, booked or held.
LEMMA BalanceStart == Init => BalanceInv
<1> SUFFICES ASSUME Init PROVE BalanceInv
  OBVIOUS
<1>1. NetOf(log, {}) = 0
  BY SumOfNothing DEF NetOf
<1>2. HeldIn(rows) = 0
  <2> DEFINE g == [f \in FillId |-> rows[f].left]
  <2>1. \A f \in FillId : g[f] = 0
    BY DEF Init, NoLot
  <2> HIDE DEF g
  <2>2. SumOver(g, FillId) = 0
    BY <2>1, FillsAreFinite, SumOfZeros
  <2> QED
    BY <2>2 DEF HeldIn, g
<1>3. DiskBalance = 0
  BY <1>1, <1>2 DEF DiskBalance, Init
<1>4. mishaps = 0 /\ Times(0) = 0 /\ mode = "down"
  BY TimesAdds DEF Init
<1> QED
  BY <1>3, <1>4 DEF BalanceInv, Within

\* Every step keeps the books balanced.
LEMMA BalanceNext ==
  ASSUME LedgerTypes, BalanceInv, [Next]_vars PROVE BalanceInv'
<1>1. LedgerTypes'
  BY LedgerNext
<1>2. CASE UNCHANGED vars
  <2>1. UNCHANGED <<log, day, mode, step, cur, lots, booked, dirty, rows, bookedRows,
                    score, mishaps, failed, dropped, dusted>>
    BY <1>2 DEF vars, memory, disk, history
  <2>2. Unmarked' = Unmarked /\ Owed' = Owed
    BY <2>1 DEF Unmarked, Owed
  <2>3. /\ MemoryBalance' = MemoryBalance /\ DiskBalance' = DiskBalance
        /\ Behind' = Behind /\ BehindAll' = BehindAll
    BY <2>1, <2>2, SumsOfNext DEF MemoryBalance, DiskBalance, Behind, BehindAll
  <2> QED
    BY <2>1, <2>2, <2>3 DEF BalanceInv
<1>3. CASE NextDay /\ mode = "down"
  <2>1. UNCHANGED <<log, mode, rows, bookedRows, mishaps, dropped, dusted>>
    BY <1>3 DEF NextDay, memory, disk, history
  <2>2. DiskBalance' = DiskBalance
    BY <2>1, SumsOfNext DEF DiskBalance
  <2> QED
    BY <1>3, <2>1, <2>2 DEF BalanceInv
<1>4. CASE NextDay /\ mode # "down"
  BY <1>1, <1>4, QuietBalance
<1>5. CASE MarkInMemory \/ ScoreClosedLots \/ ReplayNext \/ ReplayEnds
  <2>1. mode # "down"
    BY <1>5 DEF MarkInMemory, ScoreClosedLots, ReplayNext, ReplayEnds, LedgerTypes, LedgerShape
  <2> QED
    BY <1>1, <1>5, <2>1, QuietBalance
<1>6. CASE LogFill \/ MarkOnDisk \/ TooLittleToClose \/ OpenLot \/ CloseLots
  BY <1>1, <1>6, LogFillBalance, MarkBalance, DropBalance, OpenBalance, SaleBalance
<1>7. CASE PersistLot \/ WriteFails \/ Stop \/ Crash \/ Start
  BY <1>1, <1>7, PersistBalance, FailBalance, HaltBalance, StartBalance
<1> QED
  BY <1>2, <1>3, <1>4, <1>5, <1>6, <1>7 DEF Next

\* What was bought and sold, as two totals.
LEMMA NetIsOfTotals ==
  ASSUME LedgerTypes, NEW F \in SUBSET Logged
  PROVE  NetOf(log, F) = Total(Buys(F)) - Total(Sells(F))
<1> DEFINE B == Buys(F)
           S == Sells(F)
           q == [f \in FillId |-> log[f].qty]
           s == [f \in FillId |-> Signed(log[f])]
           b == [f \in B |-> log[f].qty]
           c == [f \in S |-> log[f].qty]
           m == [f \in S |-> -log[f].qty]
           z == [f \in S |-> 0]
<1>1. \A f \in F : f \in FillId /\ log[f] \in Fill /\ log[f].qty \in Int
                   /\ log[f].side \in {"buy", "sell"}
  <2>1. \A f \in F : f \in FillId /\ log[f] \in Fill
    BY CurIsLogged DEF LedgerTypes
  <2> QED
    BY <2>1, SizeAssumption DEF Fill
<1>2. /\ B \cup S = F /\ B \cap S = {} /\ B \subseteq FillId /\ S \subseteq FillId
      /\ \A f \in B : f \in F /\ log[f].side = "buy"
      /\ \A f \in S : f \in F /\ log[f].side = "sell"
  BY <1>1 DEF Buys, Sells
<1>3. IsFiniteSet(B) /\ IsFiniteSet(S)
  BY <1>2, FillsAreFinite
<1>4. Total(B) = SumOver(b, B) /\ Total(S) = SumOver(c, S) /\ NetOf(log, F) = SumOver(s, F)
  BY DEF Total, SumOf, SumOver, NetOf
<1> HIDE DEF B, S
<1>5. \A f \in B : s[f] = b[f] /\ s[f] \in Int
  BY <1>1, <1>2 DEF Signed
<1>6. \A f \in S : s[f] = m[f] /\ s[f] \in Int /\ m[f] \in Int /\ c[f] \in Int
                   /\ z[f] = m[f] + c[f] /\ z[f] = 0
  BY <1>1, <1>2 DEF Signed
<1> HIDE DEF s, b, c, m, z
<1>7. SumOver(s, F) = SumOver(s, B) + SumOver(s, S)
  <2>1. \A f \in B \cup S : s[f] \in Int
    BY <1>5, <1>6
  <2>2. SumOver(s, B \cup S) = SumOver(s, B) + SumOver(s, S)
    BY <1>2, <1>3, <2>1, SumOfUnion
  <2> QED
    BY <1>2, <2>2
<1>8. SumOver(s, B) = SumOver(b, B) /\ SumOver(s, B) \in Int
  BY <1>3, <1>5, SumIsLocal, SumIsInt
<1>9. SumOver(s, S) = SumOver(m, S) /\ SumOver(m, S) \in Int /\ SumOver(c, S) \in Int
  BY <1>3, <1>6, SumIsLocal, SumIsInt
<1>10. SumOver(z, S) = SumOver(m, S) + SumOver(c, S)
  BY <1>3, <1>6, SumOfSums
<1>11. SumOver(z, S) = 0
  BY <1>3, <1>6, SumOfZeros
<1>12. SumOver(s, F) = SumOver(b, B) - SumOver(c, S)
  BY <1>7, <1>8, <1>9, <1>10, <1>11
<1> QED
  BY <1>4, <1>12 DEF B, S

\* Between two fills the books are as far off as the mishaps allow.
LEMMA BooksBalance ==
  ASSUME LedgerTypes, BalanceInv PROVE LotsAddUp
<1> USE DEF LedgerTypes
<1> DEFINE net == Total(Buys(booked)) - Total(Sells(booked)) + dropped - dusted
           F == booked \ bookedRows
           k == mishaps - failed
<1> SUFFICES ASSUME Quiet PROVE net - OpenQty \in -(mishaps * Unit)..(mishaps * Unit)
  BY DEF LotsAddUp, Unit
<1>1. mode # "down" /\ step = "idle" /\ bookedRows \subseteq booked
  BY DEF Quiet, LedgerShape
<1>2. booked \in SUBSET Logged /\ bookedRows \in SUBSET Logged /\ F \in SUBSET Logged
      /\ bookedRows \cap F = {} /\ bookedRows \cup F = booked
  BY <1>1 DEF TypeOK
<1>3. Unmarked = F /\ Owed = 0 /\ dirty = {}
  BY <1>1 DEF Unmarked, Owed, LedgerShape
<1> HIDE DEF F
<1>4. \A n \in booked : n \in FillId /\ log[n] \in Fill
  BY <1>2, CurIsLogged
<1>5. NetOf(log, booked) = NetOf(log, bookedRows) + NetOf(log, F)
  <2>1. bookedRows \in SUBSET FillId /\ F \in SUBSET FillId
        /\ \A n \in bookedRows \cup F : log[n] \in Fill
    BY <1>2, <1>4
  <2>2. NetOf(log, bookedRows \cup F) = NetOf(log, bookedRows) + NetOf(log, F)
    BY <1>2, <2>1, FillsJoin
  <2> QED
    BY <1>2, <2>2
<1>6. Within(NetOf(log, F), QtyOf(log, F)) /\ NetOf(log, F) \in Int /\ QtyOf(log, F) \in Nat
  <2>1. F \in SUBSET FillId /\ \A n \in F : log[n] \in Fill
    BY <1>2, <1>4
  <2> QED
    BY <2>1, FillsAdd
<1>7. NetOf(log, booked) = Total(Buys(booked)) - Total(Sells(booked))
  BY <1>2, NetIsOfTotals
<1> DEFINE t == Total(Buys(booked)) - Total(Sells(booked))
           a == ApartOn(rows, lots, FillId)
<1>8. /\ NetOf(log, bookedRows) \in Int /\ dropped \in Int /\ dusted \in Int
      /\ HeldIn(lots) \in Int /\ MemoryBalance \in Int
      /\ mishaps \in Nat /\ failed \in 0..mishaps /\ failed \in Nat /\ a \in Nat
  <2>1. FillId \in SUBSET FillId
    OBVIOUS
  <2> QED
    BY <1>2, <2>1, BalanceTypes
<1>9. net - OpenQty = MemoryBalance + NetOf(log, F)
  <2>1. net = t + dropped - dusted /\ t = NetOf(log, bookedRows) + NetOf(log, F)
    BY <1>5, <1>7
  <2>2. OpenQty = HeldIn(lots)
    BY OpenIsHeld
  <2> HIDE DEF t, net
  <2> QED
    BY <1>6, <1>8, <2>1, <2>2 DEF MemoryBalance
<1>10. Within(MemoryBalance, Times(k))
  <2>1. Within(MemoryBalance - Owed, Times(k))
    BY <1>1 DEF BalanceInv
  <2>2. MemoryBalance - Owed = MemoryBalance
    BY <1>3, <1>8
  <2> QED
    BY <2>1, <2>2
<1>11. QtyOf(log, F) <= Times(failed)
  <2>1. FillId \ {} = FillId
    OBVIOUS
  <2>2. QtyOf(log, F) + a <= Times(failed)
    BY <1>1, <1>3, <2>1 DEF BalanceInv, Behind
  <2>3. Times(failed) \in Nat
    BY <1>8, TimesAdds
  <2> HIDE DEF a
  <2> QED
    BY <1>6, <1>8, <2>2, <2>3
<1>12. /\ Times(mishaps) = Times(k) + Times(failed) /\ k \in Nat
       /\ Times(k) \in Nat /\ Times(failed) \in Nat
  <2>1. k \in Nat
    BY <1>8
  <2>2. Times(mishaps) = Times(mishaps - failed) + Times(failed)
    BY <1>8, TimesAdds
  <2>3. Times(failed) \in Nat
    BY <1>8, TimesAdds
  <2> HIDE DEF k
  <2>4. Times(k) \in Nat
    BY <2>1, TimesAdds
  <2> QED
    BY <2>1, <2>2, <2>3, <2>4 DEF k
<1> HIDE DEF net, k
<1>13. Within(net - OpenQty, Times(mishaps)) /\ net - OpenQty \in Int
       /\ Times(mishaps) \in Nat
  BY <1>6, <1>8, <1>9, <1>10, <1>11, <1>12 DEF Within
<1> DEFINE x == net - OpenQty
           y == Times(mishaps)
<1>14. x \in Int /\ y \in Int /\ -y <= x /\ x <= y
  BY <1>13 DEF Within
<1> HIDE DEF x, y
<1>15. x \in -y..y
  BY <1>14
<1> QED
  BY <1>15 DEF x, y, Times

\* LotsAddUp: what the open lots hold is what the booked fills bought and sold,
\* up to one fill and its sliver per crash or failed write.
THEOREM BooksAddUp == Spec => []LotsAddUp
<1>1. Init => LedgerTypes /\ BalanceInv
  BY LedgerInit, BalanceStart
<1>2. LedgerTypes /\ BalanceInv /\ [Next]_vars => (LedgerTypes /\ BalanceInv)'
  BY LedgerNext, BalanceNext
<1>3. LedgerTypes /\ BalanceInv => LotsAddUp
  BY BooksBalance
<1> QED
  BY <1>1, <1>2, <1>3, PTL DEF Spec

-----------------------------------------------------------------------------
(* Both profits of a sleeve are what its fills earned *)

\* The log is in the order of its dates, and fills are booked in its order.
Ordered ==
  \A m, n \in Logged : m <= n => log[m].day <= log[n].day /\ log[n].day <= day
InOrder == mode = "replay" \/ step # "idle" => bookedRows \subseteq 1..cur

\* The fills whose lots are opened or closed in memory.
Settled == bookedRows \ (IF step = "lot" THEN {cur} ELSE {})

\* Table t holds the lots of the fills S of log l: one per buy, closed by sales,
\* and sold the oldest day first.
TableHolds(t, l, S) ==
  /\ \A f \in FillId : t[f].pos # 0 <=> f \in S /\ l[f].side = "buy"
  /\ \A f \in FillId : t[f].exit # 0 =>
       t[f].exit \in S /\ l[t[f].exit].side = "sell"
  /\ \A f \in FillId : t[f].pos # 0 => t[f].left <= l[f].qty
  /\ \A f, g \in FillId :
       t[f].pos # 0 /\ t[g].pos # 0 /\ l[f].day < l[g].day /\ t[g].left < l[g].qty
         => t[f].left = 0

\* No prefix of the log l, as far as it was settled, sells more than it buys.
NeverShort(l, S) == \A n \in DOMAIN l : 1..n \subseteq S => NetOf(l, 1..n) \in Nat

ProfitInv ==
  /\ Ordered /\ InOrder
  /\ mishaps = 0 =>
       /\ mode = "down" => TableHolds(rows, log, Settled)
       /\ mode # "down" => TableHolds(lots, log, Settled)
       /\ dropped = 0 /\ dusted = 0 => NeverShort(log, Settled)

LedgerProfits == LedgerTypes /\ DiskFollowsMemory /\ BalanceInv /\ ProfitInv

\* The dates of the log stay in order: a fill has the date it is logged on.
LEMMA OrderedNext ==
  ASSUME LedgerTypes, Ordered, [Next]_vars PROVE Ordered'
<1> USE DEF LedgerTypes
<1>1. CASE LogFill
  <2>1. /\ Logged' = Logged \cup {cur'} /\ cur' = Len(log) + 1 /\ day' = day
        /\ \A n \in Logged : log'[n] = log[n]
        /\ log'[cur'].day = day
    BY <1>1, LogGrows DEF LogFill
  <2>2. Logged = 1..Len(log) /\ Len(log) \in Nat
    BY CurIsLogged
  <2>3. day \in Int
    BY BoundAssumption DEF TypeOK
  <2> SUFFICES ASSUME NEW m \in Logged', NEW n \in Logged', m <= n
               PROVE  log'[m].day <= log'[n].day /\ log'[n].day <= day'
    BY DEF Ordered
  <2>4. CASE n \in Logged
    BY <2>1, <2>2, <2>4 DEF Ordered
  <2>5. CASE n \notin Logged
    <3>1. n = cur' /\ log'[n].day = day
      BY <2>1, <2>5
    <3>2. CASE m \in Logged
      <4>1. log[m].day <= day
        BY <2>2, <3>2 DEF Ordered
      <4> QED
        BY <2>1, <2>3, <3>1, <3>2, <4>1
    <3>3. CASE m \notin Logged
      BY <2>1, <2>3, <3>1, <3>3
    <3> QED
      BY <3>2, <3>3
  <2> QED
    BY <2>4, <2>5
<1>2. CASE NextDay
  <2>1. log' = log /\ Logged' = Logged /\ day' = day + 1
    BY <1>2 DEF NextDay, Logged
  <2>2. day \in Int
    BY BoundAssumption DEF TypeOK
  <2>3. \A n \in Logged : log[n].day \in Int
    BY CurIsLogged, BoundAssumption DEF Fill
  <2> QED
    BY <2>1, <2>2, <2>3 DEF Ordered
<1>3. CASE ~(LogFill \/ NextDay)
  <2>1. log' = log /\ day' = day
    BY <1>3 DEF Next, MarkInMemory, MarkOnDisk, OpenLot, CloseLots, TooLittleToClose,
       PersistLot, WriteFails, ScoreClosedLots, Stop, Crash, Halt, Start, ReplayNext,
       ReplayEnds, vars, memory, disk, history
  <2> QED
    BY <2>1 DEF Ordered, Logged
<1> QED
  BY <1>1, <1>2, <1>3

\* A fill is booked after those before it in the log.
LEMMA InOrderNext ==
  ASSUME LedgerTypes, InOrder, [Next]_vars PROVE InOrder'
<1> USE DEF LedgerTypes
<1>1. Logged = 1..Len(log) /\ Len(log) \in Nat /\ bookedRows \subseteq Logged
  BY CurIsLogged DEF TypeOK
<1>2. cur \in Nat
  BY SizeAssumption DEF TypeOK
<1>3. CASE LogFill
  <2>1. cur' = Len(log) + 1 /\ bookedRows' = bookedRows
    BY <1>3 DEF LogFill, disk
  <2> QED
    BY <1>1, <2>1 DEF InOrder
<1>4. CASE MarkOnDisk
  <2>1. bookedRows' = bookedRows \cup {cur} /\ cur' = cur /\ bookedRows \subseteq 1..cur
    BY <1>4 DEF MarkOnDisk, InOrder
  <2>2. cur \in Logged
    BY <1>4 DEF MarkOnDisk, TypeOK
  <2> QED
    BY <1>1, <1>2, <2>1, <2>2 DEF InOrder
<1>5. CASE ReplayNext
  <2>1. cur' = cur + 1 /\ bookedRows' = bookedRows /\ bookedRows \subseteq 1..cur
    BY <1>5 DEF ReplayNext, disk, InOrder
  <2> QED
    BY <1>2, <2>1 DEF InOrder
<1>6. CASE Start
  <2>1. mode' = "replay" => bookedRows' = {}
    BY <1>6 DEF Start, disk
  <2>2. step' = "idle"
    BY <1>6 DEF Start, LedgerShape
  <2> QED
    BY <2>1, <2>2 DEF InOrder
<1>7. CASE Stop \/ Crash
  BY <1>7 DEF Stop, Crash, Halt, InOrder
<1>8. CASE ~(LogFill \/ MarkOnDisk \/ ReplayNext \/ Start \/ Stop \/ Crash)
  <2>1. /\ bookedRows' = bookedRows /\ cur' = cur
        /\ mode' = "replay" => mode = "replay"
        /\ step' # "idle" => step # "idle"
    BY <1>8 DEF Next, NextDay, MarkInMemory, Booked, OpenLot, CloseLots,
       TooLittleToClose, PersistLot, WriteFails, ScoreClosedLots,
       ReplayEnds, vars, memory, disk, history
  <2> QED
    BY <2>1 DEF InOrder
<1> QED
  BY <1>3, <1>4, <1>5, <1>6, <1>7, <1>8

\* A table that says the same of the same fills.
LEMMA TableIsLocal ==
  ASSUME NEW t, NEW u, NEW l, NEW m, NEW S, TableHolds(t, l, S),
         \A f \in FillId : /\ u[f].left = t[f].left /\ u[f].exit = t[f].exit
                           /\ u[f].pos # 0 <=> t[f].pos # 0,
         \A n \in S : m[n] = l[n]
  PROVE  TableHolds(u, m, S)
BY DEF TableHolds

\* A log that has grown has the same prefixes settled.
LEMMA PrefixIsLocal ==
  ASSUME LedgerTypes, NEW m, NEW S, S \subseteq Logged, NeverShort(log, S),
         \A n \in Logged : m[n] = log[n], \A n \in DOMAIN m : n \in Nat \ {0}
  PROVE  NeverShort(m, S)
<1> SUFFICES ASSUME NEW n \in DOMAIN m, 1..n \subseteq S
             PROVE  NetOf(m, 1..n) \in Nat
  BY DEF NeverShort
<1>1. n \in 1..n
  OBVIOUS
<1>2. n \in Logged /\ 1..n \subseteq Logged
  BY <1>1
<1>3. 1..n \in SUBSET FillId /\ \A k \in 1..n : m[k] = log[k]
  BY <1>2, CurIsLogged DEF LedgerTypes
<1>4. NetOf(m, 1..n) = NetOf(log, 1..n)
  BY <1>3, FillsAreLocal
<1> QED
  BY <1>2, <1>4 DEF NeverShort, Logged

\* What a process without a mishap has settled.
LEMMA SettledIs ==
  ASSUME LedgerTypes
  PROVE  /\ Settled \subseteq bookedRows /\ Settled \subseteq Logged
         /\ step # "lot" => Settled = bookedRows
         /\ step = "lot" => bookedRows = Settled \cup {cur} /\ cur \notin Settled
BY DEF LedgerTypes, TypeOK, LedgerShape, Settled

\* A step that leaves the lots, the rows and the settled fills alone.
LEMMA ProfitStays ==
  ASSUME LedgerProfits, LedgerTypes', Ordered', InOrder', mishaps' = mishaps,
         Settled' = Settled, \A n \in Logged : log'[n] = log[n],
         lots' = lots, rows' = rows, mode = "down" <=> mode' = "down",
         dropped' = 0 => dropped = 0, dusted' = 0 => dusted = 0
  PROVE  ProfitInv'
<1> USE DEF LedgerProfits
<1> SUFFICES ASSUME mishaps = 0
             PROVE  /\ mode' = "down" => TableHolds(rows', log', Settled')
                    /\ mode' # "down" => TableHolds(lots', log', Settled')
                    /\ dropped' = 0 /\ dusted' = 0 => NeverShort(log', Settled')
  BY DEF ProfitInv
<1>1. Settled \subseteq Logged /\ \A n \in Settled : log'[n] = log[n]
  BY SettledIs
<1>2. TableHolds(rows, log, Settled) => TableHolds(rows', log', Settled')
  BY <1>1 DEF TableHolds
<1>3. TableHolds(lots, log, Settled) => TableHolds(lots', log', Settled')
  BY <1>1 DEF TableHolds
<1>4. \A n \in DOMAIN log' : n \in Nat \ {0}
  BY DEF LedgerTypes, TypeOK
<1>5. NeverShort(log, Settled) => NeverShort(log', Settled)
  BY <1>1, <1>4, PrefixIsLocal
<1> QED
  BY <1>2, <1>3, <1>5 DEF ProfitInv

\* The steps that settle nothing.
LEMMA ProfitQuiet ==
  ASSUME LedgerProfits, LedgerTypes', Ordered', InOrder',
         \/ UNCHANGED vars \/ LogFill \/ NextDay \/ MarkInMemory \/ MarkOnDisk
         \/ ScoreClosedLots \/ ReplayNext \/ ReplayEnds
  PROVE  ProfitInv'
<1> USE DEF LedgerProfits
<1>1. \A n \in Logged : log'[n] = log[n]
  <2>1. CASE LogFill
    BY <2>1, LogGrows DEF LedgerTypes
  <2>2. CASE ~LogFill
    <3>1. log' = log
      BY <2>2 DEF NextDay, MarkInMemory, MarkOnDisk, ScoreClosedLots, ReplayNext,
         ReplayEnds, vars
    <3> QED
      BY <3>1
  <2> QED
    BY <2>1, <2>2
<1>2. /\ lots' = lots /\ rows' = rows /\ mishaps' = mishaps
      /\ dropped' = dropped /\ dusted' = dusted
      /\ mode = "down" <=> mode' = "down"
  BY DEF LedgerTypes, LedgerShape, LogFill, NextDay, MarkInMemory, MarkOnDisk,
     ScoreClosedLots, ReplayNext, ReplayEnds, vars, memory, disk, history
<1>3. Settled' = Settled
  <2>1. CASE MarkOnDisk
    <3>1. /\ step = "mark" /\ step' = "lot" /\ cur' = cur
          /\ bookedRows' = bookedRows \cup {cur} /\ cur \notin bookedRows
      BY <2>1 DEF MarkOnDisk, LedgerTypes, LedgerShape
    <3> QED
      BY <3>1 DEF Settled
  <2>2. CASE ~MarkOnDisk
    <3>1. /\ bookedRows' = bookedRows
          /\ (step # "lot" /\ step' # "lot") \/ (step' = step /\ cur' = cur)
      BY <2>2 DEF LogFill, NextDay, MarkInMemory, Booked, ScoreClosedLots, ReplayNext,
         ReplayEnds, vars, memory, disk, history
    <3> QED
      BY <3>1 DEF Settled
  <2> QED
    BY <2>1, <2>2
<1> QED
  BY <1>1, <1>2, <1>3, ProfitStays

\* Without a mishap the lots hold what was settled, if no sale was passed over
\* and no dust was dropped.
LEMMA HeldIsNet ==
  ASSUME LedgerTypes, BalanceInv, mishaps = 0, mode # "down", step # "lot",
         dropped = 0, dusted = 0
  PROVE  NetOf(log, bookedRows) \in Nat /\ HeldIn(lots) = NetOf(log, bookedRows)
<1>1. failed = 0 /\ mishaps - failed = 0
  BY BalanceTypes
<1>2. Times(0) = 0 /\ Owed = 0
  BY TimesAdds DEF Owed
<1>3. NetOf(log, bookedRows) \in Int /\ HeldIn(lots) \in Int /\ MemoryBalance \in Int
  BY BalanceTypes
<1>4. Within(MemoryBalance - Owed, 0)
  BY <1>1, <1>2 DEF BalanceInv
<1>5. MemoryBalance = 0
  BY <1>2, <1>3, <1>4 DEF Within
<1>6. NetOf(log, bookedRows) - HeldIn(lots) = 0
  BY <1>3, <1>5 DEF MemoryBalance
<1>7. HeldIn(lots) \in Nat
  <2> DEFINE g == [f \in FillId |-> lots[f].left]
  <2>1. \A f \in FillId : g[f] \in Nat
    BY SizeAssumption DEF LedgerTypes, TypeOK, Lot
  <2> HIDE DEF g
  <2>2. SumOver(g, FillId) \in Nat
    BY <2>1, FillsAreFinite, SumIsNat
  <2> QED
    BY <2>2 DEF HeldIn, g
<1> QED
  BY <1>3, <1>6, <1>7

\* One more fill is settled: no prefix sells more than it buys.
LEMMA PrefixSettles ==
  ASSUME LedgerProfits, LedgerTypes', BalanceInv', step = "lot", step' # "lot",
         mode' # "down", mishaps = 0, mishaps' = 0, log' = log, bookedRows' = bookedRows,
         dropped' = 0, dusted' = 0, dropped = 0, dusted = 0
  PROVE  NeverShort(log', Settled')
<1> USE DEF LedgerProfits
<1>1. bookedRows = Settled \cup {cur} /\ Settled' = bookedRows /\ cur \in Logged
  BY SettledIs DEF LedgerTypes, TypeOK, Settled
<1>2. bookedRows \subseteq 1..cur
  BY DEF ProfitInv, InOrder
<1>3. NeverShort(log, Settled)
  BY DEF ProfitInv
<1>4. NetOf(log, bookedRows) \in Nat
  <2>1. NetOf(log', bookedRows') \in Nat
    <3>1. failed' = 0 /\ mishaps' - failed' = 0
      BY DEF LedgerTypes, TypeOK
    <3>2. Times(0) = 0 /\ Owed' = 0
      BY TimesAdds DEF Owed
    <3>3. NetOf(log', bookedRows') \in Int
      <4>1. log' = log /\ bookedRows' = bookedRows
        OBVIOUS
      <4> QED
        BY <4>1, BalanceTypes
    <3>4. lots' \in [FillId -> Lot]
      BY DEF LedgerTypes, TypeOK
    <3> DEFINE g == [f \in FillId |-> lots'[f].left]
    <3>5. \A f \in FillId : g[f] \in Nat
      BY <3>4, SizeAssumption DEF Lot
    <3> HIDE DEF g
    <3>6. SumOver(g, FillId) \in Nat
      BY <3>5, FillsAreFinite, SumIsNat
    <3>7. HeldIn(lots') \in Nat
      BY <3>6 DEF HeldIn, g
    <3>8. Within(MemoryBalance' - Owed', 0)
      BY <3>1, <3>2 DEF BalanceInv
    <3>9. MemoryBalance' = NetOf(log', bookedRows') - HeldIn(lots')
      BY <3>3, <3>7, SumsOfNext
    <3> QED
      BY <3>2, <3>3, <3>7, <3>8, <3>9 DEF Within
  <2> QED
    BY <2>1
<1> SUFFICES ASSUME NEW n \in Logged, 1..n \subseteq bookedRows
             PROVE  NetOf(log, 1..n) \in Nat
  BY <1>1 DEF NeverShort, Logged
<1>5. Logged = 1..Len(log) /\ Len(log) \in Nat
  BY CurIsLogged DEF LedgerTypes
<1>6. CASE cur \in 1..n
  <2>1. n \in bookedRows
    BY <1>5
  <2>2. n = cur
    BY <1>1, <1>2, <1>5, <1>6, <2>1
  <2>3. bookedRows = 1..n
    BY <1>2, <2>2
  <2> QED
    BY <1>4, <2>3
<1>7. CASE cur \notin 1..n
  BY <1>1, <1>3, <1>7 DEF NeverShort, Logged
<1> QED
  BY <1>6, <1>7

\* A buy opens its lot, behind the lots of older days.
LEMMA OpenLotProfit ==
  ASSUME LedgerProfits, LedgerTypes', BalanceInv', Ordered', InOrder', OpenLot
  PROVE  ProfitInv'
<1> USE DEF LedgerProfits
<1>1. /\ step = "lot" /\ step' = "write" /\ log[cur].side = "buy"
      /\ UNCHANGED <<log, mode, rows, bookedRows, mishaps, dropped, dusted>>
  BY DEF OpenLot, disk, history
<1>2. mode # "down"
  BY <1>1 DEF LedgerTypes, LedgerShape
<1> SUFFICES ASSUME mishaps = 0
             PROVE  /\ TableHolds(lots', log', Settled')
                    /\ dropped' = 0 /\ dusted' = 0 => NeverShort(log', Settled')
  BY <1>1, <1>2 DEF ProfitInv
<1>3. bookedRows = Settled \cup {cur} /\ Settled' = bookedRows /\ cur \notin Settled
  BY <1>1, SettledIs DEF Settled
<1>4. dropped' = 0 /\ dusted' = 0 => NeverShort(log', Settled')
  BY <1>1, <1>2, PrefixSettles
<1>5. /\ lots'[cur].left = log[cur].qty /\ lots'[cur].exit = 0
      /\ lots'[cur].pos # 0 /\ cur \in FillId
      /\ \A f \in FillId \ {cur} : lots'[f] = lots[f]
  BY OpenLotMoves
<1>6. TableHolds(lots, log, Settled)
  BY <1>2 DEF ProfitInv
<1>7. \A f \in Settled : f \in Logged /\ f < cur
  <2>1. bookedRows \subseteq 1..cur /\ Settled \subseteq Logged
    BY <1>1, SettledIs DEF ProfitInv, InOrder
  <2>2. cur \in Nat
    BY SizeAssumption DEF LedgerTypes, TypeOK
  <2> QED
    BY <1>3, <2>1, <2>2
<1>8. cur \in Logged /\ Logged = 1..Len(log) /\ Len(log) \in Nat
  BY <1>1, CurIsLogged DEF LedgerTypes, TypeOK
<1>9. \A f \in Settled : ~(log[cur].day < log[f].day)
  <2>1. \A f \in Settled : log[f].day <= log[cur].day
    BY <1>7, <1>8 DEF ProfitInv, Ordered
  <2>2. \A n \in Logged : log[n].day \in Int
    BY CurIsLogged, BoundAssumption DEF LedgerTypes, Fill
  <2> QED
    BY <1>7, <1>8, <2>1, <2>2
<1>10. log[cur].qty \in Int
  BY <1>8, CurIsLogged, SizeAssumption DEF LedgerTypes, Fill
<1>11. \A f \in FillId : lots'[f].pos # 0 <=> f \in Settled' /\ log'[f].side = "buy"
  BY <1>1, <1>3, <1>5, <1>6 DEF TableHolds
<1>12. \A f \in FillId : lots'[f].exit # 0 =>
         lots'[f].exit \in Settled' /\ log'[lots'[f].exit].side = "sell"
  BY <1>1, <1>3, <1>5, <1>6 DEF TableHolds
<1>13. \A f \in FillId : lots'[f].pos # 0 => lots'[f].left <= log'[f].qty
  BY <1>1, <1>5, <1>6, <1>10 DEF TableHolds
<1>14. ASSUME NEW f \in FillId, NEW g \in FillId, lots'[f].pos # 0, lots'[g].pos # 0,
              log'[f].day < log'[g].day, lots'[g].left < log'[g].qty
       PROVE  lots'[f].left = 0
  <2>1. g # cur
    BY <1>1, <1>5, <1>10, <1>14
  <2>2. lots'[g] = lots[g] /\ g \in Settled
    BY <1>3, <1>5, <1>11, <1>14, <2>1
  <2>3. f # cur
    BY <1>1, <1>9, <1>14, <2>2
  <2> QED
    BY <1>1, <1>5, <1>6, <1>14, <2>2, <2>3 DEF TableHolds
<1>15. TableHolds(lots', log', Settled')
  BY <1>11, <1>12, <1>13, <1>14 DEF TableHolds
<1> QED
  BY <1>4, <1>15

\* A sale closes what it empties, and takes nothing from a lot while one of an
\* older day has something left.
LEMMA CloseLotsProfit ==
  ASSUME LedgerProfits, LedgerTypes', BalanceInv', Ordered', InOrder', CloseLots
  PROVE  ProfitInv'
<1> USE DEF LedgerProfits
<1>1. /\ step = "lot" /\ step' = "write" /\ log[cur].side = "sell"
      /\ UNCHANGED <<log, mode, rows, bookedRows, mishaps, dropped>>
  BY DEF CloseLots, disk
<1>2. mode # "down"
  BY <1>1 DEF LedgerTypes, LedgerShape
<1> SUFFICES ASSUME mishaps = 0
             PROVE  /\ TableHolds(lots', log', Settled')
                    /\ dropped' = 0 /\ dusted' = 0 => NeverShort(log', Settled')
  BY <1>1, <1>2 DEF ProfitInv
<1>3. bookedRows = Settled \cup {cur} /\ Settled' = bookedRows /\ cur \notin Settled
  BY <1>1, SettledIs DEF Settled
<1>16. dusted' = 0 => dusted = 0
  <2>1. PICK d \in 0..Sliver : dusted' = dusted + d
    BY SaleIsSold
  <2>2. Sliver \in Nat /\ dusted \in Nat
    BY UnitIsEnough DEF LedgerTypes, TypeOK
  <2> QED
    BY <2>1, <2>2
<1>4. dropped' = 0 /\ dusted' = 0 => NeverShort(log', Settled')
  BY <1>1, <1>2, <1>16, PrefixSettles
<1>5. PICK take \in Takes(log[cur].qty) :
        LET hit == {h \in OpenLots : take[h] > 0} IN
          /\ \A h \in hit : /\ lots'[h].left = Left(h, take[h])
                            /\ lots'[h].exit = IF Left(h, take[h]) = 0 THEN cur ELSE 0
                            /\ lots'[h].pos = lots[h].pos
          /\ \A h \in FillId \ hit : lots'[h] = lots[h]
  BY CloseLotsMoves
<1> DEFINE hit == {h \in OpenLots : take[h] > 0}
<1>6. TableHolds(lots, log, Settled)
  BY <1>2 DEF ProfitInv
<1>7. \A f \in FillId : lots[f].left \in Nat
  BY SizeAssumption DEF LedgerTypes, TypeOK, Lot
<1>8. /\ \A f \in OpenLots : take[f] \in Nat /\ take[f] <= lots[f].left /\ f \in FillId
      /\ \A f, g \in OpenLots : Before(f, g) /\ take[g] > 0 => take[f] = lots[f].left
  BY <1>1, SaleIsOfOpenLots DEF LedgerTypes, OpenLots
<1>9. \A f \in hit : lots'[f].left \in Nat /\ lots'[f].left <= lots[f].left
  <2> SUFFICES ASSUME NEW f \in hit
               PROVE  lots'[f].left \in Nat /\ lots'[f].left <= lots[f].left
    OBVIOUS
  <2>1. Left(f, take[f]) \in 0..(lots[f].left - take[f])
    BY <1>7, <1>8, LeftIsLess
  <2>2. lots'[f].left = Left(f, take[f])
    BY <1>5
  <2> QED
    BY <1>7, <1>8, <2>1, <2>2
<1>17. hit \subseteq FillId
  BY DEF OpenLots
<1>18. \A f \in FillId : f \in Settled => log[f].side = "buy" \/ log[f].side = "sell"
  BY SettledIs, CurIsLogged DEF LedgerTypes, Fill
<1>19. \A f \in FillId : lots'[f].pos = lots[f].pos
  BY <1>5
<1>11. \A f \in FillId : lots'[f].pos # 0 <=> f \in Settled' /\ log'[f].side = "buy"
  BY <1>1, <1>3, <1>6, <1>19 DEF TableHolds
<1>12. \A f \in FillId : lots'[f].exit # 0 =>
         lots'[f].exit \in Settled' /\ log'[lots'[f].exit].side = "sell"
  BY <1>1, <1>3, <1>5, <1>6 DEF TableHolds
<1>13. \A f \in FillId : lots'[f].pos # 0 => lots'[f].left <= log'[f].qty
  <2> SUFFICES ASSUME NEW f \in FillId, lots'[f].pos # 0
               PROVE  lots'[f].left <= log[f].qty
    BY <1>1
  <2>1. lots[f].left <= log[f].qty
    BY <1>6, <1>19 DEF TableHolds
  <2>2. log[f].qty \in Int
    BY <1>1, <1>3, <1>11, CurIsLogged, SettledIs, SizeAssumption DEF LedgerTypes, TypeOK, Fill
  <2>3. CASE f \in hit
    <3>1. lots'[f].left \in Nat /\ lots'[f].left <= lots[f].left
      BY <1>9, <2>3
    <3> QED
      BY <1>7, <2>1, <2>2, <3>1
  <2>4. CASE f \notin hit
    BY <1>5, <2>1, <2>4
  <2> QED
    BY <2>3, <2>4
<1>14. ASSUME NEW f \in FillId, NEW g \in FillId, lots'[f].pos # 0, lots'[g].pos # 0,
              log'[f].day < log'[g].day, lots'[g].left < log'[g].qty
       PROVE  lots'[f].left = 0
  <2>1. lots[f].pos # 0 /\ lots[g].pos # 0 /\ log[f].day < log[g].day
    BY <1>1, <1>14, <1>19
  <2>2. lots[f].left = 0 => lots'[f].left = 0
    <3> SUFFICES ASSUME lots[f].left = 0 PROVE lots'[f].left = 0
      OBVIOUS
    <3>1. f \notin hit
      BY <1>8
    <3> QED
      BY <1>5, <3>1
  <2>3. CASE g \notin hit
    <3>1. lots[f].left = 0
      BY <1>1, <1>5, <1>6, <1>14, <2>1, <2>3 DEF TableHolds
    <3> QED
      BY <2>2, <3>1
  <2>4. CASE g \in hit /\ f \in OpenLots
    <3>1. take[f] = lots[f].left
      BY <1>8, <2>1, <2>4 DEF Before
    <3>2. CASE f \in hit
      <4>1. Left(f, take[f]) \in 0..(lots[f].left - take[f])
        BY <1>7, <1>8, <3>2, LeftIsLess
      <4> QED
        BY <1>5, <1>7, <3>1, <3>2, <4>1
    <3>3. CASE f \notin hit
      BY <1>8, <2>2, <2>4, <3>1, <3>3
    <3> QED
      BY <3>2, <3>3
  <2>5. CASE f \notin OpenLots
    <3>1. lots[f].exit # 0
      BY <2>1, <2>5 DEF OpenLots, IsOpen, Exists
    <3>2. lots[f].left = 0
      BY <3>1 DEF LedgerTypes, LotsHold
    <3> QED
      BY <2>2, <3>2
  <2> QED
    BY <2>3, <2>4, <2>5
<1>15. TableHolds(lots', log', Settled')
  BY <1>11, <1>12, <1>13, <1>14 DEF TableHolds
<1> QED
  BY <1>4, <1>15

\* A sale that finds too little is passed over, and that is on record.
LEMMA DropProfit ==
  ASSUME LedgerProfits, LedgerTypes', Ordered', InOrder', TooLittleToClose
  PROVE  ProfitInv'
<1> USE DEF LedgerProfits
<1>1. /\ step = "lot" /\ step' # "lot" /\ log[cur].side = "sell" /\ mode # "down"
      /\ UNCHANGED <<log, mode, lots, rows, bookedRows, mishaps>>
      /\ dropped' = dropped + log[cur].qty
  BY DEF TooLittleToClose, Booked, memory, disk, LedgerTypes, LedgerShape
<1>2. dropped' # 0
  <2>1. log[cur].qty \in Nat \ {0} /\ dropped \in Nat
    BY <1>1, CurIsLogged, SizeAssumption DEF LedgerTypes, TypeOK, Fill
  <2> QED
    BY <1>1, <2>1
<1>3. bookedRows = Settled \cup {cur} /\ Settled' = bookedRows
  BY <1>1, SettledIs DEF Settled
<1>4. mishaps = 0 => TableHolds(lots, log, Settled)
  BY <1>1 DEF ProfitInv
<1>5. mishaps = 0 => TableHolds(lots', log', Settled')
  BY <1>1, <1>3, <1>4 DEF TableHolds
<1> QED
  BY <1>1, <1>2, <1>5 DEF ProfitInv

\* A lot is written: nothing changes in memory.
LEMMA PersistProfit ==
  ASSUME LedgerProfits, LedgerTypes', Ordered', InOrder', PersistLot
  PROVE  ProfitInv'
<1> USE DEF LedgerProfits
<1>1. /\ step = "write" /\ step' # "lot" /\ mode # "down"
      /\ UNCHANGED <<log, mode, lots, bookedRows, mishaps, dropped, dusted>>
  BY DEF PersistLot, Booked, history, LedgerTypes, LedgerShape
<1>2. Settled' = Settled
  BY <1>1 DEF Settled
<1>3. UNCHANGED <<log, lots, mode, mishaps, dropped, dusted>>
  BY <1>1
<1> QED
  BY <1>1, <1>2, <1>3 DEF ProfitInv

\* The process stops between two fills, and starts from its tables.
LEMMA HaltProfit ==
  ASSUME LedgerProfits, LedgerTypes', Ordered', InOrder', Stop \/ Start
  PROVE  ProfitInv'
<1> USE DEF LedgerProfits
<1>1. /\ UNCHANGED <<log, rows, bookedRows, mishaps, dropped, dusted>>
      /\ step = "idle" /\ step' = "idle"
  BY DEF Stop, Halt, Start, disk, history, LedgerTypes, LedgerShape
<1>2. Settled' = Settled
  BY <1>1 DEF Settled
<1> SUFFICES ASSUME mishaps = 0
             PROVE  /\ mode' = "down" => TableHolds(rows, log, Settled)
                    /\ mode' # "down" => TableHolds(lots', log, Settled)
  BY <1>1, <1>2 DEF ProfitInv
<1>3. CASE Stop
  <2>1. mode # "down" /\ mode' = "down"
    BY <1>3 DEF Stop, Halt
  <2>2. failed = 0 /\ dirty = {}
    BY <1>1, BalanceTypes
  <2>3. \A f \in FillId : /\ rows[f].left = lots[f].left /\ rows[f].exit = lots[f].exit
                          /\ rows[f].pos # 0 <=> lots[f].pos # 0
    BY <2>1, <2>2 DEF DiskFollowsMemory, Exists
  <2>4. TableHolds(lots, log, Settled)
    BY <2>1 DEF ProfitInv
  <2>5. TableHolds(rows, log, Settled)
    BY <2>3, <2>4, TableIsLocal
  <2> QED
    BY <2>1, <2>5
<1>4. CASE Start
  <2>1. mode = "down" /\ mode' # "down" /\ lots' = rows
    BY <1>4 DEF Start
  <2> QED
    BY <2>1 DEF ProfitInv
<1> QED
  BY <1>3, <1>4

\* Every step keeps the settled fills and their lots in line.
LEMMA ProfitNext ==
  ASSUME LedgerProfits, [Next]_vars PROVE LedgerProfits'
<1> USE DEF LedgerProfits
<1>1. LedgerTypes' /\ DiskFollowsMemory' /\ BalanceInv'
  BY LedgerNext, DiskFollows, BalanceNext
<1>2. Ordered' /\ InOrder'
  BY OrderedNext, InOrderNext DEF ProfitInv
<1>3. CASE WriteFails \/ Crash
  <2>1. mishaps \in Nat /\ mishaps' = mishaps + 1
    BY <1>3, BalanceTypes DEF WriteFails, Crash
  <2> QED
    BY <1>1, <1>2, <2>1 DEF ProfitInv
<1>4. CASE \/ UNCHANGED vars \/ LogFill \/ NextDay \/ MarkInMemory \/ MarkOnDisk
           \/ ScoreClosedLots \/ ReplayNext \/ ReplayEnds
  BY <1>1, <1>2, <1>4, ProfitQuiet
<1>5. CASE OpenLot \/ CloseLots \/ TooLittleToClose \/ PersistLot \/ Stop \/ Start
  BY <1>1, <1>2, <1>5, OpenLotProfit, CloseLotsProfit, DropProfit, PersistProfit, HaltProfit
<1> QED
  BY <1>1, <1>3, <1>4, <1>5 DEF Next

\* At the start nothing is settled.
LEMMA ProfitStart == Init => LedgerProfits
<1> SUFFICES ASSUME Init PROVE LedgerProfits
  OBVIOUS
<1>1. LedgerTypes /\ DiskFollowsMemory /\ BalanceInv
  BY LedgerInit, BalanceStart DEF Init, DiskFollowsMemory
<1>2. \A n \in Logged : log[n].day = 0 /\ day = 1
  BY PastAssumption DEF Init, Logged
<1>3. Ordered /\ InOrder
  BY <1>2 DEF Ordered, InOrder, Init
<1>4. Settled = {}
  BY DEF Settled, Init
<1>5. TableHolds(rows, log, Settled)
  BY <1>4 DEF TableHolds, Init, NoLot
<1>6. NeverShort(log, Settled)
  <2>1. \A n \in Logged : n \in 1..n
    BY <1>1, CurIsLogged DEF LedgerTypes
  <2> QED
    BY <1>4, <2>1 DEF NeverShort, Logged
<1>7. mode = "down"
  BY DEF Init
<1> QED
  BY <1>1, <1>3, <1>5, <1>6, <1>7 DEF LedgerProfits, ProfitInv

-----------------------------------------------------------------------------
(* Realized and unrealized profit *)

\* Between two fills of a process without a mishap, what is settled is what is
\* booked.
LEMMA BookedIsSettled ==
  ASSUME LedgerProfits, Quiet, mishaps = 0
  PROVE  /\ booked = bookedRows /\ Settled = booked /\ booked \subseteq Logged
         /\ TableHolds(lots, log, booked)
<1> USE DEF LedgerProfits
<1>1. failed = 0 /\ mode # "down" /\ step = "idle"
  BY BalanceTypes DEF Quiet
<1>2. booked = bookedRows
  BY <1>1 DEF DiskFollowsMemory
<1> QED
  BY <1>1, <1>2, SettledIs DEF ProfitInv

\* The price, the quantity and the value of a fill.
PriceOf == [f \in FillId |-> log[f].price]
AmountOf == [f \in FillId |-> log[f].qty]
ValueOf == [f \in FillId |-> log[f].price * log[f].qty]

\* They are integers.
LEMMA FillsAreNumbers ==
  ASSUME LedgerTypes
  PROVE  \A f \in Logged :
           /\ f \in FillId /\ log[f].price \in Nat /\ log[f].qty \in Nat
           /\ PriceOf[f] = log[f].price /\ AmountOf[f] = log[f].qty
           /\ ValueOf[f] = log[f].price * log[f].qty /\ ValueOf[f] \in Int
           /\ log[f].side \in {"buy", "sell"}
<1> TAKE f \in Logged
<1>1. f \in FillId /\ log[f] \in Fill
  BY CurIsLogged DEF LedgerTypes
<1>4. log[f].price \in Price /\ log[f].qty \in 1..MaxQty /\ log[f].side \in {"buy", "sell"}
  BY <1>1 DEF Fill
<1>5. log[f].price \in Nat
  BY <1>4, PriceAssumption
<1>6. log[f].qty \in Nat
  BY <1>4, SizeAssumption
<1>2. log[f].price \in Nat /\ log[f].qty \in Nat
  BY <1>5, <1>6
<1>3. log[f].price * log[f].qty \in Int
  BY <1>2
<1> QED
  BY <1>1, <1>2, <1>3, <1>4 DEF PriceOf, AmountOf, ValueOf

\* EquityIsExact, in a state: the gains are grouped by the sale that closed the lot.
LEMMA EquityIs ==
  ASSUME LedgerProfits PROVE EquityIsExact
<1> USE DEF LedgerProfits
<1> DEFINE value(F) == SumOf([f \in F |-> log[f].price * log[f].qty], F)
<1> SUFFICES ASSUME Quiet, mishaps = 0,
                    \A s \in Sells(booked) :
                      Total({f \in FillId : lots[f].exit = s}) = log[s].qty,
                    \A f \in OpenLots : /\ lots[f].left = log[f].qty
                                        /\ lots[f].left * log[f].price >= Dust,
                    NEW p \in Price
             PROVE  Realized + Unrealized(p)
                      = value(Sells(booked)) - value(Buys(booked)) + p * OpenQty
  BY DEF EquityIsExact
<1> DEFINE closed == {f \in FillId : lots[f].exit # 0}
           open == OpenLots
           sells == Sells(booked)
           exit == [f \in FillId |-> lots[f].exit]
           e == [f \in FillId |-> log[lots[f].exit].price * log[f].qty]
           gain == [f \in FillId |-> (log[lots[f].exit].price - log[f].price) * log[f].qty]
           paper == [f \in FillId |-> (p - log[f].price) * lots[f].left]
           marked == [f \in FillId |-> p * lots[f].left]
           left == [f \in FillId |-> lots[f].left]
           v == ValueOf
<1>1. TableHolds(lots, log, booked) /\ booked \subseteq Logged
  BY BookedIsSettled
<1>2. /\ \A f \in closed : /\ f \in Logged /\ lots[f].exit \in sells
                           /\ lots[f].exit \in Logged
      /\ \A f \in open : f \in Logged
      /\ closed \cup open = Buys(booked) /\ closed \cap open = {}
      /\ closed \subseteq FillId /\ open \subseteq FillId
      /\ sells \subseteq Logged /\ sells \subseteq FillId
  <2>1. \A f \in FillId : lots[f].exit # 0 => lots[f].pos # 0
    BY DEF LedgerTypes, LotsHold, NoLot
  <2>2. booked \subseteq FillId
    BY <1>1, FillsAreNumbers
  <2> QED
    BY <1>1, <2>1, <2>2 DEF TableHolds, OpenLots, IsOpen, Exists, Buys, Sells
<1>3. IsFiniteSet(closed) /\ IsFiniteSet(open) /\ IsFiniteSet(sells)
  BY <1>2, FillsAreFinite
<1>4. \A f \in closed : /\ e[f] \in Int /\ v[f] \in Int /\ gain[f] = e[f] - v[f]
                        /\ exit[f] \in sells
  <2> SUFFICES ASSUME NEW f \in closed
               PROVE  /\ e[f] \in Int /\ v[f] \in Int /\ gain[f] = e[f] - v[f]
                      /\ exit[f] \in sells
    OBVIOUS
  <2>1. f \in Logged /\ lots[f].exit \in Logged /\ f \in FillId /\ lots[f].exit \in sells
    BY <1>2
  <2> DEFINE a == log[lots[f].exit].price
             b == log[f].price
             q == log[f].qty
  <2>2. a \in Int /\ b \in Int /\ q \in Int /\ v[f] = b * q
    BY <2>1, FillsAreNumbers
  <2>3. e[f] = a * q /\ gain[f] = (a - b) * q /\ exit[f] = lots[f].exit
    BY <2>1
  <2> HIDE DEF a, b, q, e, gain, v, exit
  <2> QED
    BY <2>1, <2>2, <2>3, ProductOfDifference
<1>5. \A f \in open : /\ v[f] \in Int /\ marked[f] \in Int /\ paper[f] = marked[f] - v[f]
                      /\ left[f] \in Int /\ marked[f] = p * left[f]
  <2> SUFFICES ASSUME NEW f \in open
               PROVE  /\ v[f] \in Int /\ marked[f] \in Int /\ paper[f] = marked[f] - v[f]
                      /\ left[f] \in Int /\ marked[f] = p * left[f]
    OBVIOUS
  <2>1. f \in Logged /\ f \in FillId /\ lots[f].left = log[f].qty
    BY <1>2
  <2> DEFINE b == log[f].price
             q == log[f].qty
  <2>2. p \in Int /\ b \in Int /\ q \in Int /\ v[f] = b * q
    BY <2>1, FillsAreNumbers, PriceAssumption
  <2>3. marked[f] = p * q /\ paper[f] = (p - b) * q /\ left[f] = q
    BY <2>1
  <2> HIDE DEF b, q, marked, paper, v, left
  <2> QED
    BY <2>2, <2>3, ProductOfDifference
<1>6. Realized = SumOver(gain, closed)
  <2> DEFINE g == [f \in closed |-> (log[lots[f].exit].price - log[f].price) * log[f].qty]
  <2>1. Realized = SumOver(g, closed)
    BY DEF Realized, SumOf, SumOver
  <2>2. \A f \in closed : g[f] = gain[f]
    OBVIOUS
  <2> HIDE DEF g, gain, closed
  <2> QED
    BY <1>3, <2>1, <2>2, SumIsLocal
<1>7. Unrealized(p) = SumOver(paper, open)
  <2> DEFINE counted == {f \in OpenLots : lots[f].left * log[f].price >= Dust}
             g == [f \in counted |-> (p - log[f].price) * lots[f].left]
  <2>1. Unrealized(p) = SumOver(g, counted)
    BY DEF Unrealized, SumOf, SumOver
  <2>2. counted = open
    OBVIOUS
  <2>3. \A f \in open : g[f] = paper[f]
    BY <1>2, <2>2
  <2> HIDE DEF g, paper, open, counted
  <2> QED
    BY <1>3, <2>1, <2>2, <2>3, SumIsLocal
<1>8. OpenQty = SumOver(left, open)
  <2> DEFINE g == [f \in OpenLots |-> lots[f].left]
  <2>1. OpenQty = SumOver(g, open)
    BY DEF OpenQty, SumOf, SumOver
  <2>2. \A f \in open : g[f] = left[f]
    BY <1>2
  <2> HIDE DEF g, left, open
  <2> QED
    BY <1>3, <2>1, <2>2, SumIsLocal
<1>9. ASSUME NEW F \in SUBSET Logged PROVE value(F) = SumOver(v, F) /\ SumOver(v, F) \in Int
  <2> DEFINE g == [f \in F |-> log[f].price * log[f].qty]
  <2>1. value(F) = SumOver(g, F)
    BY DEF SumOf, SumOver
  <2>2. \A f \in F : g[f] = v[f] /\ v[f] \in Int
    BY FillsAreNumbers
  <2>3. IsFiniteSet(F)
    BY CurIsLogged, FillsAreFinite DEF LedgerTypes
  <2> HIDE DEF g, v, value
  <2> QED
    BY <2>1, <2>2, <2>3, SumIsLocal, SumIsInt
<1>10. SumOver(e, closed) = SumOver(v, sells)
  <2> DEFINE At(s) == Group(closed, exit, s)
             t == [s \in sells |-> SumOver(e, At(s))]
  <2>1. SumOver(e, closed) = SumOver(t, sells)
    <3>1. \A s \in sells : t[s] = SumOver(e, Group(closed, exit, s))
      OBVIOUS
    <3>2. \A f \in closed : e[f] \in Int /\ exit[f] \in sells
      BY <1>4
    <3> HIDE DEF e, closed, exit, sells, t
    <3> QED
      BY <1>3, <3>1, <3>2, SumByGroup
  <2>2. ASSUME NEW s \in sells PROVE t[s] = v[s]
    <3> DEFINE G == At(s)
               c == log[s].price
               m == [f \in G |-> log[f].qty]
    <3>1. s \in Logged /\ s \in FillId /\ s # 0
      BY <1>2, SizeAssumption DEF FillId
    <3>2. G = {f \in FillId : lots[f].exit = s}
      BY <3>1 DEF Group
    <3>10. G \subseteq closed
      BY DEF Group
    <3>3. Total(G) = log[s].qty
      BY <3>2
    <3>4. Total(G) = SumOver(m, G)
      BY DEF Total, SumOf, SumOver
    <3>5. IsFiniteSet(G)
      BY <1>3, <3>10, FS_Subset
    <3>6. \A f \in G : m[f] \in Int /\ e[f] = c * m[f]
      BY <1>2, <3>2, <3>10, FillsAreNumbers
    <3>7. c \in Int /\ v[s] = c * log[s].qty
      BY <3>1, FillsAreNumbers
    <3>8. t[s] = SumOver(e, G)
      OBVIOUS
    <3> HIDE DEF G, c, m, e, t, v
    <3>9. SumOver(e, G) = c * SumOver(m, G)
      BY <3>5, <3>6, <3>7, SumScales
    <3> QED
      BY <3>3, <3>4, <3>7, <3>8, <3>9
  <2> HIDE DEF t, v, sells
  <2>3. SumOver(t, sells) = SumOver(v, sells)
    BY <1>3, <2>2, SumIsLocal
  <2> QED
    BY <2>1, <2>3
<1>11. value(sells) = SumOver(v, sells)
  BY <1>2, <1>9
<1>12. value(Buys(booked)) = SumOver(v, closed) + SumOver(v, open)
  <2>1. Buys(booked) \in SUBSET Logged
    BY <1>2
  <2>2. value(Buys(booked)) = SumOver(v, Buys(booked))
    BY <1>9, <2>1
  <2>3. \A f \in closed \cup open : v[f] \in Int
    BY <1>4, <1>5
  <2> HIDE DEF closed, open, v, value
  <2>4. SumOver(v, closed \cup open) = SumOver(v, closed) + SumOver(v, open)
    BY <1>2, <1>3, <2>3, SumOfUnion
  <2> QED
    BY <1>2, <2>2, <2>4
<1>13. p \in Int
  BY PriceAssumption
<1> HIDE DEF closed, open, sells, exit, e, gain, paper, marked, left, v, value
<1>14. /\ SumOver(gain, closed) = SumOver(e, closed) - SumOver(v, closed)
       /\ SumOver(e, closed) \in Int /\ SumOver(v, closed) \in Int
  BY <1>3, <1>4, SumOfDifferences
<1>15. /\ SumOver(paper, open) = SumOver(marked, open) - SumOver(v, open)
       /\ SumOver(marked, open) \in Int /\ SumOver(v, open) \in Int
  BY <1>3, <1>5, SumOfDifferences
<1>16. SumOver(marked, open) = p * SumOver(left, open)
  BY <1>3, <1>5, <1>13, SumScales
<1>17. Realized + Unrealized(p) = value(sells) - value(Buys(booked)) + p * OpenQty
  BY <1>6, <1>7, <1>8, <1>10, <1>11, <1>12, <1>14, <1>15, <1>16
<1> QED
  BY <1>17 DEF sells, value

-----------------------------------------------------------------------------
(* The daily profit: first in, first out over the log *)

\* The fills before k.
Earlier(k) == {g \in FillId : g < k}

\* What a fill gives to a sale is what the earlier ones leave it to give.
LEMMA GivesIs ==
  ASSUME NEW left \in [FillId -> Nat], NEW q \in Nat
  PROVE  /\ Gives(left, q) \in [FillId -> Nat]
         /\ \A f \in FillId :
              LET rest == q - SumOver(left, Earlier(f)) IN
              /\ SumOver(left, Earlier(f)) \in Nat
              /\ Gives(left, q)[f] =
                   IF rest <= 0 THEN 0 ELSE IF left[f] <= rest THEN left[f] ELSE rest
<1> DEFINE ahead == [f \in FillId |-> {g \in FillId : g < f}]
<1>1. Gives(left, q) = [f \in FillId |-> Min({left[f], Max({0, q - SumOf(left, ahead[f])})})]
  BY DEF Gives, FromQueue
<1>2. ASSUME NEW f \in FillId
      PROVE  LET rest == q - SumOver(left, Earlier(f)) IN
              /\ SumOver(left, Earlier(f)) \in Nat
              /\ Min({left[f], Max({0, q - SumOf(left, ahead[f])})}) =
                   IF rest <= 0 THEN 0 ELSE IF left[f] <= rest THEN left[f] ELSE rest
  <2>1. ahead[f] = Earlier(f)
    BY DEF Earlier
  <2>2. SumOf(left, ahead[f]) = SumOver(left, Earlier(f))
    BY <2>1 DEF SumOf, SumOver
  <2>3. IsFiniteSet(Earlier(f)) /\ Earlier(f) \subseteq FillId
    BY FillsAreFinite DEF Earlier
  <2>4. SumOver(left, Earlier(f)) \in Nat
    BY <2>3, SumIsNat
  <2> DEFINE u == SumOver(left, Earlier(f))
             rest == q - u
             m == Max({0, rest})
  <2>5. m = (IF rest <= 0 THEN 0 ELSE rest) /\ rest \in Int /\ m \in Int
    <3>1. rest \in Int
      BY <2>4
    <3> HIDE DEF rest
    <3> QED
      BY <3>1, PairExtremes
  <2>6. Min({left[f], m}) = IF left[f] <= m THEN left[f] ELSE m
    <3>1. left[f] \in Int
      OBVIOUS
    <3> HIDE DEF m
    <3> QED
      BY <2>5, <3>1, PairExtremes
  <2>7. left[f] \in Nat
    OBVIOUS
  <2>8. Max({0, q - SumOf(left, ahead[f])}) = m
    BY <2>2
  <2> HIDE DEF m, rest, ahead
  <2>10. Min({left[f], Max({0, q - SumOf(left, ahead[f])})}) = Min({left[f], m})
    BY <2>8
  <2>11. (IF left[f] <= m THEN left[f] ELSE m) =
           IF rest <= 0 THEN 0 ELSE IF left[f] <= rest THEN left[f] ELSE rest
    BY <2>5, <2>7
  <2>9. Min({left[f], Max({0, q - SumOf(left, ahead[f])})}) =
          IF rest <= 0 THEN 0 ELSE IF left[f] <= rest THEN left[f] ELSE rest
    BY <2>6, <2>10, <2>11
  <2> QED
    BY <2>4, <2>9 DEF rest
<1> HIDE DEF ahead
<1>3. \A f \in FillId : Gives(left, q)[f] = Min({left[f], Max({0, q - SumOf(left, ahead[f])})})
  BY <1>1
<1>4. \A f \in FillId :
              LET rest == q - SumOver(left, Earlier(f)) IN
              /\ SumOver(left, Earlier(f)) \in Nat
              /\ Gives(left, q)[f] =
                   IF rest <= 0 THEN 0 ELSE IF left[f] <= rest THEN left[f] ELSE rest
  BY <1>2, <1>3
<1>5. \A f \in FillId : Gives(left, q)[f] \in Nat
  <2> TAKE f \in FillId
  <2> DEFINE u == SumOver(left, Earlier(f))
  <2>1. u \in Nat /\ left[f] \in Nat
        /\ Gives(left, q)[f] = IF q - u <= 0 THEN 0
                               ELSE IF left[f] <= q - u THEN left[f] ELSE q - u
    BY <1>4
  <2> HIDE DEF u
  <2> QED
    BY <2>1
<1> QED
  BY <1>1, <1>4, <1>5

\* The queue gives what is asked for, the earlier fill first.
LEMMA GivesInOrder ==
  ASSUME NEW left \in [FillId -> Nat], NEW q \in Nat, q <= SumOver(left, FillId)
  PROVE  /\ Gives(left, q) \in [FillId -> Nat]
         /\ \A f \in FillId : Gives(left, q)[f] <= left[f]
         /\ \A f, g \in FillId :
              f < g /\ Gives(left, q)[g] > 0 => Gives(left, q)[f] = left[f]
         /\ SumOver(Gives(left, q), FillId) = q
<1> DEFINE gives == Gives(left, q)
           u(k) == SumOver(left, Earlier(k))
<1>1. gives \in [FillId -> Nat]
  BY GivesIs
<1>2. \A f \in FillId : /\ u(f) \in Nat /\ left[f] \in Nat
                        /\ gives[f] = IF q - u(f) <= 0 THEN 0
                                      ELSE IF left[f] <= q - u(f) THEN left[f] ELSE q - u(f)
  BY GivesIs
<1>3. \A k \in Nat : IsFiniteSet(Earlier(k)) /\ Earlier(k) \subseteq FillId
  BY FillsAreFinite DEF Earlier
<1>4. \A k \in FillId : Earlier(k + 1) = Earlier(k) \cup {k} /\ k \notin Earlier(k)
                        /\ k \in Nat /\ k + 1 \in Nat
  BY SizeAssumption DEF Earlier, FillId
<1>5. \A k \in Nat : u(k) \in Nat
  BY <1>3, SumIsNat
<1>6. \A k \in FillId : u(k + 1) = left[k] + u(k)
  <2> TAKE k \in FillId
  <2>1. SumOver(left, Earlier(k) \cup {k}) = left[k] + SumOver(left, Earlier(k))
    <3>1. /\ IsFiniteSet(Earlier(k)) /\ k \notin Earlier(k)
          /\ \A y \in Earlier(k) \cup {k} : left[y] \in Int
      BY <1>3, <1>4
    <3> QED
      BY <3>1, SumAdds
  <2> QED
    BY <1>4, <2>1
<1>7. \A k \in FillId : SumOver(gives, Earlier(k + 1)) = gives[k] + SumOver(gives, Earlier(k))
  <2> TAKE k \in FillId
  <2>1. SumOver(gives, Earlier(k) \cup {k}) = gives[k] + SumOver(gives, Earlier(k))
    <3>1. /\ IsFiniteSet(Earlier(k)) /\ k \notin Earlier(k)
          /\ \A y \in Earlier(k) \cup {k} : gives[y] \in Int
      BY <1>1, <1>3, <1>4
    <3> HIDE DEF gives
    <3> QED
      BY <3>1, SumAdds
  <2> QED
    BY <1>4, <2>1
<1> HIDE DEF gives
<1>8. \A f \in FillId : gives[f] <= left[f]
  <2> TAKE f \in FillId
  <2> DEFINE a == u(f)
  <2>1. a \in Nat /\ left[f] \in Nat
        /\ gives[f] = IF q - a <= 0 THEN 0
                      ELSE IF left[f] <= q - a THEN left[f] ELSE q - a
    BY <1>2
  <2> HIDE DEF a
  <2> QED
    BY <2>1
<1>9. ASSUME NEW f \in FillId, NEW g \in FillId, f < g, gives[g] > 0
      PROVE  gives[f] = left[f]
  <2> DEFINE a == u(f)
             b == u(g)
  <2>1. left[f] + a <= b
    <3>1. Earlier(f + 1) \subseteq Earlier(g) /\ IsFiniteSet(Earlier(g))
          /\ Earlier(g) \subseteq FillId
      BY <1>3, <1>4, <1>9 DEF Earlier, FillId
    <3>2. \A x \in Earlier(g) : left[x] \in Nat
      BY <3>1
    <3>3. SumOver(left, Earlier(f + 1)) <= SumOver(left, Earlier(g))
      BY <3>1, <3>2, SumOfPart
    <3> QED
      BY <1>6, <3>3
  <2>2. /\ a \in Nat /\ b \in Nat /\ left[f] \in Nat /\ left[g] \in Nat
        /\ gives[f] = IF q - a <= 0 THEN 0
                      ELSE IF left[f] <= q - a THEN left[f] ELSE q - a
        /\ gives[g] = IF q - b <= 0 THEN 0
                      ELSE IF left[g] <= q - b THEN left[g] ELSE q - b
    BY <1>2
  <2> HIDE DEF a, b
  <2> QED
    BY <1>9, <2>1, <2>2
<1> DEFINE T == {k \in Nat : k <= MaxFills =>
                   SumOver(gives, Earlier(k + 1))
                     = IF q <= u(k + 1) THEN q ELSE u(k + 1)}
<1>10. 0 \in T
  <2>1. Earlier(0 + 1) = {}
    BY DEF Earlier, FillId
  <2>2. SumOver(gives, Earlier(0 + 1)) = 0 /\ u(0 + 1) = 0
    BY <2>1, SumOfNothing
  <2> QED
    BY <2>2
<1>11. ASSUME NEW k \in T PROVE k + 1 \in T
  <2> SUFFICES ASSUME k + 1 <= MaxFills
               PROVE  SumOver(gives, Earlier(k + 1 + 1))
                        = IF q <= u(k + 1 + 1) THEN q ELSE u(k + 1 + 1)
    OBVIOUS
  <2> DEFINE m == k + 1
             a == u(m)
             c == u(m + 1)
             s == SumOver(gives, Earlier(m))
  <2>1. m \in FillId /\ m \in Nat /\ k \in Nat
    BY SizeAssumption DEF FillId
  <2>2. s = IF q <= a THEN q ELSE a
    BY SizeAssumption, <2>1
  <2>3. SumOver(gives, Earlier(m + 1)) = gives[m] + s
    BY <1>7, <2>1
  <2>4. c = left[m] + a
    BY <1>6, <2>1
  <2>5. /\ a \in Nat /\ left[m] \in Nat
        /\ gives[m] = IF q - a <= 0 THEN 0
                      ELSE IF left[m] <= q - a THEN left[m] ELSE q - a
    BY <1>2, <2>1
  <2> HIDE DEF a, c, s, m
  <2>6. SumOver(gives, Earlier(m + 1)) = IF q <= c THEN q ELSE c
    BY <2>2, <2>3, <2>4, <2>5
  <2> QED
    BY <2>6 DEF m, c
<1> HIDE DEF T
<1>12. T = Nat
  <2>1. T \subseteq Nat
    BY DEF T
  <2> QED
    BY <1>10, <1>11, <2>1, Induction
<1>13. Earlier(MaxFills + 1) = FillId
  BY SizeAssumption DEF Earlier, FillId
<1>14. SumOver(gives, Earlier(MaxFills + 1))
         = IF q <= u(MaxFills + 1) THEN q ELSE u(MaxFills + 1)
  <2>1. MaxFills \in T
    BY <1>12, SizeAssumption
  <2>2. MaxFills <= MaxFills
    BY SizeAssumption
  <2> QED
    BY <2>1, <2>2 DEF T
<1>15. SumOver(gives, FillId) = q
  BY <1>13, <1>14
<1> QED
  BY <1>1, <1>8, <1>9, <1>15 DEF gives

-----------------------------------------------------------------------------
\* The recursion over the log, and the function that solves it.
MatchStart == [left |-> [f \in FillId |-> 0], gain |-> 0]
MatchStep(n, s) == Filled(n, s, Gives(s.left, log[n].qty))
MatchRun(k, g) ==
  g = [n \in 0..k |-> IF n = 0 THEN MatchStart ELSE MatchStep(n, g[n - 1])]
MatchStates ==
  CHOOSE g : g = [n \in 0..Len(log) |->
                    IF n = 0 THEN [left |-> [f \in FillId |-> 0], gain |-> 0]
                    ELSE Filled(n, g[n - 1], Gives(g[n - 1].left, log[n].qty))]

\* The recursion has a solution, so each state is made from the one before.
LEMMA MatchIsRecursive ==
  ASSUME LedgerTypes
  PROVE  /\ Matched = MatchStates[Len(log)]
         /\ MatchStates[0] = MatchStart
         /\ \A n \in Logged : MatchStates[n] = MatchStep(n, MatchStates[n - 1])
<1> DEFINE T == {k \in Nat : \E g : MatchRun(k, g)}
<1>1. 0 \in T
  <2> DEFINE g == [n \in 0..0 |-> MatchStart]
  <2>1. MatchRun(0, g)
    BY DEF MatchRun
  <2> QED
    BY <2>1
<1>2. ASSUME NEW k \in T PROVE k + 1 \in T
  <2>1. PICK h : MatchRun(k, h)
    OBVIOUS
  <2> DEFINE g == [n \in 0..(k + 1) |-> IF n = 0 THEN MatchStart ELSE MatchStep(n, h[n - 1])]
  <2>2. \A n \in 0..k : g[n] = h[n]
    BY <2>1 DEF MatchRun
  <2>3. \A n \in 0..(k + 1) : n # 0 => n - 1 \in 0..k
    OBVIOUS
  <2>4. MatchRun(k + 1, g)
    BY <2>2, <2>3 DEF MatchRun
  <2> QED
    BY <2>4
<1> HIDE DEF T
<1>3. T = Nat
  <2>1. T \subseteq Nat
    BY DEF T
  <2> QED
    BY <1>1, <1>2, <2>1, Induction
<1>4. Logged = 1..Len(log) /\ Len(log) \in Nat
  BY CurIsLogged DEF LedgerTypes
<1>5. \E g : MatchRun(Len(log), g)
  BY <1>3, <1>4 DEF T
<1>6. MatchRun(Len(log), MatchStates)
  BY <1>5 DEF MatchRun, MatchStates, MatchStart, MatchStep
<1>7. Matched = MatchStates[Len(log)]
  BY DEF Matched, MatchStates
<1>8. \A n \in 0..Len(log) :
        MatchStates[n] = IF n = 0 THEN MatchStart ELSE MatchStep(n, MatchStates[n - 1])
  BY <1>6 DEF MatchRun
<1> QED
  BY <1>4, <1>7, <1>8

\* What the fills F brought in; what a queue cost.
CashOf(F) == SumOver([f \in FillId |-> IF log[f].side = "buy" THEN -ValueOf[f]
                                       ELSE ValueOf[f]], F)
CostOf(left) == [f \in FillId |-> log[f].price * left[f]]
WorthOf(left) == SumOver(CostOf(left), Logged)

\* The queue after fill n: it holds what was bought and not yet sold, the
\* latest fills of it, and with its cost the gain is what the fills brought in.
QueueHolds(n, left) ==
  /\ left \in [FillId -> Nat]
  /\ \A f \in FillId : f \notin Buys(1..n) => left[f] = 0
  /\ \A f \in Buys(1..n) : left[f] <= log[f].qty
  /\ \A f, g \in Buys(1..n) : f < g /\ left[g] < log[g].qty => left[f] = 0
  /\ SumOver(left, FillId) = NetOf(log, 1..n)
MatchHolds(n, s) ==
  /\ s = [left |-> s.left, gain |-> s.gain]
  /\ QueueHolds(n, s.left)
  /\ s.gain \in Int /\ s.gain = CashOf(1..n) + WorthOf(s.left)

\* Costs are numbers; one more fill adds what it brought in.
LEMMA CostsAreNumbers ==
  ASSUME LedgerTypes, NEW left \in [FillId -> Int]
  PROVE  /\ \A f \in Logged : CostOf(left)[f] = log[f].price * left[f]
                              /\ CostOf(left)[f] \in Int
         /\ WorthOf(left) \in Int
<1>1. \A f \in Logged : CostOf(left)[f] = log[f].price * left[f]
                        /\ CostOf(left)[f] \in Int
  <2> TAKE f \in Logged
  <2>1. f \in FillId /\ log[f].price \in Int /\ left[f] \in Int
    BY FillsAreNumbers
  <2>2. log[f].price * left[f] \in Int
    BY <2>1
  <2> QED
    BY <2>1, <2>2 DEF CostOf
<1>2. IsFiniteSet(Logged)
  BY CurIsLogged, FillsAreFinite DEF LedgerTypes
<1> QED
  BY <1>1, <1>2, SumIsInt DEF WorthOf

\* One more fill adds what it brought in.
LEMMA CashAdds ==
  ASSUME LedgerTypes, NEW n \in Logged
  PROVE  /\ CashOf(1..n) \in Int /\ CashOf(1..(n - 1)) \in Int /\ ValueOf[n] \in Int
         /\ CashOf(1..n) = CashOf(1..(n - 1))
              + IF log[n].side = "buy" THEN -ValueOf[n] ELSE ValueOf[n]
<1> DEFINE c == [f \in FillId |-> IF log[f].side = "buy" THEN -ValueOf[f] ELSE ValueOf[f]]
           R == 1..(n - 1)
<1>1. Logged = 1..Len(log) /\ Len(log) \in Nat /\ Logged \subseteq FillId
  BY CurIsLogged DEF LedgerTypes
<1>2. 1..n = R \cup {n} /\ n \notin R /\ R \subseteq Logged /\ 1..n \subseteq Logged
  BY <1>1
<1>3. \A f \in Logged : c[f] = (IF log[f].side = "buy" THEN -ValueOf[f] ELSE ValueOf[f])
                        /\ c[f] \in Int /\ ValueOf[f] \in Int
  BY FillsAreNumbers
<1>4. IsFiniteSet(R) /\ IsFiniteSet(1..n)
  BY <1>2, FS_Interval
<1>5. CashOf(1..n) = SumOver(c, 1..n) /\ CashOf(R) = SumOver(c, R)
  BY DEF CashOf
<1> HIDE DEF c, R
<1>6. SumOver(c, R \cup {n}) = c[n] + SumOver(c, R)
  BY <1>2, <1>3, <1>4, SumAdds
<1>7. SumOver(c, R) \in Int /\ c[n] \in Int
  BY <1>2, <1>3, <1>4, SumIsInt
<1>8. CashOf(1..n) = c[n] + CashOf(R)
  BY <1>2, <1>5, <1>6
<1> QED
  BY <1>3, <1>5, <1>7, <1>8 DEF R

\* One more fill adds its quantity.
LEMMA NetAdds ==
  ASSUME LedgerTypes, NEW n \in Logged
  PROVE  /\ NetOf(log, 1..n) = Signed(log[n]) + NetOf(log, 1..(n - 1))
         /\ NetOf(log, 1..(n - 1)) \in Int
<1>1. Logged = 1..Len(log) /\ Len(log) \in Nat /\ Logged \subseteq FillId
      /\ \A f \in Logged : log[f] \in Fill
  BY CurIsLogged DEF LedgerTypes
<1>2. /\ 1..n \in SUBSET FillId /\ n \in 1..n /\ (1..n) \ {n} = 1..(n - 1)
      /\ 1..(n - 1) \in SUBSET FillId
      /\ \A f \in 1..n : log[f] \in Fill
      /\ \A f \in 1..(n - 1) : log[f] \in Fill
  BY <1>1
<1>3. NetOf(log, 1..n) = Signed(log[n]) + NetOf(log, (1..n) \ {n})
  <2> DEFINE F == 1..n
  <2>1. F \in SUBSET FillId /\ n \in F /\ \A f \in F : log[f] \in Fill
    BY <1>2
  <2> HIDE DEF F
  <2>2. NetOf(log, F) = Signed(log[n]) + NetOf(log, F \ {n})
    BY <2>1, FillsAdd
  <2> QED
    BY <2>2 DEF F
<1>4. NetOf(log, 1..(n - 1)) \in Int
  BY <1>2, FillsAdd
<1> QED
  BY <1>2, <1>3, <1>4

\* Up to fill n, the buys and the sells.
LEMMA BuysAdd ==
  ASSUME LedgerTypes, NEW n \in Logged
  PROVE  /\ log[n].side = "buy" => Buys(1..n) = Buys(1..(n - 1)) \cup {n}
         /\ log[n].side # "buy" => Buys(1..n) = Buys(1..(n - 1))
         /\ n \in FillId /\ n \notin Buys(1..(n - 1))
         /\ \A f \in Buys(1..(n - 1)) : f \in Logged /\ f \in FillId /\ f < n
<1>1. Logged = 1..Len(log) /\ Len(log) \in Nat /\ Logged \subseteq FillId
  BY CurIsLogged DEF LedgerTypes
<1>2. 1..n = (1..(n - 1)) \cup {n} /\ n \in Nat
  BY <1>1
<1>3. \A f \in 1..(n - 1) : f \in Logged /\ f \in FillId /\ f < n
  BY <1>1
<1> QED
  BY <1>1, <1>2, <1>3 DEF Buys

\* A buy joins the queue.
LEMMA BuyMatches ==
  ASSUME LedgerTypes, NEW n \in Logged, NEW s, MatchHolds(n - 1, s), log[n].side = "buy"
  PROVE  MatchHolds(n, MatchStep(n, s))
<1> DEFINE left == s.left
           new == [left EXCEPT ![n] = log[n].qty]
           t == [left |-> new, gain |-> s.gain]
<1>1. MatchStep(n, s) = [s EXCEPT !.left[n] = log[n].qty]
  BY DEF MatchStep, Filled
<1>2. s = [left |-> s.left, gain |-> s.gain] /\ QueueHolds(n - 1, left) /\ s.gain \in Int
      /\ s.gain = CashOf(1..(n - 1)) + WorthOf(left)
  BY DEF MatchHolds
<1>3. MatchStep(n, s) = t
  <2> DEFINE r == [s EXCEPT !.left = new]
  <2>1. MatchStep(n, s) = r
    BY <1>1
  <2>2. DOMAIN s = {"left", "gain"}
    BY <1>2
  <2>3. DOMAIN r = {"left", "gain"} /\ r = [x \in {"left", "gain"} |-> r[x]]
    BY <2>2
  <2>4. DOMAIN t = {"left", "gain"} /\ t = [x \in {"left", "gain"} |-> t[x]]
    OBVIOUS
  <2>5. r.left = t.left /\ r.gain = t.gain
    BY <2>2
  <2> HIDE DEF r, t
  <2>6. r = t
    BY <2>3, <2>4, <2>5
  <2> QED
    BY <2>1, <2>6
<1>4. /\ Buys(1..n) = Buys(1..(n - 1)) \cup {n} /\ n \in FillId /\ n \notin Buys(1..(n - 1))
      /\ \A f \in Buys(1..(n - 1)) : f \in Logged /\ f \in FillId /\ f < n
  BY BuysAdd
<1>5. /\ log[n].qty \in Nat /\ log[n].price \in Nat
      /\ ValueOf[n] = log[n].price * log[n].qty /\ ValueOf[n] \in Int
  BY FillsAreNumbers
<1>6. /\ left \in [FillId -> Nat] /\ left[n] = 0
      /\ new \in [FillId -> Nat] /\ new[n] = log[n].qty
      /\ \A f \in FillId \ {n} : new[f] = left[f]
  BY <1>2, <1>4, <1>5 DEF QueueHolds
<1>7. \A f \in FillId : f \notin Buys(1..n) => new[f] = 0
  BY <1>2, <1>4, <1>6 DEF QueueHolds
<1>8. \A f \in Buys(1..n) : new[f] <= log[f].qty
  BY <1>2, <1>4, <1>5, <1>6 DEF QueueHolds
<1>9. ASSUME NEW f \in Buys(1..n), NEW g \in Buys(1..n), f < g, new[g] < log[g].qty
      PROVE  new[f] = 0
  <2>1. g # n
    BY <1>5, <1>6, <1>9
  <2>2. g \in Buys(1..(n - 1)) /\ g < n /\ g \in Nat
    BY <1>4, <2>1 DEF FillId
  <2>3. f # n
    BY <1>4, <1>9, <2>2 DEF FillId
  <2>4. f \in Buys(1..(n - 1))
    BY <1>4, <2>3
  <2> QED
    BY <1>2, <1>4, <1>6, <1>9, <2>1, <2>2, <2>3, <2>4 DEF QueueHolds
<1>10. SumOver(new, FillId) = NetOf(log, 1..n)
  <2>1. /\ NetOf(log, 1..n) = Signed(log[n]) + NetOf(log, 1..(n - 1))
        /\ NetOf(log, 1..(n - 1)) \in Int
    BY NetAdds
  <2>2. Signed(log[n]) = log[n].qty
    BY DEF Signed
  <2>3. SumOver(new, FillId) = SumOver(left, FillId) - left[n] + new[n]
    <3>1. \A y \in FillId : left[y] \in Int /\ new[y] \in Int
      BY <1>6
    <3> HIDE DEF left, new
    <3> QED
      BY <1>4, <1>6, <3>1, FillsAreFinite, SumChanges
  <2>4. SumOver(left, FillId) = NetOf(log, 1..(n - 1))
    BY <1>2 DEF QueueHolds
  <2> QED
    BY <1>5, <1>6, <2>1, <2>2, <2>3, <2>4
<1>11. WorthOf(new) = WorthOf(left) + ValueOf[n]
  <2> DEFINE a == CostOf(left)
             b == CostOf(new)
  <2>1. left \in [FillId -> Int] /\ new \in [FillId -> Int]
    BY <1>6
  <2>2. /\ \A f \in Logged : a[f] = log[f].price * left[f] /\ a[f] \in Int
        /\ \A f \in Logged : b[f] = log[f].price * new[f] /\ b[f] \in Int
        /\ WorthOf(left) \in Int
    BY <2>1, CostsAreNumbers
  <2>3. Logged \subseteq FillId /\ IsFiniteSet(Logged)
    BY CurIsLogged, FillsAreFinite DEF LedgerTypes
  <2>4. \A f \in Logged \ {n} : b[f] = a[f]
    <3>1. \A f \in Logged \ {n} : new[f] = left[f]
      BY <1>6, <2>3
    <3> HIDE DEF a, b, new, left
    <3> QED
      BY <2>2, <3>1
  <2>5. b[n] = ValueOf[n]
    <3> HIDE DEF b, new
    <3> QED
      BY <1>5, <1>6, <2>2
  <2>6. a[n] = 0
    <3>1. a[n] = log[n].price * 0
      <4> HIDE DEF a, left
      <4> QED
        BY <1>6, <2>2
    <3> QED
      BY <1>5, <3>1
  <2>9. SumOver(a, Logged) \in Int /\ SumOver(a, Logged) = WorthOf(left)
    BY <2>2 DEF WorthOf
  <2>10. SumOver(b, Logged) = WorthOf(new)
    BY DEF WorthOf
  <2> HIDE DEF a, b, new, left
  <2>7. SumOver(b, Logged) = SumOver(a, Logged) - a[n] + b[n]
    <3>1. \A y \in Logged : a[y] \in Int /\ b[y] \in Int
      BY <2>2
    <3> QED
      BY <2>3, <2>4, <3>1, SumChanges
  <2>8. SumOver(b, Logged) = SumOver(a, Logged) + ValueOf[n]
    BY <1>5, <2>5, <2>6, <2>7, <2>9
  <2> QED
    BY <2>8, <2>9, <2>10
<1>12. s.gain = CashOf(1..n) + WorthOf(new)
  <2>1. /\ CashOf(1..n) \in Int /\ CashOf(1..(n - 1)) \in Int /\ ValueOf[n] \in Int
        /\ CashOf(1..n) = CashOf(1..(n - 1)) - ValueOf[n]
    <3>1. /\ CashOf(1..n) \in Int /\ CashOf(1..(n - 1)) \in Int /\ ValueOf[n] \in Int
          /\ CashOf(1..n) = CashOf(1..(n - 1))
              + IF log[n].side = "buy" THEN -ValueOf[n] ELSE ValueOf[n]
      BY CashAdds
    <3> QED
      BY <3>1
  <2>2. WorthOf(left) \in Int
    BY <1>6, CostsAreNumbers
  <2> HIDE DEF new, left
  <2> QED
    BY <1>2, <1>11, <2>1, <2>2
<1> HIDE DEF new
<1>13. QueueHolds(n, new)
  BY <1>6, <1>7, <1>8, <1>9, <1>10 DEF QueueHolds
<1>14. MatchHolds(n, t)
  BY <1>2, <1>12, <1>13 DEF MatchHolds
<1> QED
  BY <1>3, <1>14

\* A sale is served by the queue.
LEMMA SaleMatches ==
  ASSUME LedgerTypes, NEW n \in Logged, NEW s, MatchHolds(n - 1, s), log[n].side = "sell",
         NetOf(log, 1..n) \in Nat
  PROVE  MatchHolds(n, MatchStep(n, s))
<1> DEFINE left == s.left
           q == log[n].qty
           c == log[n].price
           gives == Gives(left, q)
           new == [f \in FillId |-> left[f] - gives[f]]
           profit == [f \in Logged |-> (log[n].price - log[f].price) * gives[f]]
           gain == s.gain + SumOver(profit, Logged)
           t == [left |-> new, gain |-> gain]
<1>1. QueueHolds(n - 1, left) /\ s.gain \in Int
      /\ s.gain = CashOf(1..(n - 1)) + WorthOf(left)
  BY DEF MatchHolds
<1>2. MatchStep(n, s) = t
  BY DEF MatchStep, Filled, SumOf, SumOver
<1>3. /\ Buys(1..n) = Buys(1..(n - 1)) /\ n \in FillId
      /\ \A f \in Buys(1..(n - 1)) : f \in Logged /\ f \in FillId
  BY BuysAdd
<1>4. q \in Nat /\ c \in Nat /\ ValueOf[n] = c * q /\ ValueOf[n] \in Int
  BY FillsAreNumbers
<1>5. /\ NetOf(log, 1..n) = NetOf(log, 1..(n - 1)) - q
      /\ NetOf(log, 1..(n - 1)) \in Int
  <2>1. /\ NetOf(log, 1..n) = Signed(log[n]) + NetOf(log, 1..(n - 1))
        /\ NetOf(log, 1..(n - 1)) \in Int
    BY NetAdds
  <2>2. Signed(log[n]) = -q
    BY DEF Signed
  <2> QED
    BY <1>4, <2>1, <2>2
<1>6. left \in [FillId -> Nat] /\ q <= SumOver(left, FillId)
  BY <1>1, <1>4, <1>5 DEF QueueHolds
<1>7. /\ gives \in [FillId -> Nat]
      /\ \A f \in FillId : gives[f] <= left[f]
      /\ \A f, g \in FillId : f < g /\ gives[g] > 0 => gives[f] = left[f]
      /\ SumOver(gives, FillId) = q
  BY <1>4, <1>6, GivesInOrder
<1> HIDE DEF gives, left, q, c
<1>8. new \in [FillId -> Nat] /\ \A f \in FillId : new[f] = left[f] - gives[f]
  BY <1>6, <1>7
<1>9. \A f \in FillId : gives[f] \in Nat /\ left[f] \in Nat
  BY <1>6, <1>7
<1> HIDE DEF new
<1>10. \A f \in FillId : f \notin Buys(1..n) => new[f] = 0 /\ gives[f] = 0
  <2> SUFFICES ASSUME NEW f \in FillId, f \notin Buys(1..n)
               PROVE  new[f] = 0 /\ gives[f] = 0
    OBVIOUS
  <2>1. left[f] = 0
    BY <1>1, <1>3 DEF QueueHolds
  <2> QED
    BY <1>7, <1>8, <1>9, <2>1
<1>11. \A f \in Buys(1..n) : new[f] <= log[f].qty
  <2> SUFFICES ASSUME NEW f \in Buys(1..n) PROVE new[f] <= log[f].qty
    OBVIOUS
  <2>1. f \in FillId /\ f \in Logged /\ left[f] <= log[f].qty
    BY <1>1, <1>3 DEF QueueHolds
  <2>2. log[f].qty \in Nat
    BY <2>1, FillsAreNumbers
  <2> QED
    BY <1>8, <1>9, <2>1, <2>2
<1>12. ASSUME NEW f \in Buys(1..n), NEW g \in Buys(1..n), f < g, new[g] < log[g].qty
       PROVE  new[f] = 0
  <2>1. f \in FillId /\ g \in FillId /\ g \in Logged
    BY <1>3
  <2>2. CASE gives[g] > 0
    <3>1. gives[f] = left[f]
      BY <1>7, <1>12, <2>1, <2>2
    <3> QED
      BY <1>8, <1>9, <2>1, <3>1
  <2>3. CASE ~(gives[g] > 0)
    <3>1. new[g] = left[g]
      BY <1>8, <1>9, <2>1, <2>3
    <3>2. left[f] = 0
      BY <1>1, <1>3, <1>12, <3>1 DEF QueueHolds
    <3> QED
      BY <1>7, <1>8, <1>9, <2>1, <3>2
  <2> QED
    BY <2>2, <2>3
<1>13. SumOver(new, FillId) = NetOf(log, 1..n)
  <2>1. \A f \in FillId : left[f] \in Int /\ gives[f] \in Int /\ new[f] = left[f] - gives[f]
    BY <1>8, <1>9
  <2>2. /\ SumOver(new, FillId) = SumOver(left, FillId) - SumOver(gives, FillId)
        /\ SumOver(left, FillId) \in Int
    BY <2>1, FillsAreFinite, SumOfDifferences
  <2>3. SumOver(left, FillId) = NetOf(log, 1..(n - 1))
    BY <1>1 DEF QueueHolds
  <2> QED
    BY <1>5, <1>7, <2>2, <2>3
<1> DEFINE a == CostOf(left)
           b == CostOf(new)
           e == CostOf(gives)
           paid == [f \in FillId |-> c * gives[f]]
<1>14. /\ \A f \in Logged : a[f] = log[f].price * left[f] /\ a[f] \in Int
       /\ \A f \in Logged : b[f] = log[f].price * new[f] /\ b[f] \in Int
       /\ \A f \in Logged : e[f] = log[f].price * gives[f] /\ e[f] \in Int
       /\ WorthOf(left) \in Int /\ WorthOf(new) \in Int /\ WorthOf(gives) \in Int
  <2>1. left \in [FillId -> Int] /\ new \in [FillId -> Int] /\ gives \in [FillId -> Int]
    BY <1>6, <1>7, <1>8
  <2> QED
    BY <2>1, CostsAreNumbers
<1>15. WorthOf(left) = SumOver(a, Logged) /\ WorthOf(new) = SumOver(b, Logged)
       /\ WorthOf(gives) = SumOver(e, Logged)
  BY DEF WorthOf
<1>16. Logged \subseteq FillId /\ IsFiniteSet(Logged)
  BY CurIsLogged, FillsAreFinite DEF LedgerTypes
<1>17. \A f \in Logged : paid[f] = c * gives[f] /\ gives[f] \in Int /\ paid[f] \in Int
  <2> TAKE f \in Logged
  <2>1. gives[f] \in Int /\ c \in Int /\ f \in FillId
    BY <1>4, <1>9, <1>16
  <2> QED
    BY <2>1
<1>18. \A f \in Logged : profit[f] = paid[f] - e[f]
  <2> TAKE f \in Logged
  <2> DEFINE x == log[f].price
             g == gives[f]
  <2>1. x \in Int /\ g \in Int /\ c \in Int
    <3>1. x \in Int
      BY FillsAreNumbers
    <3>2. g \in Int /\ c \in Int
      BY <1>4, <1>9, <1>16
    <3> QED
      BY <3>1, <3>2
  <2>2. profit[f] = (c - x) * g
    BY DEF c
  <2>3. paid[f] = c * g /\ e[f] = x * g
    BY <1>14, <1>17
  <2> HIDE DEF x, g, profit, paid, e
  <2> QED
    BY <2>1, <2>2, <2>3, ProductOfDifference
<1>19. \A f \in Logged : b[f] = a[f] - e[f]
  <2> TAKE f \in Logged
  <2> DEFINE x == log[f].price
             g == gives[f]
             l == left[f]
  <2>1. x \in Int /\ g \in Int /\ l \in Int /\ new[f] = l - g
    BY <1>8, <1>9, <1>16, FillsAreNumbers
  <2>2. a[f] = x * l /\ b[f] = x * new[f] /\ e[f] = x * g
    BY <1>14
  <2> HIDE DEF x, g, l, a, b, e
  <2>3. x * (l - g) = x * l - x * g
    BY <2>1
  <2> QED
    BY <2>1, <2>2, <2>3
<1> HIDE DEF a, b, e, paid, profit
<1>20. /\ SumOver(profit, Logged) = SumOver(paid, Logged) - SumOver(e, Logged)
       /\ SumOver(paid, Logged) \in Int /\ SumOver(e, Logged) \in Int
  <2>1. \A f \in Logged : paid[f] \in Int /\ e[f] \in Int /\ profit[f] = paid[f] - e[f]
    BY <1>14, <1>17, <1>18
  <2> QED
    BY <1>16, <2>1, SumOfDifferences
<1>21. SumOver(b, Logged) = SumOver(a, Logged) - SumOver(e, Logged)
  <2>1. \A f \in Logged : a[f] \in Int /\ e[f] \in Int /\ b[f] = a[f] - e[f]
    BY <1>14, <1>19
  <2> QED
    BY <1>16, <2>1, SumOfDifferences
<1>22. SumOver(gives, Logged) = q
  <2>1. \A f \in FillId \ Logged : gives[f] = 0
    BY <1>3, <1>10
  <2>2. \A f \in Logged : gives[f] \in Int
    BY <1>17
  <2>3. SumOver(gives, FillId) = SumOver(gives, Logged)
    BY <1>16, <2>1, <2>2, FillsAreFinite, SumExtends
  <2> QED
    BY <1>7, <2>3
<1>23. SumOver(paid, Logged) = ValueOf[n]
  <2>1. \A f \in Logged : gives[f] \in Int /\ paid[f] = c * gives[f]
    BY <1>17
  <2>2. SumOver(paid, Logged) = c * SumOver(gives, Logged)
    BY <1>4, <1>16, <2>1, SumScales
  <2> QED
    BY <1>4, <1>22, <2>2
<1>24. gain \in Int /\ gain = CashOf(1..n) + WorthOf(new)
  <2>1. /\ CashOf(1..n) \in Int /\ CashOf(1..(n - 1)) \in Int /\ ValueOf[n] \in Int
        /\ CashOf(1..n) = CashOf(1..(n - 1)) + ValueOf[n]
    <3>1. /\ CashOf(1..n) \in Int /\ CashOf(1..(n - 1)) \in Int /\ ValueOf[n] \in Int
          /\ CashOf(1..n) = CashOf(1..(n - 1))
              + IF log[n].side = "buy" THEN -ValueOf[n] ELSE ValueOf[n]
      BY CashAdds
    <3> QED
      BY <3>1
  <2> QED
    BY <1>1, <1>14, <1>15, <1>20, <1>21, <1>23, <2>1
<1> HIDE DEF gain
<1>25. QueueHolds(n, new)
  BY <1>8, <1>10, <1>11, <1>12, <1>13 DEF QueueHolds
<1>26. MatchHolds(n, t)
  BY <1>24, <1>25 DEF MatchHolds
<1> QED
  BY <1>2, <1>26

\* The cost of nothing.
LEMMA WorthOfNothing ==
  ASSUME LedgerTypes, NEW left \in [FillId -> Int], \A f \in FillId : left[f] = 0
  PROVE  WorthOf(left) = 0
<1> DEFINE a == CostOf(left)
<1>1. Logged \subseteq FillId /\ IsFiniteSet(Logged)
  BY CurIsLogged, FillsAreFinite DEF LedgerTypes
<1>2. \A f \in Logged : a[f] = 0
  <2> TAKE f \in Logged
  <2>1. a[f] = log[f].price * left[f] /\ log[f].price \in Int /\ left[f] = 0
    BY <1>1, CostsAreNumbers, FillsAreNumbers
  <2> HIDE DEF a
  <2> QED
    BY <2>1
<1> HIDE DEF a
<1>3. SumOver(a, Logged) = 0
  BY <1>1, <1>2, SumOfZeros
<1> QED
  BY <1>3 DEF WorthOf, a

\* At the start of the log the queue is empty.
LEMMA MatchBegins ==
  ASSUME LedgerTypes PROVE MatchHolds(0, MatchStart)
<1> DEFINE z == [f \in FillId |-> 0]
<1>1. Buys(1..0) = {} /\ 1..0 = {}
  BY DEF Buys
<1>2. z \in [FillId -> Nat] /\ \A f \in FillId : z[f] = 0
  OBVIOUS
<1>3. CashOf(1..0) = 0 /\ NetOf(log, 1..0) = 0
  BY <1>1, SumOfNothing DEF CashOf, NetOf
<1> HIDE DEF z
<1>4. SumOver(z, FillId) = 0
  BY <1>2, FillsAreFinite, SumOfZeros
<1>5. QueueHolds(0, z)
  BY <1>1, <1>2, <1>3, <1>4 DEF QueueHolds
<1>6. WorthOf(z) = 0
  <2>1. z \in [FillId -> Int]
    BY <1>2
  <2> QED
    BY <1>2, <2>1, WorthOfNothing
<1>7. MatchStart = [left |-> z, gain |-> 0]
  BY DEF MatchStart, z
<1> QED
  BY <1>3, <1>5, <1>6, <1>7 DEF MatchHolds

\* After the whole log the queue holds what was bought and not sold.
LEMMA MatchedHolds ==
  ASSUME LedgerTypes, \A n \in Logged : NetOf(log, 1..n) \in Nat
  PROVE  MatchHolds(Len(log), Matched)
<1>1. Logged = 1..Len(log) /\ Len(log) \in Nat
  BY CurIsLogged DEF LedgerTypes
<1> DEFINE T == {n \in Nat : n <= Len(log) => MatchHolds(n, MatchStates[n])}
<1>2. 0 \in T
  BY MatchBegins, MatchIsRecursive
<1>3. ASSUME NEW n \in T PROVE n + 1 \in T
  <2> SUFFICES ASSUME n + 1 <= Len(log) PROVE MatchHolds(n + 1, MatchStates[n + 1])
    OBVIOUS
  <2>1. n + 1 \in Logged /\ n + 1 - 1 = n /\ MatchHolds(n, MatchStates[n])
    BY <1>1
  <2>2. MatchStates[n + 1] = MatchStep(n + 1, MatchStates[n])
    BY <2>1, MatchIsRecursive
  <2> DEFINE m == n + 1
             s == MatchStates[n]
  <2>3. m \in Logged /\ MatchHolds(m - 1, s) /\ NetOf(log, 1..m) \in Nat
        /\ log[m].side \in {"buy", "sell"}
    BY <2>1, FillsAreNumbers
  <2> HIDE DEF m, s
  <2>4. MatchHolds(m, MatchStep(m, s))
    BY <2>3, BuyMatches, SaleMatches
  <2> QED
    BY <2>2, <2>4 DEF m, s
<1> HIDE DEF T
<1>4. T = Nat
  <2>1. T \subseteq Nat
    BY DEF T
  <2> QED
    BY <1>2, <1>3, <2>1, Induction
<1>5. MatchHolds(Len(log), MatchStates[Len(log)])
  BY <1>1, <1>4 DEF T
<1> QED
  BY <1>5, MatchIsRecursive

-----------------------------------------------------------------------------
(* The lots and the queue cost the same *)

\* The date of a fill; X holds some of what each fill bought; and it holds the
\* latest days of it.
DayOf == [f \in FillId |-> log[f].day]
Held(X) == \A f \in Buys(Logged) : X[f] \in Nat /\ X[f] <= log[f].qty
LatestDays(X) ==
  \A f, g \in Buys(Logged) : log[f].day < log[g].day /\ X[g] < log[g].qty => X[f] = 0

\* Of two ways to hold as much of what was bought, both the latest days of it,
\* neither holds more of one day.
LEMMA DayIsNoMore ==
  ASSUME LedgerTypes, NEW A, NEW B, Held(A), Held(B), LatestDays(A), LatestDays(B),
         SumOver(A, Buys(Logged)) = SumOver(B, Buys(Logged)), NEW d
  PROVE  SumOver(A, Group(Buys(Logged), DayOf, d)) <= SumOver(B, Group(Buys(Logged), DayOf, d))
<1> DEFINE S == Buys(Logged)
           G == Group(S, DayOf, d)
<1>1. IsFiniteSet(S) /\ S \subseteq FillId /\ S \subseteq Logged
  BY CurIsLogged, FillsAreFinite DEF LedgerTypes, Buys
<1>2. G \subseteq S /\ IsFiniteSet(G)
  BY <1>1, FS_Subset DEF Group
<1>3. \A f \in S : /\ f \in Logged /\ log[f].day \in Int /\ log[f].qty \in Nat
                   /\ A[f] \in Nat /\ A[f] <= log[f].qty
                   /\ B[f] \in Nat /\ B[f] <= log[f].qty
                   /\ (f \in G <=> log[f].day = d)
  <2> TAKE f \in S
  <2>1. f \in Logged /\ f \in FillId /\ log[f] \in Fill
    BY <1>1, CurIsLogged DEF LedgerTypes
  <2>2. log[f].day \in Int
    BY <2>1, BoundAssumption DEF Fill
  <2>3. log[f].qty \in Nat
    BY <2>1, FillsAreNumbers
  <2>4. f \in G <=> log[f].day = d
    BY <2>1 DEF Group, DayOf
  <2> QED
    BY <2>1, <2>2, <2>3, <2>4 DEF Held
<1> SUFFICES ASSUME ~(SumOver(A, G) <= SumOver(B, G)) PROVE FALSE
  OBVIOUS
<1>4. PICK f \in G : ~(A[f] <= B[f])
  <2> SUFFICES ASSUME \A f \in G : A[f] <= B[f] PROVE FALSE
    OBVIOUS
  <2>1. \A f \in G : A[f] \in Int /\ B[f] \in Int /\ A[f] <= B[f]
    BY <1>2, <1>3
  <2> HIDE DEF G
  <2>2. SumOver(A, G) <= SumOver(B, G)
    BY <1>2, <2>1, SumIsMonotone
  <2> QED
    BY <2>2
<1>5. f \in S /\ log[f].day = d
  BY <1>2, <1>3
<1>6. ASSUME NEW x \in S \ G PROVE B[x] <= A[x]
  <2>1. CASE log[x].day < d
    <3>1. B[f] < log[f].qty
      BY <1>3, <1>4, <1>5
    <3>2. B[x] = 0
      BY <1>5, <2>1, <3>1 DEF LatestDays
    <3> QED
      BY <1>3, <3>2
  <2>2. CASE d < log[x].day
    <3>1. A[f] # 0
      BY <1>3, <1>4, <1>5
    <3>2. ~(A[x] < log[x].qty)
      BY <1>5, <2>2, <3>1 DEF LatestDays
    <3> QED
      BY <1>3, <3>2
  <2>3. log[x].day # d /\ log[x].day \in Int /\ d \in Int
    BY <1>3, <1>5
  <2> QED
    BY <2>1, <2>2, <2>3
<1> HIDE DEF G, S
<1>7. SumOver(A, G) <= SumOver(B, G)
  <2>1. \A x \in S : A[x] \in Int /\ B[x] \in Int
    BY <1>3
  <2>2. SumOver(B, S) = SumOver(A, S)
    BY DEF S
  <2> QED
    BY <1>1, <1>2, <1>6, <2>1, <2>2, SumDecides
<1> QED
  BY <1>7

\* Where the fills of a day have one price, they cost the same.
LEMMA SameCost ==
  ASSUME LedgerTypes, NEW A \in [FillId -> Int], NEW B \in [FillId -> Int],
         Held(A), Held(B), LatestDays(A), LatestDays(B),
         SumOver(A, Buys(Logged)) = SumOver(B, Buys(Logged)),
         \A f \in Logged : f \notin Buys(Logged) => A[f] = 0 /\ B[f] = 0,
         \A f, g \in Buys(Logged) : log[f].day = log[g].day => log[f].price = log[g].price
  PROVE  WorthOf(A) = WorthOf(B)
<1> DEFINE S == Buys(Logged)
           D == 0..Days
           a == CostOf(A)
           b == CostOf(B)
           G(d) == Group(S, DayOf, d)
           u == [d \in D |-> SumOver(a, G(d))]
           v == [d \in D |-> SumOver(b, G(d))]
<1>1. IsFiniteSet(S) /\ S \subseteq FillId /\ S \subseteq Logged /\ IsFiniteSet(Logged)
  BY CurIsLogged, FillsAreFinite DEF LedgerTypes, Buys
<1>2. /\ \A f \in Logged : a[f] = log[f].price * A[f] /\ a[f] \in Int
      /\ \A f \in Logged : b[f] = log[f].price * B[f] /\ b[f] \in Int
  BY CostsAreNumbers
<1>3. IsFiniteSet(D) /\ \A f \in S : DayOf[f] \in D
  <2>1. \A f \in S : f \in FillId /\ log[f] \in Fill
    BY <1>1, CurIsLogged DEF LedgerTypes
  <2>2. IsFiniteSet(D)
    BY FS_Interval, BoundAssumption
  <2> QED
    BY <2>1, <2>2 DEF Fill, DayOf
<1>4. ASSUME NEW d \in D PROVE u[d] = v[d]
  <2> DEFINE H == G(d)
  <2>1. H \subseteq S /\ IsFiniteSet(H)
    BY <1>1, FS_Subset DEF Group
  <2>2. PICK c \in Int : \A f \in H : log[f].price = c
    <3>1. CASE H = {}
      BY <3>1
    <3>2. CASE H # {}
      <4>1. PICK g \in H : TRUE
        BY <3>2
      <4>2. g \in S /\ log[g].day = d /\ log[g].price \in Int
        BY <1>1, <2>1, FillsAreNumbers DEF Group, DayOf
      <4>3. \A f \in H : f \in S /\ log[f].day = d
        BY <1>1, <2>1 DEF Group, DayOf
      <4>4. \A f \in H : log[f].price = log[g].price
        BY <4>2, <4>3
      <4> QED
        BY <4>2, <4>4
    <3> QED
      BY <3>1, <3>2
  <2>3. SumOver(A, H) = SumOver(B, H)
    <3>1. SumOver(A, H) <= SumOver(B, H) /\ SumOver(B, H) <= SumOver(A, H)
      BY DayIsNoMore
    <3>2. \A f \in H : A[f] \in Int /\ B[f] \in Int
      BY <1>1, <2>1
    <3> HIDE DEF H
    <3>3. SumOver(A, H) \in Int /\ SumOver(B, H) \in Int
      BY <2>1, <3>2, SumIsInt
    <3> QED
      BY <3>1, <3>3
  <2>4. \A f \in H : A[f] \in Int /\ a[f] = c * A[f] /\ B[f] \in Int /\ b[f] = c * B[f]
    <3> HIDE DEF a, b, H
    <3> QED
      BY <1>1, <1>2, <2>1, <2>2
  <2>5. u[d] = SumOver(a, H) /\ v[d] = SumOver(b, H)
    OBVIOUS
  <2> HIDE DEF a, b, H, u, v
  <2>6. SumOver(a, H) = c * SumOver(A, H)
    BY <2>1, <2>4, SumScales
  <2>7. SumOver(b, H) = c * SumOver(B, H)
    BY <2>1, <2>4, SumScales
  <2> QED
    BY <2>3, <2>5, <2>6, <2>7
<1>5. \A d \in D : u[d] = SumOver(a, Group(S, DayOf, d)) /\ v[d] = SumOver(b, Group(S, DayOf, d))
  OBVIOUS
<1>6. WorthOf(A) = SumOver(a, Logged) /\ WorthOf(B) = SumOver(b, Logged)
  BY DEF WorthOf
<1>7. \A f \in Logged \ S : a[f] = 0 /\ b[f] = 0
  <2> TAKE f \in Logged \ S
  <2>1. A[f] = 0 /\ B[f] = 0 /\ log[f].price \in Int
    BY FillsAreNumbers
  <2>2. a[f] = log[f].price * A[f] /\ b[f] = log[f].price * B[f]
    BY <1>2
  <2> HIDE DEF a, b
  <2> QED
    BY <2>1, <2>2
<1> HIDE DEF a, b, u, v, D, S
<1>8. SumOver(a, S) = SumOver(u, D) /\ SumOver(b, S) = SumOver(v, D)
  <2>1. \A f \in S : a[f] \in Int /\ DayOf[f] \in D
    BY <1>1, <1>2, <1>3
  <2>2. \A f \in S : b[f] \in Int /\ DayOf[f] \in D
    BY <1>1, <1>2, <1>3
  <2>3. SumOver(a, S) = SumOver(u, D)
    BY <1>1, <1>3, <1>5, <2>1, SumByGroup
  <2>4. SumOver(b, S) = SumOver(v, D)
    BY <1>1, <1>3, <1>5, <2>2, SumByGroup
  <2> QED
    BY <2>3, <2>4
<1>9. SumOver(u, D) = SumOver(v, D)
  BY <1>3, <1>4, SumIsLocal
<1>10. SumOver(a, Logged) = SumOver(a, S) /\ SumOver(b, Logged) = SumOver(b, S)
  <2>1. /\ \A f \in S : a[f] \in Int /\ b[f] \in Int
        /\ \A f \in Logged \ S : a[f] = 0 /\ b[f] = 0
    BY <1>1, <1>2, <1>7
  <2> QED
    BY <1>1, <2>1, SumExtends
<1> QED
  BY <1>6, <1>8, <1>9, <1>10

\* What fills brought in is what the sells were worth less what the buys cost.
LEMMA CashIsOfSides ==
  ASSUME LedgerTypes, NEW F \in SUBSET Logged
  PROVE  /\ CashOf(F) = SumOver(ValueOf, Sells(F)) - SumOver(ValueOf, Buys(F))
         /\ SumOver(ValueOf, Sells(F)) \in Int /\ SumOver(ValueOf, Buys(F)) \in Int
<1> DEFINE c == [f \in FillId |-> IF log[f].side = "buy" THEN -ValueOf[f] ELSE ValueOf[f]]
           v == ValueOf
           B == Buys(F)
           S == Sells(F)
<1>1. \A f \in Logged : /\ f \in FillId /\ v[f] \in Int
                        /\ log[f].side \in {"buy", "sell"}
  BY FillsAreNumbers
<1>2. B \cup S = F /\ B \cap S = {} /\ IsFiniteSet(B) /\ IsFiniteSet(S)
  <2>1. B \cup S = F /\ B \cap S = {} /\ B \subseteq FillId /\ S \subseteq FillId
    BY <1>1 DEF Buys, Sells
  <2> QED
    BY <2>1, FillsAreFinite
<1>3. /\ \A f \in B : v[f] \in Int /\ c[f] \in Int /\ c[f] = (-1) * v[f]
      /\ \A f \in S : v[f] \in Int /\ c[f] \in Int /\ c[f] = v[f]
  <2>1. \A f \in B : v[f] \in Int /\ c[f] = -v[f]
    BY <1>1 DEF Buys
  <2>2. \A f \in S : v[f] \in Int /\ c[f] = v[f]
    BY <1>1 DEF Sells
  <2> HIDE DEF c, v, B, S
  <2> QED
    BY <2>1, <2>2
<1>4. CashOf(F) = SumOver(c, F)
  BY DEF CashOf
<1> HIDE DEF c, v, B, S
<1>5. SumOver(c, B \cup S) = SumOver(c, B) + SumOver(c, S)
  <2>1. \A f \in B \cup S : c[f] \in Int
    BY <1>3
  <2> QED
    BY <1>2, <2>1, SumOfUnion
<1>6. SumOver(c, S) = SumOver(v, S)
  BY <1>2, <1>3, SumIsLocal
<1>7. SumOver(c, B) = (-1) * SumOver(v, B)
  <2>1. -1 \in Int
    OBVIOUS
  <2> QED
    BY <1>2, <1>3, <2>1, SumScales
<1>8. SumOver(v, S) \in Int /\ SumOver(v, B) \in Int
  BY <1>2, <1>3, SumIsInt
<1>9. CashOf(F) = SumOver(v, S) - SumOver(v, B)
  <2>1. SumOver(c, F) = SumOver(c, B \cup S)
    BY <1>2
  <2> QED
    BY <1>4, <1>5, <1>6, <1>7, <1>8, <2>1
<1> QED
  BY <1>8, <1>9 DEF v, B, S

\* The value of fills, as the property sums it.
LEMMA ValueIsSum ==
  ASSUME LedgerTypes, NEW F \in SUBSET Logged
  PROVE  SumOf([f \in F |-> log[f].price * log[f].qty], F) = SumOver(ValueOf, F)
<1> DEFINE g == [f \in F |-> log[f].price * log[f].qty]
<1>1. SumOf(g, F) = SumOver(g, F)
  BY DEF SumOf, SumOver
<1>2. \A f \in F : g[f] = ValueOf[f]
  BY FillsAreNumbers
<1>3. IsFiniteSet(F)
  BY CurIsLogged, FillsAreFinite DEF LedgerTypes
<1> HIDE DEF g
<1>4. SumOver(g, F) = SumOver(ValueOf, F)
  BY <1>2, <1>3, SumIsLocal
<1> QED
  BY <1>1, <1>4 DEF g

\* What the open lots earned at mark price p.
LEMMA PaperIs ==
  ASSUME LedgerProfits, Quiet, mishaps = 0, booked = Logged, NEW p \in Price,
         NEW A, A = [f \in FillId |-> lots[f].left]
  PROVE  SumOf([f \in FillId |-> LotUnrealized(f, p)], FillId) = p * OpenQty - WorthOf(A)
<1> USE DEF LedgerProfits
<1> DEFINE g == [f \in FillId |-> LotUnrealized(f, p)]
           w == CostOf(A)
           m == [f \in FillId |-> p * A[f]]
<1>1. Logged \subseteq FillId /\ IsFiniteSet(Logged) /\ IsFiniteSet(FillId)
  BY CurIsLogged, FillsAreFinite DEF LedgerTypes
<1>2. A \in [FillId -> Int] /\ \A f \in FillId : A[f] = lots[f].left
  BY SizeAssumption DEF LedgerTypes, TypeOK, Lot
<1>3. \A f \in FillId : ~IsOpen(f) => g[f] = 0 /\ A[f] = 0
  BY <1>2 DEF LotUnrealized, IsOpen, Exists, LedgerTypes, LotsHold, NoLot
<1>4. \A f \in FillId \ Logged : ~IsOpen(f)
  BY BookedIsSettled DEF TableHolds, IsOpen, Exists
<1>5. p \in Int
  BY PriceAssumption
<1>6. \A f \in Logged : /\ m[f] = p * A[f] /\ m[f] \in Int /\ A[f] \in Int
                        /\ w[f] \in Int /\ g[f] = m[f] - w[f]
  <2> TAKE f \in Logged
  <2> DEFINE x == log[f].price
             l == A[f]
  <2>1. f \in FillId /\ x \in Int /\ l \in Int
    BY <1>1, <1>2, FillsAreNumbers
  <2>2. w[f] = x * l /\ m[f] = p * l
    BY <1>2, <2>1, CostsAreNumbers
  <2>3. CASE IsOpen(f)
    <3>1. g[f] = (p - x) * l
      BY <1>2, <2>1, <2>3 DEF LotUnrealized
    <3> HIDE DEF x, l, g, m, w
    <3> QED
      BY <1>5, <2>1, <2>2, <3>1, ProductOfDifference DEF l
  <2>4. CASE ~IsOpen(f)
    <3>1. g[f] = 0 /\ l = 0
      BY <1>3, <2>1, <2>4
    <3>2. x * 0 = 0 /\ p * 0 = 0
      BY <1>5, <2>1
    <3> HIDE DEF x, g, m, w
    <3>3. w[f] = 0 /\ m[f] = 0
      BY <2>2, <3>1, <3>2
    <3> QED
      BY <1>5, <2>1, <2>2, <3>1, <3>3
  <2> QED
    BY <2>3, <2>4
<1>7. SumOf(g, FillId) = SumOver(g, FillId) /\ WorthOf(A) = SumOver(w, Logged)
  BY DEF SumOf, SumOver, WorthOf
<1>8. OpenQty = SumOver(A, FillId)
  BY OpenIsHeld DEF HeldIn
<1>9. \A f \in FillId \ Logged : g[f] = 0 /\ A[f] = 0
  BY <1>3, <1>4
<1> HIDE DEF g, w, m
<1>10. SumOver(g, FillId) = SumOver(g, Logged)
  <2>1. \A f \in Logged : g[f] \in Int
    BY <1>6
  <2> QED
    BY <1>1, <1>9, <2>1, SumExtends
<1>11. SumOver(A, FillId) = SumOver(A, Logged)
  <2>1. \A f \in Logged : A[f] \in Int
    BY <1>6
  <2> QED
    BY <1>1, <1>9, <2>1, SumExtends
<1>12. SumOver(g, Logged) = SumOver(m, Logged) - SumOver(w, Logged)
  BY <1>1, <1>6, SumOfDifferences
<1>13. SumOver(m, Logged) = p * SumOver(A, Logged)
  <2>1. \A f \in Logged : A[f] \in Int /\ m[f] = p * A[f]
    BY <1>6
  <2> QED
    BY <1>1, <1>5, <2>1, SumScales
<1>14. SumOf(g, FillId) = p * OpenQty - WorthOf(A)
  BY <1>7, <1>8, <1>10, <1>11, <1>12, <1>13
<1> QED
  BY <1>14 DEF g

\* The lots and the queue hold the same latest days, at the same cost.
LEMMA LotsCostAsQueue ==
  ASSUME LedgerProfits, Quiet, mishaps = 0, booked = Logged, dropped = 0, dusted = 0,
         \A f, g \in Buys(Logged) : log[f].day = log[g].day => log[f].price = log[g].price,
         NEW A, A = [f \in FillId |-> lots[f].left]
  PROVE  /\ MatchHolds(Len(log), Matched)
         /\ WorthOf(A) = WorthOf(Matched.left)
<1> USE DEF LedgerProfits
<1> DEFINE B == Matched.left
           S == Buys(Logged)
<1>1. Logged = 1..Len(log) /\ Len(log) \in Nat /\ Logged \subseteq FillId
  BY CurIsLogged DEF LedgerTypes
<1>2. bookedRows = Logged /\ Settled = Logged /\ TableHolds(lots, log, Logged)
  BY BookedIsSettled
<1>3. mode # "down" /\ step # "lot"
  BY DEF Quiet
<1>4. \A n \in Logged : NetOf(log, 1..n) \in Nat
  <2>1. NeverShort(log, Logged)
    BY <1>2 DEF ProfitInv
  <2> QED
    BY <1>1, <2>1 DEF NeverShort, Logged
<1>5. MatchHolds(Len(log), Matched)
  BY <1>4, MatchedHolds
<1>6. QueueHolds(Len(log), B)
  BY <1>5 DEF MatchHolds
<1> HIDE DEF B
<1>7. /\ B \in [FillId -> Nat]
      /\ \A f \in FillId : f \notin S => B[f] = 0
      /\ \A f \in S : B[f] <= log[f].qty
      /\ \A f, g \in S : f < g /\ B[g] < log[g].qty => B[f] = 0
      /\ SumOver(B, FillId) = NetOf(log, Logged)
  BY <1>1, <1>6 DEF QueueHolds
<1>8. A \in [FillId -> Nat] /\ \A f \in FillId : A[f] = lots[f].left
  BY SizeAssumption DEF LedgerTypes, TypeOK, Lot
<1>9. S \subseteq FillId /\ S \subseteq Logged /\ IsFiniteSet(S) /\ IsFiniteSet(FillId)
  BY <1>1, FillsAreFinite DEF Buys
<1>10. \A f \in FillId : lots[f].pos # 0 <=> f \in S
  BY <1>2 DEF TableHolds, Buys
<1>11. \A f \in FillId : f \notin S => A[f] = 0
  BY <1>8, <1>10 DEF LedgerTypes, LotsHold, NoLot
<1>12. Held(A) /\ Held(B)
  BY <1>2, <1>7, <1>8, <1>9, <1>10 DEF TableHolds, Held
<1>13. LatestDays(A)
  BY <1>2, <1>8, <1>9, <1>10 DEF TableHolds, LatestDays
<1>14. LatestDays(B)
  <2> SUFFICES ASSUME NEW f \in S, NEW g \in S, log[f].day < log[g].day, B[g] < log[g].qty
               PROVE  B[f] = 0
    BY DEF LatestDays
  <2>1. f \in Logged /\ g \in Logged /\ f \in Nat /\ g \in Nat
    BY <1>1, <1>9
  <2>2. log[f].day \in Int /\ log[g].day \in Int
    BY <2>1, CurIsLogged, BoundAssumption DEF LedgerTypes, Fill
  <2>3. f < g
    <3>1. g <= f => log[g].day <= log[f].day
      BY <2>1 DEF ProfitInv, Ordered
    <3> QED
      BY <2>1, <2>2, <3>1
  <2> QED
    BY <1>7, <2>3
<1> HIDE DEF S
<1>15. SumOver(A, S) = SumOver(B, S)
  <2>1. SumOver(A, FillId) = NetOf(log, Logged)
    <3>1. HeldIn(lots) = NetOf(log, Logged)
      BY <1>2, <1>3, HeldIsNet
    <3> QED
      BY <3>1 DEF HeldIn
  <2>2. /\ \A f \in S : A[f] \in Int /\ B[f] \in Int
        /\ \A f \in FillId \ S : A[f] = 0 /\ B[f] = 0
    BY <1>7, <1>8, <1>9, <1>11
  <2>3. SumOver(A, FillId) = SumOver(A, S)
    BY <1>9, <2>2, SumExtends
  <2>4. SumOver(B, FillId) = SumOver(B, S)
    BY <1>9, <2>2, SumExtends
  <2> QED
    BY <1>7, <2>1, <2>3, <2>4
<1>16. A \in [FillId -> Int] /\ B \in [FillId -> Int]
  BY <1>7, <1>8
<1>17. \A f \in Logged : f \notin Buys(Logged) => A[f] = 0 /\ B[f] = 0
  BY <1>1, <1>7, <1>11 DEF S
<1>18. WorthOf(A) = WorthOf(B)
  BY <1>12, <1>13, <1>14, <1>15, <1>16, <1>17, SameCost DEF S
<1> QED
  BY <1>5, <1>18 DEF B

\* DailyPnLIsExact, in a state.
LEMMA DailyPnLIs ==
  ASSUME LedgerProfits PROVE DailyPnLIsExact
<1> USE DEF LedgerProfits
<1> DEFINE value(F) == SumOf([f \in F |-> log[f].price * log[f].qty], F)
           onePrice == \A f, g \in Buys(Logged) :
                         log[f].day = log[g].day => log[f].price = log[g].price
<1> SUFFICES ASSUME Quiet, mishaps = 0, booked = Logged, dropped = 0, dusted = 0,
                    onePrice, NEW p \in Price
             PROVE  DailyPnL(p) = value(Sells(Logged)) - value(Buys(Logged)) + p * OpenQty
  BY DEF DailyPnLIsExact
<1> DEFINE A == [f \in FillId |-> lots[f].left]
           B == Matched.left
           cash == SumOver(ValueOf, Sells(Logged)) - SumOver(ValueOf, Buys(Logged))
<1>1. SumOf([f \in FillId |-> LotUnrealized(f, p)], FillId) = p * OpenQty - WorthOf(A)
  BY PaperIs
<1>2. MatchHolds(Len(log), Matched) /\ WorthOf(A) = WorthOf(B)
  BY LotsCostAsQueue
<1>3. Logged = 1..Len(log)
  BY CurIsLogged DEF LedgerTypes
<1>4. Matched.gain = CashOf(Logged) + WorthOf(B)
  BY <1>2, <1>3 DEF MatchHolds
<1>5. CashOf(Logged) = cash /\ cash \in Int
  <2>1. Logged \in SUBSET Logged
    OBVIOUS
  <2> QED
    BY <2>1, CashIsOfSides
<1>6. value(Sells(Logged)) - value(Buys(Logged)) = cash
  <2>1. Sells(Logged) \in SUBSET Logged /\ Buys(Logged) \in SUBSET Logged
    BY DEF Sells, Buys
  <2>2. value(Sells(Logged)) = SumOver(ValueOf, Sells(Logged))
    BY <2>1, ValueIsSum
  <2>3. value(Buys(Logged)) = SumOver(ValueOf, Buys(Logged))
    BY <2>1, ValueIsSum
  <2> QED
    BY <2>2, <2>3
<1>7. WorthOf(B) \in Int
  <2>1. B \in [FillId -> Int]
    BY <1>2 DEF MatchHolds, QueueHolds
  <2> HIDE DEF B
  <2> QED
    BY <2>1, CostsAreNumbers
<1>8. p * OpenQty \in Int
  <2>1. p \in Int /\ OpenQty \in Int
    BY PriceAssumption, OpenIsHeld
  <2> QED
    BY <2>1
<1>9. DailyPnL(p) = Matched.gain + SumOf([f \in FillId |-> LotUnrealized(f, p)], FillId)
  BY DEF DailyPnL
<1> DEFINE s == SumOf([f \in FillId |-> LotUnrealized(f, p)], FillId)
           x == p * OpenQty
           y == value(Sells(Logged)) - value(Buys(Logged))
<1>10. s = x - WorthOf(B) /\ DailyPnL(p) = Matched.gain + s /\ y = cash /\ x \in Int
  BY <1>1, <1>2, <1>6, <1>8, <1>9
<1> HIDE DEF s, x, y, cash, A, B
<1>11. DailyPnL(p) = y + x
  BY <1>4, <1>5, <1>7, <1>10
<1> QED
  BY <1>11 DEF x, y

\* ProfitIsExact: both profits of a sleeve are what its fills earned and what is
\* held is worth.
THEOREM ProfitsAreExact == Spec => []ProfitIsExact
<1>1. LedgerProfits => ProfitIsExact
  BY EquityIs, DailyPnLIs DEF ProfitIsExact
<1> QED
  BY <1>1, ProfitStart, ProfitNext, PTL DEF Spec
=============================================================================
