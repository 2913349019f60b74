------------------------------ MODULE MCBudget ------------------------------
(* Two threads and a budget over three days; or a snapshotter over three    *)
(* short days and the start of a fourth.  The two share nothing: a behaviour *)
(* is one of either.                                                         *)
EXTENDS Budget, Snapshots

CONSTANTS t1, t2

VARIABLE which

allVars == <<vars, snapVars, which>>

MCInit == Init /\ InitSnap /\ which \in {"budget", "snapshots"}

IsBudget(A) == which = "budget" /\ A /\ UNCHANGED <<snapVars, which>>
IsSnapshots(A) == which = "snapshots" /\ A /\ UNCHANGED <<vars, which>>

\* LiveSpec or SpecSnap, as the case may be.
MCSpec ==
  /\ MCInit /\ [][IsBudget(Next) \/ IsSnapshots(NextSnap)]_allVars
  /\ WF_allVars(IsBudget(WatchReads)) /\ WF_allVars(IsBudget(WatchTrips))
  /\ WF_allVars(IsSnapshots(TickStep))
=============================================================================
