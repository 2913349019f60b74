------------------------------ MODULE MCFaults ------------------------------
(* What comes from outside and cannot be relied on: one order under every     *)
(* fault of the broker, its stream and the lookups, or the cache of bars over *)
(* a source that fails.  The two share nothing: a behaviour is one of either. *)
EXTENDS OMS, Bars, TLC

CONSTANTS a, b

VARIABLE which

allVars == <<vars, barVars, which>>

MCInit == Init /\ InitBars /\ which \in {"order", "bars"}

\* A request is for a alone or for both (a bound).
Batches == \A r \in Request : b \in req[r].syms => a \in req[r].syms

IsOrder(A) == which = "order" /\ A /\ UNCHANGED <<barVars, which>>
IsBars(A) == which = "bars" /\ A /\ Batches' /\ UNCHANGED <<vars, which>>

\* Spec or SpecBars, as the case may be.
MCSpec == MCInit /\ [][IsOrder(Next) \/ IsBars(NextBars)]_allVars

Symmetry == Permutations(Request)
=============================================================================
