------------------------------- MODULE MCBooks -------------------------------
(* What a fill leaves in the tables: its lots and outcomes, or the loss and   *)
(* bench counts of its sleeve.  The two share nothing: a behaviour is one of  *)
(* either.                                                                    *)
EXTENDS LotLedger, Tracker

CONSTANTS o1, m1

VARIABLE which

allVars == <<vars, trackerVars, which>>

IsLots(A) == which = "lots" /\ A /\ UNCHANGED <<trackerVars, which>>
IsTracker(A) == which = "tracker" /\ A /\ UNCHANGED <<vars, which>>

\* The tracker need not run once for each log of the past.
MCInit ==
  /\ Init /\ InitTracker /\ which \in {"lots", "tracker"}
  /\ which = "tracker" => log = <<>>

\* Spec of LotLedger or SpecTracker, as the case may be.
MCSpec == MCInit /\ [][IsLots(Next) \/ IsTracker(NextTracker)]_allVars

Fills(side, n, p) == [side |-> side, qty |-> n, price |-> p]
MCDeal == {Fills("buy", 2, 2), Fills("buy", 1, 2), Fills("buy", 1, 1),
           Fills("sell", 1, 1), Fills("sell", 1, 2), Fills("sell", 2, 1)}
Past(side, n, p) == [side |-> side, qty |-> n, price |-> p,
                     day |-> 0, order |-> o1]
MCPastLogs == {<<>>, <<Past("buy", 2, 2), Past("buy", 1, 2), Past("sell", 1, 1)>>}
=============================================================================
