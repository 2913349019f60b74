----------------------------- MODULE MCResearch -----------------------------
(* Two items about two symbols over three weeks.                           *)
EXTENDS Research

MCSymOf == [i \in Item |-> IF i = 1 THEN 1 ELSE 2]
=============================================================================
