----------------------------- MODULE MCAdapters -----------------------------
EXTENDS Adapters

MCSideOf == [o \in Order |-> IF o = "o1" THEN "SELL" ELSE "BUY"]
=============================================================================
