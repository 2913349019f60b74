---------------------------- MODULE MCReconciler ----------------------------
EXTENDS Reconciler
CONSTANTS s1
OneSymbol == [o \in Order |-> s1]
OnePrice == [s \in Symbol |-> 2]
=============================================================================
