----------------------------- MODULE MCDispatch -----------------------------
(* Three sleeves with a dispatch job each, the reserve job, two symbols.    *)
EXTENDS Dispatch, TLC
CONSTANTS haiku, sonnet, opus, manager, spy, tqqq, j1, j2, j3

MCSleeveOf == (j1 :> haiku) @@ (j2 :> opus) @@ (j3 :> sonnet)
=============================================================================
