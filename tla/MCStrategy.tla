----------------------------- MODULE MCStrategy -----------------------------
EXTENDS Strategy

MCMacro == {<<"calm", "normal">>, <<"calm", "red">>}
=============================================================================
