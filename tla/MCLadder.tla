----------------------------- MODULE MCLadder ------------------------------
EXTENDS Ladder
CONSTANT m1
=============================================================================
