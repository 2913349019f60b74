------------------------------- MODULE MCBars -------------------------------
(* One symbol, asked for by one caller at a time with two look-backs.      *)
EXTENDS Bars
=============================================================================
