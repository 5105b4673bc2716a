---------------------------- MODULE MC_PriceTable ----------------------------
(* Two price rows that may start at the same time. *)
EXTENDS PriceTable
==============================================================================
