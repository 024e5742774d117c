------------------------------ MODULE MCCollector ------------------------------
(* Collector for TLC.  The run asks whether a collection returns in the    *)
(* end, which rules symmetry out.                                          *)
EXTENDS Collector, TLC
===============================================================================
