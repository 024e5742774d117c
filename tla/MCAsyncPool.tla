------------------------------ MODULE MCAsyncPool ------------------------------
(* AsyncPool for TLC.  The run asks whether requests are answered in the end, *)
(* which rules symmetry out.                                                  *)
EXTENDS AsyncPool, TLC
===============================================================================
