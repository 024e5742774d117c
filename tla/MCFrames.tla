-------------------------------- MODULE MCFrames --------------------------------
(* Frames for TLC: the scopes other than the global one are interchangeable.   *)
EXTENDS Frames, TLC

Symmetric == Permutations(Scope \ {Global})
===============================================================================
