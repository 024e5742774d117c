-------------------------------- MODULE Trees --------------------------------
(***************************************************************************)
(* Values as the containers hold them (Value.h), and values written out.   *)
(***************************************************************************)

\* A value; a container is named in "v".
Val(t, v) == [t |-> t, v |-> v]
\* A value written out: a container has its elements in "arr" or in "obj".
Tree(t, v, arr, obj) == [t |-> t, v |-> v, arr |-> arr, obj |-> obj]
Leaf(t, v) == Tree(t, v, <<>>, <<>>)
=============================================================================
