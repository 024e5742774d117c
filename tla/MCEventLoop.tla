------------------------------ MODULE MCEventLoop ------------------------------
(* Instances of EventLoop for TLC. *)
EXTENDS EventLoop, TLC

\* Requests and files are interchangeable; used by the runs without liveness.
Symmetric == Permutations(Fetch) \cup Permutations(File)
===============================================================================
