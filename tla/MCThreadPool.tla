---------------------------- MODULE MCThreadPool ----------------------------
(* The instances of ThreadPool that TLC checks.  Threads and tasks are model *)
(* values.  No symmetry: the instances are checked for liveness too.         *)
EXTENDS ThreadPool
=============================================================================
