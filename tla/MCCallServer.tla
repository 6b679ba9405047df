---------------------------- MODULE MCCallServer ----------------------------
(* CallServer on small instances: connections and call ids are              *)
(* interchangeable.                                                         *)
EXTENDS CallServer, TLC

Symmetry == Permutations(Conns) \cup Permutations(Calls)
=============================================================================
