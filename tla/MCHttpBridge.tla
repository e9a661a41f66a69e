---------------------------- MODULE MCHttpBridge ----------------------------
(* HttpBridge on small instances. *)
EXTENDS HttpBridge, TLC

Permuted == Permutations(Threads)
=============================================================================
