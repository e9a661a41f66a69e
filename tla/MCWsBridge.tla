----------------------------- MODULE MCWsBridge -----------------------------
(* WsBridge on small instances. *)
EXTENDS WsBridge, TLC

Permuted == Permutations(Threads)

(* What an idle thread was last given bears on nothing in the bridge. *)
Given == [t \in Threads |-> IF pc[t] = "idle" THEN 0 ELSE arg[t]]
WithoutResults ==
  <<registryVars, cancelled, connVars, lockVars, socketVars,
    pc, awake, op, Given, held, sent, history>>
=============================================================================
