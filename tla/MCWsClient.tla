----------------------------- MODULE MCWsClient -----------------------------
(* WsClient with two goroutines; their callbacks are model values. *)
EXTENDS WsClient, TLC

CONSTANTS u1, u2, c1, c2

Two == u1 :> c1 @@ u2 :> c2

(* Goroutines are alike together with their callbacks. *)
Alike == {u1 :> u2 @@ u2 :> u1 @@ c1 :> c2 @@ c2 :> c1}
=============================================================================
