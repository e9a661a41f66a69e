---------------------------- MODULE MCHttpClient ----------------------------
(* HttpClient with one request; its callback is a model value. *)
EXTENDS HttpClient, TLC

CONSTANTS r1, c1, u1, u2, u3

TheCallback == r1 :> c1

CallersAlike == Permutations(Users)
=============================================================================
