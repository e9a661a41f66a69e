----------------------------- MODULE MCExchange -----------------------------
(* Exchange with errors of up to two sources. *)
EXTENDS Exchange

ShortChains == {<<"plain">> \o s : s \in UNION {[1 .. n -> Nodes] : n \in 0 .. 2}}
=============================================================================
