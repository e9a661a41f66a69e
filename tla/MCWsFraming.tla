---------------------------- MODULE MCWsFraming ----------------------------
(***************************************************************************)
(* Replies for WsFraming: bodies in chunks of up to two bytes, which may   *)
(* look like a line end; with an extension, a trailer, or bytes of the     *)
(* next reply behind them; read as far as any byte.                        *)
(***************************************************************************)
EXTENDS WsFraming

Contents == {<<"x">>, <<"LF">>, <<"x", "x">>, <<"CR", "LF">>}
ChunkLists == UNION {[1 .. n -> Contents] : n \in 0 .. 2}

Digit(n) == <<"0", "1", "2">>[n + 1]
Extensions == {<<>>, <<";", "x">>}
Written(chunk, ext) == <<Digit(Len(chunk))>> \o ext \o CRLF \o chunk \o CRLF

Joined(parts) ==
  CASE Len(parts) = 0 -> <<>>
    [] Len(parts) = 1 -> parts[1]
    [] OTHER -> parts[1] \o parts[2]

Cuts(chunks, ext) ==
  [i \in 1 .. Len(chunks) + 1 |->
     [at |-> 1 + Len(Joined([j \in 1 .. i - 1 |-> Written(chunks[j], ext)])),
      body |-> Len(Joined(First(chunks, i - 1)))]]

(* A mistake of the peer: a size nobody can read. *)
Unreadable == <<"x">> \o CRLF

Chunked ==
  UNION {
    LET message == Joined([i \in DOMAIN chunks |-> Written(chunks[i], ext)])
                   \o last \o trailer \o CRLF
        wire == message \o behind
    IN {[framing |-> "chunked", expected |-> 0, captured |-> First(wire, n), wire |-> wire,
         entity |-> Joined(chunks), cuts |-> Cuts(chunks, ext),
         whole |-> last # Unreadable /\ n >= Len(message)] : n \in 0 .. Len(wire)}
    : chunks \in ChunkLists, ext \in Extensions,
      last \in {<<"0">> \o CRLF, Unreadable},
      trailer \in {<<>>, <<"x">> \o CRLF}, behind \in {<<>>, <<"x">>}}

Bodies == UNION {[1 .. n -> {"x", "CR"}] : n \in 0 .. 3}

(* A body of its own length, with bytes behind it or cut; or of no length, *)
(* which ends nowhere.  Where no body may be, there is none to miss.       *)
Unchunked ==
  UNION {
    {[framing |-> f, expected |-> Len(body), captured |-> First(body \o <<"x">>, n),
      wire |-> body \o <<"x">>, cuts |-> <<>>,
      entity |-> IF f = "none" THEN body \o <<"x">> ELSE body, whole |-> n >= Len(body)]
       : f \in {"none", "length"}, n \in 0 .. Len(body) + 1}
    \union {[framing |-> "bodiless", expected |-> 0, captured |-> body, wire |-> body,
                  cuts |-> <<>>, entity |-> <<>>, whole |-> TRUE]}
    : body \in Bodies}

AllReplies == Chunked \union Unchunked
=============================================================================
