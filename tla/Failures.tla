------------------------------ MODULE Failures ------------------------------
(***************************************************************************)
(* How a failure below becomes an error kind in the bridge (rust/src/      *)
(* lib.rs) and a Go error (httpclient/client.go).                          *)
(*                                                                         *)
(* A failure is what the code asks of an SDK error: is_timeout, is_builder,*)
(* is_connect, and the chain of its sources, itself first.  A node of the  *)
(* chain is named for what the code recognizes it by; "dns" and "socks"    *)
(* are labels of a phase, which count only if something lies beneath them. *)
(***************************************************************************)
EXTENDS Naturals, Sequences

Nodes == {"plain", "dns", "socks", "eof", "alert", "certificate"}
Kinds == {"timeout", "invalid_input", "dns", "unexpected_eof", "connect", "request"}

Failure(chains) ==
  [timeout : BOOLEAN, builder : BOOLEAN, connect : BOOLEAN, chain : chains]

(* A node of that name, from the i-th on... *)
HasNode(f, node, i) == \E j \in i .. Len(f.chain) : f.chain[j] = node

(* ...and a label, with a source of its own. *)
HasLabel(f, node, i) == \E j \in i .. Len(f.chain) - 1 : f.chain[j] = node

(* is_dns_error looks beneath the error itself. *)
IsDnsError(f) == f.connect /\ HasLabel(f, "dns", 2)

IsUnexpectedEof(f) == HasNode(f, "eof", 1)

(* has_handshake_failure_source: a refusal by the peer or the proxy, and   *)
(* nowhere the local side's own of a certificate.                          *)
HasHandshakeFailureSource(f) ==
  /\ ~HasNode(f, "certificate", 1)
  /\ HasNode(f, "alert", 1) \/ HasLabel(f, "socks", 1)

(* Slip: the phase of the error is not asked. *)
FromHttpErrorAnyPhase(f) ==
  IF f.timeout THEN "timeout"
  ELSE IF f.builder THEN "invalid_input"
  ELSE IF IsDnsError(f) THEN "dns"
  ELSE IF IsUnexpectedEof(f) THEN "unexpected_eof"
  ELSE IF HasHandshakeFailureSource(f) THEN "connect"
  ELSE "request"

(* Slip: the phase is asked before the time. *)
FromHttpErrorPhaseFirst(f) ==
  IF f.builder THEN "invalid_input"
  ELSE IF IsDnsError(f) THEN "dns"
  ELSE IF IsUnexpectedEof(f) THEN "unexpected_eof"
  ELSE IF f.connect /\ HasHandshakeFailureSource(f) THEN "connect"
  ELSE IF f.timeout THEN "timeout"
  ELSE "request"

(* From<HttpError>: the first question answered yes decides. *)
FromHttpError(f) ==
  IF f.timeout THEN "timeout"
  ELSE IF f.builder THEN "invalid_input"
  ELSE IF IsDnsError(f) THEN "dns"
  ELSE IF IsUnexpectedEof(f) THEN "unexpected_eof"
  ELSE IF f.connect /\ HasHandshakeFailureSource(f) THEN "connect"
  ELSE "request"

(* From<RouteAwareRequestError>: a failure of the request, or of the route.*)
FromRouteError(f, ofRequest) ==
  IF ofRequest THEN FromHttpError(f)
  ELSE IF f.timeout THEN "timeout" ELSE "request"

(* requestError: a *net.OpError with Op "dial". *)
IsDialError(kind) == kind \in {"dns", "connect"}

(* Error.Timeout and Temporary. *)
IsTimeout(kind) == kind = "timeout"
=============================================================================
