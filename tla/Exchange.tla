------------------------------ MODULE Exchange ------------------------------
(***************************************************************************)
(* One request of a client, from the options the program gives NewClient   *)
(* or NewTransport to the end of the response body: what both sides make   *)
(* of the options, the redirect loop of a fixed route (send_fixed) with    *)
(* its two timers, and what the caller is told of a failure.               *)
(*                                                                         *)
(* Time is counted in parts of a millisecond.  Timers fire when they are   *)
(* due: the clock waits for them.  Redirect rules and the automatic routes *)
(* are the SDK's; of a redirect counts where the code branches on it.      *)
(***************************************************************************)
EXTENDS Failures

CONSTANTS Parts,         \* parts of a millisecond
          Timeouts,      \* Options.Timeout, in parts; 0 for none
          MaxRedirects,  \* redirects::MAX_REDIRECTS
          Chains         \* chains of sources that failures have

ASSUME ExchangeAssumption ==
  /\ Parts \in Nat \ {0}
  /\ Timeouts \subseteq Nat
  /\ MaxRedirects \in Nat
  /\ Chains \subseteq Seq(Nodes)

VARIABLES
  options,   \* what the program asked for
  client,    \* what the bridge made of it, if accepted
  refusedBy, \* who refused the options: "nobody", "go" or "bridge"
  phase,     \* where the request is
  stage,     \* where its current hop is: "connecting" or "sent"
  clock,
  deadline,  \* of the whole request, 0 for none
  hopEnd,    \* of the current hop, its body included; 0 for none
  hops,      \* redirects followed
  handed,    \* the response handed out: a redirect, or "final"
  kind,      \* the error kind it ended with, or "none"
  timedOut,  \* a timer ended it (history)
  sources    \* the chain of the failure that ended it (history)

settingVars == <<options, client, refusedBy>>
hopVars == <<stage, hopEnd, hops>>
endVars == <<handed, kind, timedOut, sources>>
vars == <<settingVars, phase, hopVars, clock, deadline, endVars>>

Redirects == {"noLocation", "badScheme", "unrepeatable", "next"}
Routes == {"automatic", "direct", "proxy", "badProxy", "conflict"}

Options ==
  [via : {"client", "transport"}, timeout : Timeouts, route : Routes,
   fallback : BOOLEAN, disableRedirects : BOOLEAN, cookies : {"none", "good", "bad"}]

TypeOK ==
  /\ options \in Options
  /\ client \in [fixed : BOOLEAN, follow : BOOLEAN, timeoutMs : Nat]
  /\ refusedBy \in {"nobody", "go", "bridge"}
  /\ phase \in {"configured", "hop", "stream", "over"}
  /\ stage \in {"none", "connecting", "sent"}
  /\ clock \in Nat /\ deadline \in Nat /\ hopEnd \in Nat
  /\ hops \in 0 .. MaxRedirects
  /\ handed \in {"none", "final"} \union Redirects
  /\ kind \in Kinds \union {"none"}
  /\ timedOut \in BOOLEAN
  /\ sources \in Chains \union {<<>>}

-----------------------------------------------------------------------------
(* NewTransport and NewClient *)

Explicit(route) == route # "automatic"

(* Slip: rounded down. *)
DurationMSDown(d) == d \div Parts

(* durationMS rounds up: no timeout asked for becomes none. *)
DurationMS(d) == d \div Parts + IF d % Parts = 0 THEN 0 ELSE 1

(* Slip: the caller's choice is kept. *)
TransportOptionsKept(o) == [o EXCEPT !.timeout = 0]

(* The Transport keeps time and follows redirects by Go's means. *)
TransportOptions(o) == [o EXCEPT !.timeout = 0, !.disableRedirects = TRUE]

(* Go's own checks; a Transport takes no cookies. *)
GoRejects(o) ==
  \/ o.via = "transport" /\ o.cookies # "none"
  \/ o.route = "conflict"
  \/ Explicit(o.route) /\ o.fallback

(* What NewClient sends to the bridge. *)
ConfigOf(o) ==
  LET p == IF o.via = "transport" THEN TransportOptions(o) ELSE o IN
  [timeoutMs |-> DurationMS(p.timeout), route |-> p.route, fallback |-> p.fallback,
   disableRedirects |-> p.disableRedirects, cookies |-> p.cookies]

(* parse_proxy: an address no request could go through. *)
ParseProxyFails(c) == c.route = "badProxy"

(* create, in the bridge, checks again, and what Go left to it. *)
BridgeRejects(c) ==
  \/ c.route = "conflict"
  \/ ParseProxyFails(c)
  \/ Explicit(c.route) /\ c.fallback
  \/ c.cookies = "bad"

ClientOf(c) ==
  [fixed |-> Explicit(c.route), follow |-> ~c.disableRedirects, timeoutMs |-> c.timeoutMs]

Init ==
  /\ options \in Options
  /\ client = ClientOf(ConfigOf(options))
  /\ refusedBy = IF GoRejects(options) THEN "go"
                 ELSE IF BridgeRejects(ConfigOf(options)) THEN "bridge" ELSE "nobody"
  /\ phase = "configured"
  /\ stage = "none"
  /\ clock = 0 /\ deadline = 0 /\ hopEnd = 0
  /\ hops = 0
  /\ handed = "none" /\ kind = "none" /\ timedOut = FALSE /\ sources = <<>>

-----------------------------------------------------------------------------
(* The end of the request: the body's, or an error of kind k. *)
EndAs(k, chain, byTimer) ==
  /\ phase' = "over"
  /\ kind' = k
  /\ sources' = chain
  /\ timedOut' = byTimer
  /\ UNCHANGED <<settingVars, hopVars, clock, deadline, handed>>

End(k) == EndAs(k, <<>>, FALSE)

Deadline == IF client.timeoutMs = 0 THEN 0 ELSE clock + client.timeoutMs * Parts

(* Slip: every hop is given the whole timeout. *)
HopEndWhole(end) == IF end = 0 THEN 0 ELSE clock + client.timeoutMs * Parts

(* A hop is given what remains: saturating, so it may be given nothing.    *)
HopEnd(end) == IF end = 0 THEN 0 ELSE clock + IF end > clock THEN end - clock ELSE 0

Hop(end) ==
  /\ phase' = "hop"
  /\ stage' = "connecting"
  /\ hopEnd' = HopEnd(end)

SendFixed ==
  /\ phase = "configured"
  /\ refusedBy = "nobody"
  /\ client.fixed
  /\ deadline' = Deadline
  /\ Hop(Deadline)
  /\ UNCHANGED <<settingVars, hops, clock, endVars>>

Connected ==
  /\ phase = "hop" /\ stage = "connecting"
  /\ stage' = "sent"
  /\ UNCHANGED <<settingVars, phase, clock, deadline, hopEnd, hops, endVars>>

HandOut(response) ==
  /\ phase' = "stream"
  /\ handed' = response
  /\ UNCHANGED <<settingVars, hopVars, clock, deadline, kind, timedOut, sources>>

TooMany == hops >= MaxRedirects

(* The loop in the order of its branches. *)
Answered ==
  /\ phase = "hop" /\ stage = "sent"
  /\ \/ HandOut("final")
     \/ HandOut("noLocation")
     \/ ~client.follow /\ \E r \in Redirects : HandOut(r)
     \/ client.follow /\ End("request")                 \* badScheme
     \/ client.follow /\ TooMany /\ End("request")
     \/ client.follow /\ ~TooMany /\ HandOut("unrepeatable")
     \/ /\ client.follow /\ ~TooMany
        /\ hops' = hops + 1
        /\ Hop(deadline)
        /\ UNCHANGED <<settingVars, clock, deadline, endVars>>

(* A failure knows the phase it happened in.  Building a request cannot    *)
(* fail once it is under way.                                              *)
Happens(f) == ~f.builder /\ f.connect = (phase = "hop" /\ stage = "connecting")

Fails ==
  /\ phase \in {"hop", "stream"}
  /\ \E f \in Failure(Chains) : Happens(f) /\ EndAs(FromHttpError(f), f.chain, FALSE)

(* Reqwest's timer for the hop and its body... *)
HopTimer ==
  /\ phase \in {"hop", "stream"}
  /\ hopEnd # 0 /\ clock >= hopEnd
  /\ \E f \in Failure(Chains) : Happens(f) /\ f.timeout /\ EndAs(FromHttpError(f), f.chain, TRUE)

(* ...and the loop's own. *)
OuterTimer ==
  /\ phase = "hop"
  /\ client.fixed
  /\ deadline # 0 /\ clock >= deadline
  /\ EndAs("timeout", <<>>, TRUE)

BodyEnds == phase = "stream" /\ End("none")

(* An automatic route: the SDK follows redirects itself, if it is to. *)
SendAutomatic ==
  /\ phase = "configured"
  /\ refusedBy = "nobody"
  /\ ~client.fixed
  /\ \/ /\ phase' = "stream"
        /\ deadline' = Deadline
        /\ hopEnd' = Deadline
        /\ hops' \in IF client.follow THEN 0 .. MaxRedirects ELSE {0}
        /\ handed' \in {"final"} \union IF client.follow THEN Redirects \ {"next"} ELSE Redirects
        /\ stage' = "sent"
        /\ UNCHANGED <<settingVars, clock, kind, timedOut, sources>>
     \/ \E f \in Failure(Chains), ofRequest \in BOOLEAN :
          ~f.builder /\ EndAs(FromRouteError(f, ofRequest), f.chain, FALSE)

DueNow == \/ hopEnd # 0 /\ clock >= hopEnd
          \/ phase = "hop" /\ deadline # 0 /\ clock >= deadline

Tick ==
  /\ phase \in {"hop", "stream"}
  /\ deadline # 0 /\ ~DueNow
  /\ clock' = clock + 1
  /\ UNCHANGED <<settingVars, phase, hopVars, deadline, endVars>>

Next ==
  \/ SendFixed \/ SendAutomatic \/ Connected \/ Answered \/ Fails
  \/ HopTimer \/ OuterTimer \/ BodyEnds \/ Tick

(* Time goes on and timers fire; peers owe nothing. *)
Spec == Init /\ [][Next]_vars /\ WF_vars(Tick) /\ WF_vars(HopTimer \/ OuterTimer)

-----------------------------------------------------------------------------
(* However many hops share it, and however late one starts, the request    *)
(* and the body of its last hop are over when the timeout is, to the       *)
(* millisecond.                                                            *)
Limited == options.via = "client" /\ options.timeout > 0

WithinBudget == Limited => clock < options.timeout + Parts

(* Whichever timer comes first, and whatever it interrupts, the caller is  *)
(* told of a timeout, and not before the time asked for.                   *)
TimeoutIsTold == timedOut => IsTimeout(kind) /\ Limited /\ clock >= options.timeout

(* However short the timeout, a request with one ends. *)
TimeoutEnds == (Limited /\ phase \in {"hop", "stream"}) ~> (phase = "over")

(* What Go reports as a failure to dial has sent nothing in that hop, and  *)
(* is not the client's own refusal of a certificate.                       *)
DialMeansUnsent ==
  IsDialError(kind) =>
    /\ stage # "sent"
    /\ kind = "connect" => \A i \in DOMAIN sources : sources[i] # "certificate"

(* One party follows redirects: the bridge up to its limit, or Go, which   *)
(* then gets to see every one of them.                                     *)
RedirectsByOne ==
  /\ hops <= MaxRedirects
  /\ IF options.via = "transport" \/ options.disableRedirects
       THEN hops = 0
       ELSE handed # "next"
=============================================================================
