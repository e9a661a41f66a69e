---------------------------- MODULE ExchangeProofs ----------------------------
(***************************************************************************)
(* Theorems about Exchange, for any timeouts, any resolution of the clock, *)
(* any number of redirects and any chains of sources.  That a request with *)
(* a timeout ends (TimeoutEnds) is a liveness property, and stays with TLC.*)
(***************************************************************************)
EXTENDS Exchange, TLAPS

-----------------------------------------------------------------------------
(* Rounding up: nothing becomes nothing, and anything else becomes at      *)
(* least what it was, by less than a millisecond.                          *)
LEMMA RoundsUp ==
  ASSUME NEW d \in Nat
  PROVE  /\ DurationMS(d) \in Nat
         /\ DurationMS(d) = 0 <=> d = 0
         /\ DurationMS(d) * Parts \in Nat
         /\ DurationMS(d) * Parts >= d
         /\ DurationMS(d) * Parts < d + Parts
         /\ d # 0 => DurationMS(d) * Parts # 0
<1> DEFINE q == d \div Parts
           r == d % Parts
<1>1. Parts \in Nat /\ Parts > 0
  BY ExchangeAssumption
<1>2. q \in Nat /\ r \in Nat /\ r < Parts /\ d = Parts * q + r
  BY <1>1
<1>3. DurationMS(d) = q + IF r = 0 THEN 0 ELSE 1
  BY DEF DurationMS
<1> HIDE DEF q, r
<1>4. CASE r = 0
  <2>1. DurationMS(d) = q
    BY <1>2, <1>3, <1>4
  <2>2. q * Parts = d
    BY <1>1, <1>2, <1>4
  <2>3. q = 0 <=> d = 0
    BY <1>1, <2>2, <1>2
  <2> QED BY <1>1, <1>2, <2>1, <2>2, <2>3
<1>5. CASE r # 0
  <2>1. DurationMS(d) = q + 1
    BY <1>2, <1>3, <1>5
  <2>2. (q + 1) * Parts = Parts * q + Parts /\ Parts * q \in Nat
    BY <1>1, <1>2
  <2>3. (q + 1) * Parts = d - r + Parts
    BY <1>1, <1>2, <2>2
  <2> QED BY <1>1, <1>2, <1>5, <2>1, <2>3, <2>2
<1> QED BY <1>4, <1>5

-----------------------------------------------------------------------------
(* The invariant *)

Budget == client.timeoutMs * Parts

(* The settings are what was made of the options, once and for all. *)
Configured == client = ClientOf(ConfigOf(options))

(* One deadline, which every hop and its body share, and which the clock   *)
(* does not pass.                                                          *)
OneDeadline ==
  /\ deadline \in {0, Budget}
  /\ hopEnd \in {0, deadline}
  /\ clock <= deadline
  /\ phase = "configured" => deadline = 0
  /\ phase \in {"hop", "stream"} => hopEnd = deadline
  /\ timedOut => kind = "timeout" /\ deadline # 0 /\ clock = deadline

(* Kinds and stages belong to phases; only who is to follow redirects has  *)
(* followed any.                                                           *)
PhasesOK ==
  /\ kind # "none" => phase = "over"
  /\ phase = "configured" => stage = "none" /\ hops = 0
  /\ ~client.follow => hops = 0
  /\ client.follow => handed # "next"

Inv == TypeOK /\ Configured /\ OneDeadline /\ PhasesOK /\ DialMeansUnsent

(* What NewClient makes of a program's options. *)
LEMMA ConfigOfType ==
  ASSUME NEW o \in Options
  PROVE  /\ ClientOf(ConfigOf(o)) \in [fixed : BOOLEAN, follow : BOOLEAN, timeoutMs : Nat]
         /\ ClientOf(ConfigOf(o)).timeoutMs = IF o.via = "transport" THEN 0 ELSE DurationMS(o.timeout)
         /\ ClientOf(ConfigOf(o)).follow = (o.via # "transport" /\ ~o.disableRedirects)
<1>1. o.timeout \in Nat /\ o.disableRedirects \in BOOLEAN
  BY ExchangeAssumption DEF Options
<1>2. CASE o.via = "transport"
  <2>1. DurationMS(0) = 0
    BY RoundsUp
  <2>2. ClientOf(ConfigOf(o)) = [fixed |-> o.route # "automatic", follow |-> FALSE,
                                 timeoutMs |-> DurationMS(0)]
    BY <1>2 DEF ClientOf, ConfigOf, TransportOptions, Options, Explicit
  <2>3. ClientOf(ConfigOf(o)).follow = FALSE /\ ClientOf(ConfigOf(o)).timeoutMs = 0
    BY <2>1, <2>2
  <2>4. ClientOf(ConfigOf(o)) \in [fixed : BOOLEAN, follow : BOOLEAN, timeoutMs : Nat]
    BY <2>1, <2>2
  <2>5. ClientOf(ConfigOf(o)).follow = (o.via # "transport" /\ ~o.disableRedirects)
    BY <1>2, <2>3, Zenon
  <2> QED BY <1>2, <2>3, <2>4, <2>5
<1>3. CASE o.via # "transport"
  <2>1. DurationMS(o.timeout) \in Nat
    BY <1>1, RoundsUp
  <2>2. /\ ClientOf(ConfigOf(o)).timeoutMs = DurationMS(o.timeout)
        /\ ClientOf(ConfigOf(o)).follow = ~o.disableRedirects
        /\ ClientOf(ConfigOf(o)) = [fixed |-> o.route # "automatic", follow |-> ~o.disableRedirects,
                                    timeoutMs |-> DurationMS(o.timeout)]
    BY <1>3 DEF ClientOf, ConfigOf, Options, Explicit
  <2> QED BY <1>1, <1>3, <2>1, <2>2
<1> QED BY <1>2, <1>3

LEMMA BudgetType ==
  ASSUME Inv
  PROVE  Budget \in Nat /\ client.timeoutMs \in Nat /\ (client.timeoutMs # 0 => Budget # 0)
<1>1. client.timeoutMs \in Nat /\ Parts \in Nat \ {0}
  BY ExchangeAssumption DEF Inv, TypeOK
<1> QED BY <1>1 DEF Budget

LEMMA InvInit == Init => Inv
<1> SUFFICES ASSUME Init PROVE Inv
  OBVIOUS
<1>1. client \in [fixed : BOOLEAN, follow : BOOLEAN, timeoutMs : Nat]
  BY ConfigOfType DEF Init
<1>2. refusedBy \in {"nobody", "go", "bridge"}
  BY DEF Init
<1>3. 0 \in 0 .. MaxRedirects
  BY ExchangeAssumption
<1>4. TypeOK
  BY <1>1, <1>2, <1>3 DEF Init, TypeOK
<1> QED BY <1>4 DEF Init, Inv, Configured, OneDeadline, PhasesOK, DialMeansUnsent, IsDialError

-----------------------------------------------------------------------------
(* What failures become *)

LEMMA KindOfFailure ==
  ASSUME NEW f
  PROVE  /\ FromHttpError(f) \in Kinds
         /\ f.timeout => FromHttpError(f) = "timeout"
         /\ IsDialError(FromHttpError(f)) => f.connect
         /\ FromHttpError(f) = "connect" => ~HasNode(f, "certificate", 1)
<1>1. FromHttpError(f) \in Kinds
  BY DEF FromHttpError, Kinds
<1>2. f.timeout => FromHttpError(f) = "timeout"
  BY DEF FromHttpError
<1>3. IsDialError(FromHttpError(f)) => f.connect
  BY DEF FromHttpError, IsDialError, IsDnsError
<1>4. FromHttpError(f) = "connect" => ~HasNode(f, "certificate", 1)
  BY DEF FromHttpError, HasHandshakeFailureSource
<1> QED BY <1>1, <1>2, <1>3, <1>4

(* A chain without a certificate of the client's own. *)
LEMMA NoCertificate ==
  ASSUME NEW f \in Failure(Chains), ~HasNode(f, "certificate", 1)
  PROVE  \A i \in DOMAIN f.chain : f.chain[i] # "certificate"
<1>1. f.chain \in Seq(Nodes)
  BY ExchangeAssumption DEF Failure
<1>2. DOMAIN f.chain = 1 .. Len(f.chain)
  BY <1>1
<1> QED BY <1>2 DEF HasNode

-----------------------------------------------------------------------------
(* The end of a request keeps the invariant, if its kind is one the phase  *)
(* allows and a timer has been the end only where it was due.              *)
LEMMA EndKeeps ==
  ASSUME Inv, NEW k \in Kinds \union {"none"}, NEW chain \in Chains \union {<<>>},
         NEW byTimer \in BOOLEAN, phase \in {"configured", "hop", "stream"},
         EndAs(k, chain, byTimer),
         byTimer => k = "timeout" /\ deadline # 0 /\ clock = deadline,
         IsDialError(k) => stage # "sent",
         k = "connect" => \A i \in DOMAIN chain : chain[i] # "certificate"
  PROVE  Inv'
<1>1. UNCHANGED <<settingVars, hopVars, clock, deadline, handed>>
  BY DEF EndAs
<1>2. phase' = "over" /\ kind' = k /\ sources' = chain /\ timedOut' = byTimer
  BY DEF EndAs
<1>3. TypeOK'
  BY <1>1, <1>2 DEF Inv, TypeOK, settingVars, hopVars
<1>4. Configured'
  BY <1>1 DEF Inv, Configured, settingVars
<1>5. OneDeadline'
  BY <1>1, <1>2 DEF Inv, OneDeadline, Budget, settingVars, hopVars
<1>6. PhasesOK'
  BY <1>1, <1>2 DEF Inv, PhasesOK, settingVars, hopVars
<1>7. DialMeansUnsent'
  BY <1>1, <1>2 DEF Inv, DialMeansUnsent, hopVars
<1> QED BY <1>3, <1>4, <1>5, <1>6, <1>7 DEF Inv

(* A failure that happens now, whatever it came from. *)
LEMMA FailureKeeps ==
  ASSUME Inv, NEW f \in Failure(Chains), NEW byTimer \in BOOLEAN,
         phase \in {"hop", "stream"}, Happens(f),
         EndAs(FromHttpError(f), f.chain, byTimer),
         byTimer => f.timeout /\ deadline # 0 /\ clock = deadline
  PROVE  Inv'
<1>1. FromHttpError(f) \in Kinds /\ (f.timeout => FromHttpError(f) = "timeout")
  BY KindOfFailure
<1>2. f.chain \in Chains
  BY DEF Failure
<1>3. IsDialError(FromHttpError(f)) => stage # "sent"
  <2>1. f.connect => stage = "connecting"
    BY DEF Happens
  <2> QED BY <2>1, KindOfFailure
<1>4. FromHttpError(f) = "connect" => \A i \in DOMAIN f.chain : f.chain[i] # "certificate"
  BY KindOfFailure, NoCertificate
<1> QED BY <1>1, <1>2, <1>3, <1>4, EndKeeps

(* The next hop is given what remains, which is the whole rest: the clock  *)
(* has not passed the deadline.                                            *)
LEMMA HopKeeps ==
  ASSUME Inv, NEW end \in {0, Budget}, clock <= end, Hop(end), deadline' = end,
         hops' \in 0 .. MaxRedirects, ~client.follow => hops' = 0,
         UNCHANGED <<settingVars, clock, endVars>>, phase \in {"configured", "hop"}
  PROVE  Inv'
<1>1. /\ Budget \in Nat /\ clock \in Nat /\ end \in Nat
      /\ Budget' = Budget
  BY BudgetType DEF Inv, TypeOK, Budget, settingVars
<1>2. HopEnd(end) = end
  BY <1>1 DEF HopEnd
<1>3. phase' = "hop" /\ stage' = "connecting" /\ hopEnd' = end
  BY <1>2 DEF Hop
<1>4. kind = "none" /\ timedOut = FALSE
  BY DEF Inv, PhasesOK, OneDeadline, TypeOK
<1>5. TypeOK'
  BY <1>1, <1>3 DEF Inv, TypeOK, settingVars, endVars
<1>6. Configured'
  BY DEF Inv, Configured, settingVars
<1>7. OneDeadline'
  BY <1>1, <1>3, <1>4 DEF OneDeadline, endVars
<1>8. PhasesOK'
  BY <1>3, <1>4 DEF Inv, PhasesOK, settingVars, endVars
<1>9. DialMeansUnsent'
  BY <1>3, <1>4 DEF DialMeansUnsent, IsDialError, endVars
<1> QED BY <1>5, <1>6, <1>7, <1>8, <1>9 DEF Inv

(* A response handed out: where the client follows, never a redirect it    *)
(* should have followed.                                                   *)
LEMMA HandOutKeeps ==
  ASSUME Inv, phase = "hop", NEW response \in {"final"} \union Redirects,
         client.follow => response # "next", HandOut(response)
  PROVE  Inv'
<1>1. phase' = "stream" /\ handed' = response
  BY DEF HandOut
<1>2. UNCHANGED <<settingVars, hopVars, clock, deadline, kind, timedOut, sources>>
  BY DEF HandOut
<1>3. kind = "none"
  BY DEF Inv, PhasesOK
<1>4. TypeOK'
  BY <1>1, <1>2 DEF Inv, TypeOK, settingVars, hopVars
<1>5. Configured' /\ DialMeansUnsent'
  BY <1>2 DEF Inv, Configured, DialMeansUnsent, settingVars, hopVars
<1>6. OneDeadline'
  BY <1>1, <1>2 DEF Inv, OneDeadline, Budget, settingVars, hopVars
<1>7. PhasesOK'
  BY <1>1, <1>2, <1>3 DEF Inv, PhasesOK, settingVars, hopVars
<1> QED BY <1>4, <1>5, <1>6, <1>7 DEF Inv

LEMMA AnsweredKeeps == ASSUME Inv, Answered PROVE Inv'
<1>1. phase = "hop" /\ stage = "sent"
  BY DEF Answered
<1>2. ASSUME NEW r \in {"final"} \union Redirects, HandOut(r), client.follow => r # "next"
      PROVE Inv'
  BY <1>1, <1>2, HandOutKeeps
<1>3. CASE End("request")
  BY <1>1, <1>3, EndKeeps DEF End, IsDialError, Kinds
<1>4. CASE /\ client.follow /\ ~TooMany
           /\ hops' = hops + 1
           /\ Hop(deadline)
           /\ UNCHANGED <<settingVars, clock, deadline, endVars>>
  <2>1. deadline \in {0, Budget} /\ clock <= deadline
    BY DEF Inv, OneDeadline
  <2>2. hops' \in 0 .. MaxRedirects
    BY <1>4, ExchangeAssumption DEF Inv, TypeOK, TooMany
  <2> QED BY <1>1, <1>4, <2>1, <2>2, HopKeeps
<1>5. {"final", "noLocation", "unrepeatable"} \subseteq {"final"} \union Redirects
  BY DEF Redirects
<1>6. CASE HandOut("final") \/ HandOut("noLocation") \/ HandOut("unrepeatable")
  BY <1>2, <1>5, <1>6
<1>7. CASE ~client.follow /\ \E r \in Redirects : HandOut(r)
  BY <1>2, <1>7
<1> QED BY <1>3, <1>4, <1>6, <1>7 DEF Answered

LEMMA SendAutomaticKeeps == ASSUME Inv, SendAutomatic PROVE Inv'
<1>1. phase = "configured" /\ stage = "none" /\ kind = "none"
  BY DEF SendAutomatic, Inv, PhasesOK
<1>2. deadline = 0 /\ clock = 0 /\ timedOut = FALSE
  BY <1>1 DEF Inv, OneDeadline, TypeOK
<1>3. ASSUME NEW f \in Failure(Chains), NEW ofRequest \in BOOLEAN,
             EndAs(FromRouteError(f, ofRequest), f.chain, FALSE)
      PROVE Inv'
  <2>1. FromRouteError(f, ofRequest) \in Kinds
    BY KindOfFailure DEF FromRouteError, Kinds
  <2>2. FromRouteError(f, ofRequest) = "connect" =>
          \A i \in DOMAIN f.chain : f.chain[i] # "certificate"
    <3>1. FromRouteError(f, ofRequest) = "connect" => FromHttpError(f) = "connect"
      BY DEF FromRouteError
    <3> QED BY <3>1, KindOfFailure, NoCertificate
  <2>3. f.chain \in Chains
    BY DEF Failure
  <2> QED BY <1>1, <1>3, <2>1, <2>2, <2>3, EndKeeps
<1>4. CASE /\ phase' = "stream"
           /\ deadline' = Deadline
           /\ hopEnd' = Deadline
           /\ hops' \in IF client.follow THEN 0 .. MaxRedirects ELSE {0}
           /\ handed' \in {"final"} \union IF client.follow THEN Redirects \ {"next"} ELSE Redirects
           /\ stage' = "sent"
           /\ UNCHANGED <<settingVars, clock, kind, timedOut, sources>>
  <2>1. Deadline \in {0, Budget} /\ Deadline \in Nat /\ Budget' = Budget /\ Budget \in Nat
    BY <1>2, <1>4, BudgetType DEF Deadline, Budget, settingVars
  <2>2. 0 \in 0 .. MaxRedirects
    BY ExchangeAssumption
  <2>3. /\ hops' \in 0 .. MaxRedirects /\ (~client.follow => hops' = 0)
        /\ handed' \in {"final"} \union Redirects /\ (client.follow => handed' # "next")
    BY <1>4, <2>2
  <2>4. TypeOK'
    BY <1>4, <2>1, <2>3 DEF Inv, TypeOK, settingVars
  <2>5. Configured' /\ DialMeansUnsent'
    BY <1>1, <1>4 DEF Inv, Configured, DialMeansUnsent, IsDialError, settingVars
  <2>6. OneDeadline'
    BY <1>2, <1>4, <2>1 DEF OneDeadline
  <2>7. PhasesOK'
    BY <1>1, <1>4, <2>3 DEF PhasesOK, settingVars
  <2> QED BY <2>4, <2>5, <2>6, <2>7 DEF Inv
<1> QED BY <1>3, <1>4 DEF SendAutomatic

LEMMA InvNext == Inv /\ [Next]_vars => Inv'
<1> SUFFICES ASSUME Inv, [Next]_vars PROVE Inv'
  OBVIOUS
<1>1. /\ clock \in Nat /\ deadline \in Nat /\ hopEnd \in {0, deadline} /\ clock <= deadline
      /\ Budget \in Nat
  BY BudgetType DEF Inv, TypeOK, OneDeadline
<1>2. CASE SendFixed
  <2>1. deadline = 0 /\ clock = 0 /\ hops = 0
    BY <1>1, <1>2 DEF SendFixed, Inv, OneDeadline, PhasesOK
  <2>2. Deadline \in {0, Budget} /\ clock <= Deadline
    BY <1>1, <2>1 DEF Deadline, Budget
  <2>3. hops' = 0 /\ 0 \in 0 .. MaxRedirects
    BY <1>2, <2>1, ExchangeAssumption DEF SendFixed
  <2> QED BY <1>2, <2>2, <2>3, HopKeeps DEF SendFixed
<1>3. CASE SendAutomatic
  BY <1>3, SendAutomaticKeeps
<1>4. CASE Connected
  <2>1. kind = "none"
    BY <1>4 DEF Connected, Inv, PhasesOK
  <2>2. TypeOK' /\ Configured'
    BY <1>4 DEF Connected, Inv, TypeOK, Configured, settingVars, endVars
  <2>3. OneDeadline'
    BY <1>4 DEF Connected, Inv, OneDeadline, Budget, settingVars, endVars
  <2>4. PhasesOK' /\ DialMeansUnsent'
    BY <1>4, <2>1 DEF Connected, Inv, PhasesOK, DialMeansUnsent, IsDialError, settingVars, endVars
  <2> QED BY <2>2, <2>3, <2>4 DEF Inv
<1>5. CASE Answered
  BY <1>5, AnsweredKeeps
<1>6. CASE Fails
  BY <1>6, FailureKeeps DEF Fails
<1>7. CASE HopTimer
  <2>1. deadline # 0 /\ clock = deadline
    BY <1>1, <1>7 DEF HopTimer
  <2> QED BY <1>7, <2>1, FailureKeeps DEF HopTimer
<1>8. CASE OuterTimer
  <2>1. deadline # 0 /\ clock = deadline
    BY <1>1, <1>8 DEF OuterTimer
  <2> QED BY <1>8, <2>1, EndKeeps DEF OuterTimer, IsDialError, Kinds
<1>9. CASE BodyEnds
  BY <1>9, EndKeeps DEF BodyEnds, End, IsDialError, Kinds
<1>10. CASE Tick
  <2>1. clock' = clock + 1 /\ phase \in {"hop", "stream"} /\ deadline # 0 /\ ~DueNow
    BY <1>10 DEF Tick
  <2>2. UNCHANGED <<settingVars, phase, hopVars, deadline, endVars>>
    BY <1>10 DEF Tick
  <2>3. hopEnd = deadline /\ kind = "none"
    BY <2>1 DEF Inv, OneDeadline, PhasesOK
  <2>4. clock' <= deadline /\ clock' \in Nat
    BY <1>1, <2>1, <2>3 DEF DueNow
  <2>5. timedOut = FALSE
    BY <2>3 DEF Inv, OneDeadline, TypeOK
  <2>6. TypeOK' /\ Configured'
    BY <2>2, <2>4 DEF Inv, TypeOK, Configured, settingVars, hopVars, endVars
  <2>7. OneDeadline'
    BY <2>2, <2>4, <2>5 DEF Inv, OneDeadline, Budget, settingVars, hopVars, endVars
  <2>8. PhasesOK' /\ DialMeansUnsent'
    BY <2>2 DEF Inv, PhasesOK, DialMeansUnsent, settingVars, hopVars, endVars
  <2> QED BY <2>6, <2>7, <2>8 DEF Inv
<1>11. CASE UNCHANGED vars
  BY <1>11 DEF vars, settingVars, hopVars, endVars, Inv, TypeOK, Configured,
               OneDeadline, Budget, PhasesOK, DialMeansUnsent
<1> QED BY <1>2, <1>3, <1>4, <1>5, <1>6, <1>7, <1>8, <1>9, <1>10, <1>11 DEF Next

-----------------------------------------------------------------------------
(* What follows *)

(* Types of the exchange. *)
THEOREM TypeCorrect == Spec => []TypeOK
<1>1. Inv => TypeOK
  BY DEF Inv
<1> QED BY <1>1, InvInit, InvNext, PTL DEF Spec

(* What the bridge made of the options of this request. *)
LEMMA Settings ==
  ASSUME Inv
  PROVE  /\ options \in Options /\ options.timeout \in Nat
         /\ client.timeoutMs = IF options.via = "transport" THEN 0 ELSE DurationMS(options.timeout)
         /\ client.follow = (options.via # "transport" /\ ~options.disableRedirects)
         /\ options.via \in {"client", "transport"} /\ options.disableRedirects \in BOOLEAN
<1>1. options \in Options /\ client = ClientOf(ConfigOf(options))
  BY DEF Inv, TypeOK, Configured
<1>2. options.timeout \in Nat
  BY <1>1, ExchangeAssumption DEF Options
<1> QED BY <1>1, <1>2, ConfigOfType DEF Options

(* A timeout of the caller's bounds the whole request, its redirects and   *)
(* the last body, to the millisecond.                                      *)
THEOREM BudgetKept == Spec => []WithinBudget
<1>1. ASSUME Inv PROVE WithinBudget
  <2>1. SUFFICES ASSUME Limited PROVE clock < options.timeout + Parts
    BY DEF WithinBudget
  <2>2. clock \in Nat /\ (clock <= 0 \/ clock <= Budget)
    BY <1>1 DEF Inv, OneDeadline, TypeOK
  <2>3. Budget = DurationMS(options.timeout) * Parts
    BY <1>1, <2>1, Settings DEF Limited, Budget
  <2>4. Budget \in Nat /\ Budget < options.timeout + Parts
    BY <1>1, <2>3, Settings, RoundsUp
  <2> QED BY <1>1, <2>1, <2>2, <2>4, Settings, ExchangeAssumption
<1> QED BY <1>1, InvInit, InvNext, PTL DEF Spec

(* A timer's end is told as a timeout, is the caller's own timeout, and    *)
(* never comes early.                                                      *)
THEOREM TimeoutTold == Spec => []TimeoutIsTold
<1>1. ASSUME Inv PROVE TimeoutIsTold
  <2>1. SUFFICES ASSUME timedOut
                 PROVE  IsTimeout(kind) /\ Limited /\ clock >= options.timeout
    BY DEF TimeoutIsTold
  <2>2. kind = "timeout" /\ Budget # 0 /\ clock = Budget
    BY <1>1, <2>1 DEF Inv, OneDeadline
  <2>3. client.timeoutMs # 0
    <3>1. SUFFICES ASSUME client.timeoutMs = 0 PROVE Budget = 0
      BY <2>2
    <3> QED BY <3>1, ExchangeAssumption DEF Budget
  <2>4. options.via = "client" /\ client.timeoutMs = DurationMS(options.timeout)
    BY <1>1, <2>3, Settings
  <2>5. options.timeout > 0 /\ Budget >= options.timeout
    BY <1>1, <2>3, <2>4, Settings, RoundsUp DEF Budget
  <2> QED BY <2>2, <2>4, <2>5 DEF IsTimeout, Limited
<1> QED BY <1>1, InvInit, InvNext, PTL DEF Spec

(* A failure to dial has sent nothing in its hop, and is never the local   *)
(* refusal of a certificate.                                               *)
THEOREM DialUnsent == Spec => []DialMeansUnsent
<1>1. Inv => DialMeansUnsent
  BY DEF Inv
<1> QED BY <1>1, InvInit, InvNext, PTL DEF Spec

(* The bridge follows redirects up to its limit or not at all, and then    *)
(* Go is handed each of them.                                              *)
THEOREM OneFollows == Spec => []RedirectsByOne
<1>1. ASSUME Inv PROVE RedirectsByOne
  <2>1. hops \in 0 .. MaxRedirects /\ MaxRedirects \in Nat
    BY <1>1, ExchangeAssumption DEF Inv, TypeOK
  <2>2. CASE options.via = "transport" \/ options.disableRedirects
    <3>1. ~client.follow
      BY <1>1, <2>2, Settings
    <3> QED BY <1>1, <2>1, <2>2, <3>1 DEF Inv, PhasesOK, RedirectsByOne
  <2>3. CASE ~(options.via = "transport" \/ options.disableRedirects)
    <3>1. client.follow
      BY <1>1, <2>3, Settings
    <3> QED BY <1>1, <2>1, <2>3, <3>1 DEF Inv, PhasesOK, RedirectsByOne
  <2> QED BY <2>2, <2>3
<1> QED BY <1>1, InvInit, InvNext, PTL DEF Spec
=============================================================================
