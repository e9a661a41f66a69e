# gocodex: specifications and proofs

gocodex gives Go programs two transports written in Rust: an HTTP client
(`httpclient`) and a WebSocket client (`websocket`). Go holds integer handles;
a static library keeps what they name, and every Go call is a blocking C call.
This directory models that machinery in TLA+, checks it with TLC, and proves
the parts that can be settled for every size with TLAPS.

## 1. The system

| Part | Source | State it keeps | Operations |
|---|---|---|---|
| HTTP bridge | `rust/src/http_client.rs` | registry (`next_id`, clients, calls) behind one mutex; a cancellation token per client, a child token per call; the phase of a call behind an async mutex | create, close, create_request, close_request, send, read |
| redirect loop | `http_client.rs:94-162` | request, hops, deadline | one exchange of a fixed-route call |
| HTTP configuration | `httpclient/client.go`, `http_client.rs:222-327` | none | what both sides check and make of the options |
| byte loops | `websocket_client.rs:160-211`, `472-488` | offsets | the verdict on a rejected upgrade; the frames of a message |
| WebSocket bridge | `rust/src/websocket_client.rs` | registry as above; per connection: pending request, read half, write half, `data_write`, `control_gate`, `peer_close_received` | create, close, create_connection, close_connection, connect, read, write (data and control) |
| C ABI | `rust/src/lib.rs` | none; owned buffers | exports, result codes, error kinds |
| runtime | `rust/src/runtime.rs` | one Tokio runtime with two workers | run: spawn the future, block the caller |
| cgo bridge | `internal/bridge` | none | one function per export, `takeResult` |
| `httpclient.Client` | `httpclient/client.go` | handle under an RWMutex; a body has `readMu`, `mu`, `closed`, `err` | Do, Get, PostJSON, Close; Body.Read, Body.Close |
| `httpclient.Transport` | `httpclient/transport.go` | lazily made client, lifetime context, `closed`, GC cleanup | RoundTrip, Close; a body of its own |
| `websocket` | `websocket/client.go` | atomic handles of Client and Conn | Dial, ReadMessage, WriteMessage, WriteControl, both Closes |
| build and release | `build.rs`, `scripts/`, `native/` | files | sequential scripts |

How they interact: a Go method reads a handle, registers `context.AfterFunc` to
close that handle when its context ends, and calls the bridge. The exported
function looks the handle up under the registry mutex, clones an `Arc`, releases
the mutex and runs a future that is a biased `select!` between the token and the
work. Somebody else (the callback, `Body.Close`, `Conn.Close`, `Client.Close`)
removes the handle from the registry and cancels the token afterwards.

What is hard here is therefore mostly order, not data:

- lookup, work and insertion are separate critical sections, and so are removal
  and cancellation;
- the token is looked at when a poll begins, not while it runs;
- a future that is dropped gives its locks up wherever it was: with a request
  taken but not answered, with half a message sent;
- the bridge reports *closed* and *cancelled*, symptoms whose cause the Go side
  has to find afterwards, while contexts and handles are still changing;
- end of body, end of stream and failure are reported to whoever asks first;
- readers, data writers and control writers share one socket under three locks,
  while the peer may say nothing, close, or vanish;
- a `RoundTrip` has three contexts, a client and an upload, each of which may end
  first, and a collector that may run once the program has dropped the Transport;
- the hops of a redirect share one deadline with two timers on it, and a failure's
  phase decides whether Go may believe that nothing was sent;
- two loops over bytes have their mistakes at the boundaries: a reply cut in the
  middle of a chunk, a message as long as its frames.

What makes each part correct:

- registries: a handle names at most one thing ever; nothing that is registered
  belongs to a closed client; nothing that is closed stays uncancelled; closing
  unblocks everyone, whatever the network does;
- a call: its request goes out at most once; its bytes come out once and in order;
  an end of body has a reason;
- a connection: messages are not interleaved; a control frame waits for one
  fragment at most; the peer's Close is delivered and nobody waits behind it;
- Go layers: the caller is told the cause; a failed or cancelled call leaves
  nothing behind; success is not reported for what is being closed; a terminal
  read result is stable;
- the Transport: whatever ends first, the caller is told a real cause; the upload is
  closed once, and before the outcome is known; closing interrupts whatever waits, and
  collecting takes no response away;
- an exchange: the timeout bounds the whole request and is told as one; a failure
  to dial has sent nothing; one party follows redirects;
- the byte loops: an incomplete reply is never called complete, nor a complete one
  incomplete; frames tile their message.

`PROJECT.json` lists the hazards line by line, each with the properties that
would catch it.

## 2. Modules

| Module | Models | Lines of the code |
|---|---|---|
| `HandleTable` | *abstract*: handles issued, live, released; roots and children | what both registries promise |
| `BodyContract` | *abstract*: what a caller may rely on about one response body | `httpclient` docs |
| `HttpBridge` | the HTTP bridge, its exports and tasks; implements `HandleTable` | `http_client.rs` 183-220, 329-524, `lib.rs`, `runtime.rs` |
| `HttpBridgeProofs` | theorems about `HttpBridge`: registry, refinement, calls | |
| `HttpClient` | `httpclient.Client` over `HttpBridge`; its bodies implement `BodyContract` | `client.go`, `bridge.go` |
| `HttpClientProofs` | theorems about `HttpClient` | |
| `WsBridge` | the WebSocket bridge; implements `HandleTable` | `websocket_client.rs` 64-153, 213-540 |
| `WsBridgeProofs` | theorems about `WsBridge`: types, registry, refinement | |
| `WsConnProofs` | theorems about the connections of `WsBridge` | |
| `WsClient` | `websocket.Client` and `Conn` over `WsBridge` | `websocket/client.go`, `bridge.go` |
| `WsClientProofs` | theorems about `WsClient` | |
| `Transport` | `httpclient.Transport` and its bodies, over a client reduced to what `HttpClient` establishes; its bodies implement `BodyContract` | `transport.go` |
| `TransportProofs` | theorems about `Transport` | |
| `Failures` | how a failure becomes an error kind and a Go error, as functions | `lib.rs` 65-184, `client.go` 254-275, `error.go` |
| `Exchange` | one request from its options to its last byte: configuration, redirect loop, timers, failures (`EXTENDS Failures`) | `http_client.rs` 81-162, 222-327, `client.go` 64-108, `transport.go` 61-79 |
| `ExchangeProofs` | theorems about `Exchange` and `Failures` | |
| `WsFraming` | the loops of `handshake_body` and of a data write | `websocket_client.rs` 160-211, 472-488 |
| `WsFramingProofs` | theorems about `WsFraming` | |
| `MC*` | instances for TLC: symmetry sets, callbacks as model values, narrowed next-state relations | |

`HttpClient` EXTENDS `HttpBridge` and `WsClient` EXTENDS `WsBridge`: a goroutine
that calls into the bridge *is* the bridge thread of that name, so the two layers
interleave as they do in the program. `Transport` stands on `Client` in its turn,
but keeps of it only what `http_client` checks: that `Client.Close` has released
everything when the closed client can be seen, and that a failure is blamed on the
context first and on the client next. The goroutine `context.AfterFunc` starts is
a thread of its own (`Callback`).

### Granularity

- One critical section of the registry mutex is one step. `create_request` and
  `create_connection` are two (`CreateRequest`/`Register`), `close` is removal
  (`Close`) and then `Cancel`.
- A task is *awake* from `Poll`, which requires that the token has not been
  cancelled, to `Suspend` or its return. `Abort` is the other branch of the biased
  `select!`. Cancelling between `Poll` and the step it allows is possible, as it
  is in the code.
- In `HttpBridge` a worker's places are `poll` (about to be polled) and `body`
  (past the token). In `WsBridge` a place names the `.await` a future stands at.
- Tokio's `Mutex` and `RwLock` are fair, so each is one queue of holders and
  waiters; `HasGate` gives data writers a shared hold and everyone else an
  exclusive one. `Unlock` takes a thread out of every queue: guards are dropped
  with the future.
- A Go mutex is the goroutine that holds it; a bridge call made with a Go mutex
  held keeps it over all steps of that call.

- In `Transport` a goroutine's place is the statement it is at; a context that ends
  and the callback this starts are steps of their own, and so is each of the three
  questions of `transportError`, between which any of them may end.
- In `Exchange` a step of the clock is a part of a millisecond. In `WsFraming` a step
  is one iteration of a loop.

### Data

A handle is a number up to `MaxId`, which stands for `u64::MAX`: at the limit the
code reports exhaustion and so does `Issue`. A body's bytes are named by position.
A WebSocket message is *data*, *ping* or *close*; of what is sent the model keeps
what the peer can tell: whose message it is assembling (`assembling`, `torn`).
Errors are the kinds the Go code tells apart. Arguments are valid ones: a rejected
argument returns before any state is touched.

External code is modelled by how `src/` uses it: contexts and `AfterFunc`,
tungstenite's reads (one queued automatic reply, a failure reported once, after
which the stream has ended), the peer and its host.

Variables marked *history* are read by properties only.

## 3. Runs

| Run | Instance | Shows |
|---|---|---|
| `http_bridge` | 3 threads, 2 handles, 2 bytes | the registry and its tokens agree, within their types (`RegistryInv`); one send, bytes once and in order, an end with a reason; refinement of `HandleTable` |
| `http_client` | 3 goroutines, 1 request, 2 bytes | causes are reported; nothing leaks; `Client.Close` has released everything when it returns; bodies implement `BodyContract` |
| `http_client_live` | 2 goroutines and a callback | ended contexts free requests; hopeless calls return; what is closed is released |
| `ws_bridge` | 3 threads, 2 handles, 2 fragments, 1 message under way | the registry and its tokens agree (`RegistryInv`); messages whole, controls next, one dial, no read past a Close, locks guarded (`ConnInv`), the peer's Close delivered and spared by writes; refinement of `HandleTable` |
| `ws_bridge_live` | 2 threads | closing unblocks everyone; writes end if the peer reads |
| `ws_bridge_torn` | 3 threads | **violation**, see below |
| `ws_client` | 2 goroutines and their callbacks | causes, leaks, success, cancellation, the peer's Close |
| `ws_client_live` | 2 goroutines, silent peer | ended contexts and `Client.Close` bring every call back |
| `ws_client_eof` | 2 goroutines | **violation**, see below |
| `transport` | 2 goroutines, 1 request, 1 chunk | real causes; the upload closed once; nothing left behind; closed for good; bodies implement `BodyContract` while the collector runs; Close and contexts interrupt |
| `exchange` | every configuration, 4 timeouts, 2 redirects, errors with up to 2 sources | the budget of a request; timeouts told; dialling means unsent; one party follows; requests with a timeout end |
| `ws_framing` | replies of up to 2 chunks, cut anywhere, 4 limits; 5 lengths and 6 frame sizes | the verdict on a reply; the bound; the frames |

Every property of a passing run has a mutant in `PROJECT.json`: a definition
replaced by one of the operators commented *Slip* in the modules, each a mistake
one could make in that code (no second look, a token that is no child, a guard that
outlives its future, the context asked only about failures, and so on), and each
is caught.

### The two violations

- **`FragmentsContiguous`** (`ws_bridge_torn`). `websocket_client.rs:77` and
  `websocket/client.go:312` promise that data messages are not interleaved. The
  token is looked at only at the start of a poll. If writer B was polled before the
  connection was closed, and writer A is cancelled between two of its fragments, A
  drops `data_write` in mid-message, B takes it in that same poll and sends its
  first fragment. The peer meets a new message inside an unfinished one. It can only
  happen on a connection that is being closed: `MessagesWhole` says so and passes.
- **`EofIsClean`** (`ws_client_eof`). `websocket/client.go:287` says that clean
  termination returns `io.EOF` and transport failures return `*Error`. Two
  goroutines read one connection; its transport fails. The first read gets the
  failure, the second, which queued behind it, finds the stream ended and is told
  `io.EOF` if it asks before the first has closed the connection. That a failed
  stream then ends is tokio-tungstenite's behaviour; that its end is reported as
  EOF is line 413 of `websocket_client.rs`.

### Bounds, and why they are enough

- *What the theorems cover.* Section 4 proves the invariants for every number of
  threads, requests, handles, fragments and bytes. The bounds matter to what is only
  model-checked: liveness.
- *Threads.* The races are between one that holds or works, one that waits, and one that
  closes: three threads (symmetric) where locks matter, two where the question is about
  one caller and one closer. In `WsClient` every goroutine brings the thread of its
  callback, so two goroutines are four bridge threads.
- *Handles.* Two give a client and a child, or two clients, and exhaustion, since every
  further create meets the limit. A client's several children are left to the theorems,
  which cover every number for both bridges and both Go clients.
- *Fragments.* Two have the only boundary that matters, between first and last. The Go
  layer's runs use one, as nothing in the package sees fragments.
- *MaxInbox.* One message under way: the reader takes one at a time, and the next can
  arrive as soon as it has. The peer still sends any number of messages over time,
  unless the liveness runs make it silent, which is the case that could block.
- *Bodies.* Two bytes with reads of one leave a chunk pending between reads.
- *History counters* stop at 2, one above what any property allows.
- *PeerSays, Methods.* The bridge's runs have a peer that sends everything. To the Go
  package a ping is a message like data, and a Ping it writes is a control frame like a
  Close, so `ws_client` leaves the former out; `ws_client_live` has a peer that says
  nothing, the case that could block, and may vanish.
- *Transport.* Its races are of one goroutine at work (sending or reading) and one that
  closes; contexts, callbacks and the collector come on top. Requests share nothing but
  the client and the lifetime, so one is enough; the theorems cover every number.
- *Exchange.* Two parts to the millisecond make timeouts that are whole (4), rounded up
  (1, 3) and none (0); two redirects are a first, a last and one too many. The theorems
  cover every number.
- *WsFraming.* Two chunks of up to two bytes, with contents that look like line ends,
  with and without extension, trailer and bytes of a next reply, are cut at every byte
  under limits below, at and above their length. Frame sizes divide message lengths or
  not, exceed them or not, and a message may be empty.
- *VIEW WithoutResults* merges states that differ only in the last result of a thread
  that is idle: no action of `WsBridge` reads it, and no property of a run with that
  view reads it but in the step that writes it.

Deadlock is checked in the runs of the bridges and the clients, which can always take
a new call; what could stop is covered by the liveness properties. `transport`,
`exchange` and `ws_framing` follow one request to its end, and stop there.

### Fairness

- `FairSpec` (both bridges): weak fairness of a thread's prompt steps, that is of
  everything that needs no answer from the network. Tokio polls a woken task again
  and a thread past a mutex goes on. **Nothing** is assumed of the network.
- `DrainedSpec` (WebSocket): besides, a peer that reads. Strong fairness of flushes
  stands for it, because a flush may be suspended and polled many times before the
  socket drains. It may still stay silent, so a reader may wait for ever.
- `GoFairSpec` (both Go layers): goroutines in a method and callbacks that were fired
  are scheduled. No context ever has to end and no caller ever has to call.
- `FairSpec` of `Transport`: likewise, and what the end of a context starts happens. An
  upload's `Close` unblocks its reader, as `RoundTrip` requires (`transport.go:126`); the
  network and the upload otherwise owe nothing.
- `Spec` of `Exchange`: time goes on and timers fire when they are due, before the clock
  goes on. Peers owe nothing.

## 4. Proofs

### `HttpBridgeProofs`

About `HttpBridge` for any set of threads, any `MaxId`, any body and any read size; the
only assumption is `BridgeAssumption` (the numbers are naturals, reads ask for
something, `NoThread` is not a thread).

| Theorem | States |
|---|---|
| `TypeCorrect` | `Spec => []TypeOK` |
| `RegistryCorrect` | `Spec => []RegistryInv` |
| `CallsHaveClientAlways` | a registered call's client is registered |
| `ClosedIsCancelledAlways` | what left the registry is cancelled, or in the hands of the thread about to cancel it |
| `RegisteredIsLiveAlways` | what lookup finds is not cancelled |
| `NeverReused` | what left the registry never comes back |
| `ImplementsTable` | `Spec => TableSpec` |
| `CallCorrect` | `Spec => []CallInv`, about the life of a call |
| `SentOnce` | `Spec => []SentAtMostOnce` |
| `BodyInOrder` | `Spec => []BytesInOrder` |
| `EofExplained` | `Spec => []EofIsExplained` |

`CallsHaveClient` is not inductive on its own: that a new call's number is not one
of a client needs `KindsDisjoint` and `OwnersAreClients`; that a registered handle
is not cancelled needs `CancelledIsClosed`, which in turn needs to know what a
thread about to cancel or to register holds (`WorkersKnowHandles`). Together these
are `RegistryInv`, which run `http_bridge` checks. Most actions leave the
registry alone: `RegistryQuiet` disposes of them once, and `RegistryMoves` splits
the others by what they do to it (create, register, remove, close, cancel). The
refinement follows the same split: each registry step is one step of `HandleTable`,
every other step a stutter; `Register` is `OpenChild` because the second look makes
the parent live, and `Cancel` is `Release` because what it releases has left.

That the bytes are in order needs to know that a read waits for the stream only with
nothing pending (`PhaseExplained`), or a chunk would overwrite what is left of the one
before; that a request goes out once needs the phase to have left Ready before. A
reason for the end stays one (`ReasonLasts`): the body is never handed out past its
length, failures are not forgotten, tokens stay cancelled and no owner changes.
`CallsQuiet` disposes of the steps that touch no call, and `OneCall` of
everything but the call and the thread of the step at hand. An aborted send leaves
Done behind with no answer; its token is the reason (`CallAbort`).

### `HttpClientProofs`

About `HttpClient` over `HttpBridge`, for any goroutines, requests and handles and any
body. Assumed are `BridgeAssumption`, `CallbackAssumption` (a goroutine of its own for
every `AfterFunc`) and `NewClientAssumption` (the handle `NewClient` was given is one
of the handle space, without which there is no client to speak of).

| Theorem | States |
|---|---|
| `GoCorrect` | `GoSpec => []GoInv`, the inductive invariant |
| `GoTypeCorrect` | `GoSpec => []GoTypeOK` |
| `GoUsesBridge` | `GoSpec => []RegistryInv /\ [][Next]_vars`: the package only ever makes the bridge's own steps |
| `CausesNotSymptomsAlways` | `GoSpec => []CausesNotSymptoms` |
| `NothingLeaksAlways` | `GoSpec => []NothingLeaks` |
| `ClosedMeansReleasedAlways` | `GoSpec => []ClosedMeansReleased` |
| `BodiesImplementContract` | `GoSpec => BodiesKeepContract` |

A step of the package is a step of the bridge by one thread (`BridgeNext`), so the
bridge's invariants hold underneath and are used, not proved again. What is added says
where a goroutine's bridge thread is (`PlaceOK`), what the goroutine holds (`HoldsOK`,
`AloneOK`), and what it knows of its call (`MadeOK`, `SendOK`, `ReadOK`, `BlameOK`).

The argument for `CausesNotSymptoms` is in `Reason`: a call leaves the bridge only if
its context is done, the client is gone, its body is closed or has failed, or its own
`Do` has given it up. Each of these is recorded before the bridge is told and never
undone, so a read that met a symptom (`Excused`) finds the cause when `requestError`
asks, although it asks for the context and for the client at different times (`ReadOK`
at `rdHandle`). `handle = 0` does as a cause because `Client.Close` sets it under `mu`
and keeps `mu` until the bridge has cancelled the client (`ClientOK`): by the time
another goroutine can see the closed handle, nothing of that client is left.

A step is cut into what it does for everybody (`Forward`: calls are not registered
again, causes are not taken back, mutexes change hands by their holders), to handles it
makes (`AloneForward`), and to the request it works on (`Serves`); everybody else is
`Still`. `StepMoves` shows once that every action is such a move; the invariants are
then proved of moves and not of actions. `BodiesImplementContract` follows with the
bytes of `HttpBridgeProofs`: what a call has handed out grows only by a reader's answer
(`OutGrows`), and its reader is the one goroutine that holds `readMu`.

### `ExchangeProofs`

About `Exchange` for any timeouts, any resolution of the clock, any limit of redirects
and any source chains (`ExchangeAssumption`).

| Theorem | States |
|---|---|
| `TypeCorrect` | `Spec => []TypeOK` |
| `BudgetKept` | `Spec => []WithinBudget`: over by the timeout, to the millisecond |
| `TimeoutTold` | `Spec => []TimeoutIsTold`: told as a timeout, never early, never unasked |
| `DialUnsent` | `Spec => []DialMeansUnsent` |
| `OneFollows` | `Spec => []RedirectsByOne` |

`RoundsUp` is the arithmetic: whole milliseconds are at least the timeout, exceed it by
less than one, and are none only if it was. The invariant's heart is `OneDeadline`:
there is one deadline, every hop and its body end at it (`HopEnd` saturates, but the
clock has never passed it), and the clock does not pass it, since a timer is due
there. `PhasesOK` says which kinds belong to which phase, so that a later hop
cannot turn a failure to dial into one that was sent. What `Failures` makes of
a failure is `KindOfFailure`.

### `WsFramingProofs`

About `WsFraming` for any replies, limits, messages and frame sizes
(`FramingAssumption`), and, for the last, replies that mean something
(`MeaningAssumption`).

| Theorem | States |
|---|---|
| `TypeCorrect` | `Spec => []TypeOK` |
| `BodyBounded` | `Spec => []Bounded`: `limit - decoded.len()` does not wrap |
| `MessageTiled` | `Spec => []FramesTile` |
| `RejectionsJudgedRight` | `Spec => []JudgedRight`: the body is the beginning of what was meant, and complete exactly if it is all of it and the reply ended |

Types and bound need each other: how much may be taken of a chunk is a natural number
only while the body is within the limit. A first line end exists by well-founded
induction on the naturals (`LineEndType`). Frames tile because every frame but the last
is full, so that a frame after the first starts past 0 and short of the end.

`RejectionsJudgedRight` needs to know what a reply meant, which `MeaningAssumption`
says: a reply carries, for the statement only, all the bytes its peer would send
(*wire*), the *entity* they carry, and the places (*cuts*) where its chunks begin in
both. `Meant` says of these what HTTP/1.1 says, without recursion: from each cut to the
next there are a line with the size, so many bytes of the entity and a line end
(`HasChunk`); behind the last there is the size 0 and trailers up to an empty line, or a
size nobody can read (`EndsAt`); and the reply is *whole* if the capture has its end. TLC
evaluates the assumption on every reply of `ws_framing`. A peer that sends something
else in the place of a line end behind a chunk means nothing by it, and is not covered.

The invariant is `OnTrack`: while chunks are decoded, what remains of the capture begins
at a cut, and what is decoded is the entity in front of it. The code searches for
CRLF in the capture from there, so the lemmas say that the line it finds is the line on
the wire (`LineFound`), that it finds it unless the capture ends before it (`LineSeen`),
and likewise for trailers (`TrailersSeen`), although chunks may contain CRLF
themselves. That a size is unreadable because the capture ended, or bytes of a chunk
are missing, then means that the reply is not whole (`MoreToCome`), since chunks are in
order on the wire (`CutsGrow`, again by a least counterexample).

### `WsBridgeProofs`

About `WsBridge` for any threads, handles, fragments and any peer; the only assumption
is `WsAssumption` (the numbers are naturals, a message has a fragment, `NoThread` is
not a thread, a peer says what it can).

| Theorem | States |
|---|---|
| `TypeCorrect` | `Spec => []TypeOK` |
| `RegistryCorrect` | `Spec => []RegistryInv` |
| `ImplementsTable` | `Spec => TableSpec` |

The argument is that of `HttpBridgeProofs`: the same registry, the same two looks of
`create_connection`, the same removal before cancellation. Steps are sorted by what
they do to the registry, and all of a connection's work leaves it alone.

### `WsConnProofs`

About one connection under its three locks.

| Theorem | States |
|---|---|
| `ConnCorrect` | `Spec => []ConnInv` |
| `MessagesWholeAlways` | `Spec => []MessagesWhole` |
| `ControlsComeNextAlways` | `Spec => []ControlsComeNext` |
| `PeerCloseIsDelivered` | `Spec => PeerCloseDelivered` |
| `WritesSpareCloseAlways` | `Spec => WritesSpareClose` |

A queue of a lock is seen only through who is in it and who comes before whom
(`In`, `Before`): a step either leaves a queue or joins at its end, so nobody overtakes
(`Evolves`), and who is first stays first until he leaves (`FirstStays`). On top of that,
`Journeys` says where a call of each kind can be and what it carries, and `Guarded`
that whoever is in the middle of something holds the lock it relies on.

Three of the properties are not inductive, and what they lack says why the code is
right. `MessagesWhole` needs `Unfinished`: if the peer has the beginning of a message,
then its writer is still at it, or the connection is cancelled or finished.
`ControlsComeNext` needs `PassedOnce`: ahead of a control frame that was passed no data
writer waits any more. `DialledOnce` needs `Undialled`: as long as the request is there,
nothing was dialled. The two action properties follow from `ConnInv` and from
`RegistryInv`, by which a token once cancelled stays so.

### `WsClientProofs`

About `WsClient` over `WsBridge`, for any goroutines, handles, fragments and methods.
Assumed are `WsAssumption`, `CallbackAssumption` (a goroutine of its own for every
`AfterFunc`), `MethodsAssumption` and `NewClientAssumption`, as for `HttpClient`.

| Theorem | States |
|---|---|
| `GoCorrect` | `GoSpec => []GoInv`, the inductive invariant |
| `WsTypeCorrect` | `GoSpec => []WsTypeOK` |
| `GoUsesBridge` | `GoSpec => [](RegistryInv /\ ConnInv)`, and every step is the bridge's or takes a result out of it |
| `CausesNotSymptomsAlways` | `GoSpec => []CausesNotSymptoms` |
| `NothingLeaksAlways` | `GoSpec => []NothingLeaks` |
| `SuccessKeepsConnAlways` | `GoSpec => SuccessKeepsConn` |
| `CancelledIsShutAlways` | `GoSpec => CancelledIsShut` |
| `PeerCloseSurvivesAlways` | `GoSpec => PeerCloseSurvives` |

None of the properties is inductive; `GoInv` adds, to the bridge's `RegistryInv` and
`ConnInv`, what a goroutine has with it at each place (`StageOK`), what its bridge thread
and its callback are doing meanwhile (`PlaceOK`), whose every connection is (`OwnOK`,
`ConnOK`) and what the bridge's answers mean (`Explained`, `AnswerOK`).

A Dial's connection exists before the Dial knows it: it is the answer of its thread in the
bridge (`Its`), is nobody else's, and is closed only by its own end or its own context.
Any other method works on a connection a Dial returned. So every registered connection is
its caller's, some Dial's, or one goroutine's to close, and this gives `NothingLeaks`. A
connection that left the registry was taken by this package first: the handle of the
client or of the connection is 0 by then, which is the cause `operationError` looks for.
That it asks the context, the client and the connection one after the other does no harm,
since handles do not come back, and a context that ended makes the call fail before the
others are asked.

`PeerCloseSurvives` needs to know why a connection was closed (`FairlyClosed`), and
there the end of stream is the difficult case: a read that reports it closes the
connection, and so must not come before a reader that still has the peer's Close in
hand. It does not, because the end is met only at the head of the reader's queue, where
nobody else can be with a message taken (`EndIsOver`), and once it was met nobody will
take the Close any more (`ReadsOver`, `ReadsOverLasts`).

The proof sorts the steps by what they may do to connections (`Tidy`: forget none it has to
deliver or close, close one at a time for a fair reason, deliver its own), shows that
every action is such a step and leaves its own goroutine in order (`Fine`), that the
others are `Still`, and that the bridge by itself only ever adds a Dial's connection
(`BridgeFine`, `NewConn`).

### `TransportProofs`

About `Transport` for any goroutines, requests and bodies (`TransportAssumption`).

| Theorem | States |
|---|---|
| `TypeCorrect` | `Spec => []TypeOK` |
| `CausesFirstAlways` | `Spec => []CausesFirst` |
| `UploadClosedOnceAlways` | `Spec => []UploadClosedOnce` |
| `NothingLeaksAlways` | `Spec => []NothingLeaks` |
| `ClosedForGoodAlways` | `Spec => []ClosedForGood` |
| `BodiesImplementContract` | `Spec => BodiesKeepContract` |

The invariant is one part per goroutine and per request, and the proof is by rely and
guarantee: `Forward` is what any step may do to a request (contexts end and do not begin
again, what is closed stays closed), a goroutine's own steps keep its part, and other
steps keep it because they are `Forward` and leave its place alone. A RoundTrip has its
request to itself (`AloneOK`). `BlameOK` is the heart of `CausesFirst`: a symptom is met
only when the operation's context has ended or the Transport's lifetime is done, both
are for good, and each question `mapError` has asked and found unanswered rules one
cause out, so that one is left at the last. `Collected` is why the client of a Transport
that was never closed may be closed all the same: the collector found no RoundTrip and
no unfinished body. That bodies stay whole then is part of `BodiesImplementContract`.

### Model-checked only

- Every liveness property, and with them that closing a `Transport` interrupts what
  waits (`CloseInterrupts`): fairness is out of the prover's reach.
- The two violations: they are counterexamples.

## 5. Not modelled, and why

- What header values, user agents, cookies and proxy URLs may contain, and the JSON they
  travel in: conversions with no state; a bad one is one outcome of configuration.
- Which headers `RoundTrip` and a redirect drop, add and read back (`headerToken`,
  `hasHeaderValue`): wording of a request, on which no step here depends. What a
  redirected request looks like is decided by the SDK's own functions.
- Automatic routes, pools and TLS fallback: inside the SDK; here any of their outcomes.
- Raw buffers and `catch_unwind`: one function each, nothing interleaves.
- The SIGPIPE mask: a property of the operating system.
- Poisoned registry mutex, panics, failing runtime: the code answers `internal` or
  `panic` before or instead of everything else.
- `ClosePayload`, `decodeHandshake`: stateless encodings.
- Build scripts, examples, third-party SDKs.

Of what is modelled, some behaviour is deliberately left unpromised, because the code
promises nothing: a second `Transport.Close` (or WebSocket `Client.Close`) returns while
the first is at work; a Read that its own `Body.Close` overtook may report
`context.Canceled` (*finished* in `CausesFirst`); a failed reply to a Ping fails the
read, although the peer's Close may still be unread.

## 6. Plan

Every part with state or order of its own is modelled, and every safety property the
passing runs check is proved for every size. What stays with TLC are the liveness
properties, as section 4 says.
