# A TLA+ model of the WhatsApp connector

The connector (`src/`) answers and places WhatsApp Business calls for LiveKit
rooms. A call has two legs: a LiveKit room, and a media leg negotiated with Meta
over HTTP (`pre_accept`, `accept`, `connect`, `terminate`). What is hard about
it is concurrency: RPC handlers, one goroutine per call, LiveKit callbacks,
webhooks in any order, and a shutdown, all acting on the same `Call` objects.

## The system's parts

| part | source | model |
|---|---|---|
| call manager | `internal/call/manager.go` | `CallManager`, refining `CallLife` |
| process life, shutdown window | `cmd/whatsapp-connector/main.go` | `CallManager` (`Signal` ... `Exit`) |
| RPC service | `internal/connector/service.go` | the inputs of `CallManager` |
| media transport: set-up, `Wait`, `Close` | `internal/media/transport.go` | `Transport`, refining `MediaLeg` |
| media transport: inbound RTP and RTCP | `internal/media/transport.go` | `MediaQueue`, `MediaPath` |
| media transport: sending | `internal/media/transport.go` | outcomes in `AgentAudio`, report tick in `RtpStream` |
| packet mux | `internal/media/transport.go` | `PacketMux`, `MediaPath` |
| Meta API client | `internal/meta/client.go` | `MetaClient`, refining `MetaRequest` |
| LiveKit bridge | `internal/livekitbridge/bridge.go` | joining, callbacks and closing in `CallManager`; tracks in `Bridge`, `AgentAudio`; `WriteFromMeta` in `RtpStream` |
| RTP rebaser | `internal/livekitbridge/rebase.go` | `Rebaser`, `RtpStream` |
| RTP statistics | `internal/media/rtpstats.go` | `RxStats`, `RtpStream` |
| SDP negotiation | `internal/media/sdp.go` | `Sdp`, `AgentAudio` |
| port allocator | `internal/media/ports.go` | `Ports`, composed with `CallManager` in `CallPorts` |
| configuration, authentication | `internal/config`, `internal/connector/auth.go` | not modelled: no state |

How they interact: the service calls the manager; the manager gives each call a
socket (ports), a negotiation (SDP), a transport, a bridge and a goroutine; the
goroutine joins the room, tells Meta, starts the transport, relays RTP through
the rebasers, and at the end runs `finish`: release the waiters, terminate the
Meta leg if need be, close bridge and transport, leave the map and the wait
group.

## Modules

**`CallManager`**: `Manager.calls`, `draining` and `wg` are the variables
`calls`, `draining`, `wg`. A `Call` object is a record `call[c]`, named by the
request `c` that makes it. Beside the struct's fields the record has `pc`, the
location of the call's goroutine, and `meta`, the leg Meta holds. `rpc[r]` is
the location of an `Accept` or `Dial` handler, `on[a]` the call an `Accept`
waits for. `stops` are runs of `stopUser` and `stopBusiness` by webhooks,
callbacks and the shutdown sweep; `connects` are `Connect` handlers holding a
`*Call`. `proc` and `expired` are `main` and its window.

A step is what happens under one hold of `m.mu` or `c.mu`, or one call to Meta,
LiveKit or the transport. So the two looks `Accept` takes at the map are two
actions (`AcceptCheck`, `AcceptRegister`), a stop is up to three (`token`,
`flag`, `cancel`), and `cleanup` is four (`Cleanup`, `TakeSnapshot`,
`Terminate`, `Release`). `Dial`'s way out when the manager drains is one action,
because nobody else has seen the object. Data is abstracted: SDP, names, tokens
(original or rotated) and ids have no content. Calls out may fail, and a request
to Meta may take effect and still return an error (`MetaMayHold`).

`cleanup` reads `c.transport` without `c.mu` while `Connect` may write it. The
model calls a transport made after the snapshot `late`; `Release` may or may not
see it, and either way the one socket is closed.

**`CallLife`** is what the manager promises of a call, to those who wait for it
and to Meta: one call of an id at a time; waiters told once, and told success only
of a call Meta knows; one decision about `Terminate`, taken when the waiters have
been told, and right about what is known by then; the id free only after that. It
has no goroutines, locks, flags or cancellation. `lives` maps a `Call` record to
it: `told` is `ready`, `hungUp` is `userTerminated`, and the verdict is open until
`cleanup` has taken its snapshot.

`MCCallManager` gives every inbound request the same call id (so that they are
duplicates) and every outbound request its own.

**`Transport`**: `run` is the location of the set-up goroutine, `res` the state
of each resource, `stored` the fields of the struct that are not nil. `Close`
and `closeResources` are split where they take `t.mu`; `startOnce`, `closeOnce`
and `pumpOnce` are `started`, `once` and `pump`. ICE, DTLS and SRTP are calls
that succeed or fail; how a session ends when its endpoint is closed
(`SessionOver`) is taken from how the code relies on it. Closing an SRTP session
is taken to return even if nobody has accepted its streams yet: `setResult` may
close one before `startPump` has run (`Discard`). `CloseReturns` rests on this
assumption about the library, which the source here cannot confirm.

**`MediaLeg`** is what the rest of a call sees of a transport: it comes up or
fails, once; it is lost, also once, when the connection dies and `readLoop` closes
the mux, which leaves the `Transport` open, its sessions stored and its error nil;
and it is closed for good. `MediaSeen` maps a `Transport` to it, and
`AgentAudio` is composed with it instead of the whole `Transport`.

**`MetaRequest`** states what the manager may rely on for one request;
**`MetaClient`** is the retry loop of `call` over `callOnce`. Outcomes are the
classes `retryable` tells apart. What an attempt did at Meta (`Fate`) is not
visible to the client, and a request it gave up on may be delivered later
(`LateEffect`).

**`Ports`** is `PortAllocator.Listen`, one port at a time, among other Listens,
closing sockets and other processes of the host; the cursor wraps. The record
`scan[c]` also keeps the ports that have been free since the start was drawn,
which only the property reads. **`CallPorts`** puts `CallManager` on it: `Accept`
and `Dial` leave their `listen` location only as their `Listen` has ended, and a
step of the manager that closes a socket frees its port.

**`PacketMux`** is `readLoop` with its three bounded endpoints; a packet has
nothing but the endpoint its first bytes select. **`MediaQueue`** begins where
the SRTP sessions are up: `acceptLoop`, a `readStream` per SSRC with its three
selects as three steps, the queue `rtpIn`, `ReadRTP`'s select in the relay
goroutine, `drainSRTCP` and `observeRTCP`. **`MediaPath`** composes the two with
the handshake and the SRTP and SRTCP sessions between them. The sessions are a
library's and are modelled by what the comments in `transport.go` rely on: a
packet of a new SSRC waits for `AcceptStream`, and one that is not read holds up
everything behind it.

**`Words`** has unsigned words of any width, **`Rebaser`** and **`RxStats`** the
pure functions `rewrite`, `update` and `report`. **`RtpStream`** feeds both from
a network that loses, repeats and reorders and a sender that changes SSRC or
jumps; it knows the true index of every packet, which the code does not see, and
unwraps the output as a receiver would.

**`Sdp`** is `sdp.go` on parsed descriptions: what is accepted, in which order
it is looked at, and what is left in the `Negotiation` by an answer that is
refused; `DescriptionAssumption` gives the type of a description. **`Bridge`** has a `forwardRemote` per subscription, the slot
`activeTrack`, and the callbacks that clear it. **`AgentAudio`** composes them
with `Accept`, `Connect`, `connectBridge`, `writeToMeta` and the `MediaLeg`. Outcomes of a write are the classes the code tells apart: sent,
dropped (`ErrNotReady`), failed, fatal (`isFatalWrite`). A fatal error of the ICE
connection itself counts as its loss.

## Runs

| run | instance | checks |
|---|---|---|
| `stop_races` | one inbound call, two pending stops | who is told what, with which token, in any order of stops; `CallManager` implements `CallLife` |
| `inbound` | one inbound call, one stop, fair | the call ends, waiters are answered and not lied to |
| `outbound` | one outbound call, one stop, fair | the call ends, nothing leaks |
| `duplicates` | two `Accept`s of one id, symmetric, two ports, a cursor about to wrap | one goroutine per id, the loser waits for the winner, `Listen` misses no free port, ports come back |
| `shutdown` | an inbound and an outbound call | wait group, clean exit within the window, no dial once draining |
| `lost_leg` | one inbound call, one stop | violated, see below |
| `transport` | two `Close`s, two `Wait`s, fair | everything closed, everybody returns, no goroutine left |
| `meta_client` | one request, three attempts, fair | at most one effect, terminate persists, `MetaClient` implements `MetaRequest` |
| `media_queue` | two sources, a queue of two, five packets | every packet accounted for, order kept, the oldest dropped |
| `media_path` | one source, queues of one, four packets of any kind, fair | a slow relay stalls nobody, `Close` ends the loop, a dead connection ends the relay |
| `rtp_stream` | two sources, numbers modulo 12, timestamps modulo 32, four arrivals among seven packets | loss counted through wraps, the fraction fits, one timeline for LiveKit |
| `agent_audio` | three subscriptions to two publications, six descriptions | one voice, no stale slot, answers whole, payload type, early audio |

Every property has a mutant of the code (kept beside the definition it changes)
that breaks it.

**Bounds.** `MaxStops` bounds the stops pending at once, not their number: a
finished stop makes room for another. Two are needed for a race of two stops,
and the call's own goroutine, its `Accept` handler and the shutdown sweep add
more without counting against it. With two calls `MaxStops` is 0, since calls
share nothing but the map, the wait group and `draining`; that keeps the runs
about those below five million states. Two `Accept`s suffice for every duplicate
race, since a third sees the same map. Liveness is checked on single calls;
`NoLostWaiter` is its safety half for duplicates. Two closers exercise
`closeOnce`, and two waiters the shared `ready`. `maxAttempts` is the code's 3;
requests do not interact, so one suffices. `flying` and `effects` are bounded by
the attempts.

Two readers on a queue of two are the least in which one reader takes the room
the other has made. `MaxPackets` (packets the network brings) fills every queue
on the way and leaves one over: with capacities of one, four packets stand in
the queue, in the reader's hand, in the endpoint and in the loop's hand. In
`rtp_stream` numbers and timestamps wrap after two packets of one source,
`MaxSeqJump` is below `Window` so that jumps and late packets both happen, a
packet may be exactly half the range from the last one the rebaser has seen, and `Elapsed` is below and
above the limits of `Frames`. Two ports and two callers make every scan meet a
port taken while it runs; `Served` starts the cursor at its last value. In
`agent_audio` two of the three subscriptions are to one publication, and the
descriptions differ in each thing `sdp.go` looks at.

**Fairness.** Weak fairness of each goroutine's own steps, which is what the Go
scheduler gives, and of the steps a timer or timeout ends: the set-up timeout,
the ringing timer, the maximum duration (`envDuration` never yields zero or
less), Meta's HTTP client (10 s), `Terminate` (5 s) and the back-off. Nothing is
assumed of callers, webhooks, LiveKit, the network or the end of a context: all
may never happen. In particular `AcceptCallerGone`, `MediaStops`, `Signal` and
`LateEffect` are not fair. In `MediaPath` the timers are not fair either, nor
the return of `WriteFromMeta` nor `observeRTCP`: what it shows of a slow or hung
consumer holds without them.

**Stopping.** `CallManager` stutters only when the process has exited, and
the other modules only when every goroutine is done (or, in `AgentAudio`, the
offer was refused), so TLC's
deadlock check is on in every run.

## What `lost_leg` shows

`manager_test.go` says "Meta call must be terminated when LiveKit side closes",
and tests it on a connected call. If LiveKit closes while `runInbound` is inside
`PreAccept`, the context is cancelled and `PreAccept` returns an error although
Meta may have taken the request. `signaled` is then false and `cleanup` sends no
`Terminate`: Meta keeps a pre-accepted leg until it gives up by itself. The
other safety properties are stated with `signaled`, what the connector knows,
and hold.

## Observations

These are not findings, as nothing in the repository says otherwise.

- `Accept`, unlike `Dial`, does not look at `draining` again before it
  registers. This is harmless as long as `server.Shutdown` has waited for the
  handlers, and lets a call start and be cut off when the window has expired.
- The second `closeResources` in `Transport.Close` never finds anything new,
  since nothing is stored once `closed` is set.
- Before the sessions exist nobody reads the SRTP endpoints. Media that comes
  that early can fill one and hold `readLoop`, and with it the handshake, until
  the set-up timeout. `NoStall` therefore speaks of the time after it.
- A second agent track that finds the slot taken is refused for good, also when
  the first one ends (`TakeSlot`).
- When a publication is subscribed to again, the forwarder of the first
  subscription gives back the slot of the second, as both have the same SID, and
  a third track may then be forwarded beside it. `OneVoice` excludes this case.
- The bridge of an outbound call takes its payload type when it connects, which
  may be before the answer; Meta may then get 111, or even the type of an answer
  that was refused, instead of the negotiated one. `PayloadAgrees` bounds
  when that can happen.
- A packet of a new source that was overtaken by the first one to arrive from it
  is given a number already used before the change. `Timeline` excludes these
  (`late`).
- Two SSRCs that alternate rebase on every packet and restart the reception
  counters each time; a restart under the same SSRC counts as loss.

## Proofs

`CallManagerProofs` (the inductive invariant) and `CallManagerSafety` (what
follows from it) prove, for every finite set of requests, every assignment of ids in which outbound ids are fresh
(`ManagerAssumption`: Meta gives a new id to every call it places) and every
`MaxStops`: `TypeOK` (no run repeats it), `MapTracksLive`, `WgCounts`,
`UserHangupNotRepeated`, `NoSilentDrop`, `FreshTokenUsed`, `ResourcesReleased`
and `ReadyMeansUp`.

None of them is inductive alone. `IInv` adds what each relies on:

- `FlagsOK`: a stop writes its flag before it cancels, so a cancelled context
  means a flag is set; `userTerminated` and `terminate` exclude each other; the
  snapshot comes after the cancellation. This carries `UserHangupNotRepeated`,
  `NoSilentDrop` and `FreshTokenUsed`.
- `SetupOK`: what the goroutine has set up by each location, and that `ready`
  is closed before the snapshot.
- `OwnerOK`: how an object and the handler that makes it correspond; an object
  whose handler has not registered it is untouched by others.
- `StopOK`, `HandlersOK`: stops and waiters act on registered calls, and a stop
  between its flag and its cancel finds its flag still set.
- `MapTracksLive` and `WgCounts` themselves: `finish` removes its own entry
  because the map tracks the live calls, and `wg.Done` finds a positive counter
  because its own goroutine is counted.

Most of `IInv` is a predicate on one `Call` record. A step changes one record,
so the proof first shows that the change is `Good` and lifts that once
(`GoodStep`, `HandlerStep`, `BesideStep`).

`NoLostWaiter`, `DrainStopsDials` and `CleanExit` need three more conditions, kept
apart from `IInv` because they are not about one record: a call is in
`Manager.calls` under its own id (`MapIds`), whoever waits does so for a
registered call (`Waits`), and past the HTTP server's shutdown no handler runs
unless the window has ended (`Drained`). `Locations` says what any step may do to
the locations of the goroutines.

`CallsOnlyMoveOn` is about steps, not states: whichever goroutine, handler,
callback or sweep moves, nothing done to a call is undone (`NothingUndone`). The
call's goroutine never returns to an earlier stage; what waiters were told, who
cancelled first, what was signaled or answered, a rotated token, a closed socket
or room, and cleanup's decision to terminate all stand. It needs `IInv` where a
write would be an undoing if another had come first: `Listen` opens the socket of
an object nobody else has seen (`OwnerOK`), and the room callback marks as dropped
a bridge that is not closed yet (`SetupOK`).

`CallsLiveAsPromised` says that the manager implements `CallLife`
(`LivesAsPromised`): every step of every handler, goroutine, callback and sweep is
a step of the life of one call or changes no life. `Phase` sorts the locations of
the goroutine by what is seen of them; a write that changes neither the phase nor
one of the four fields that are seen is a stutter (`LifeQuiet`). The others need
`IInv`: `Register` begins a life because the map tracks the live calls, so that
no other call of the id is live (`LifeBegin`); `connected` tells success about a
signaled call (`SetupOK`); and `cleanup`'s snapshot reads `terminate`, while the
promise speaks of hang-ups: `FlagsOK` says that by then one of the two flags is
set, and not both (`LifeDecide`). One more condition is inductive with it: before
its snapshot `cleanup` has decided nothing (`Undecided`).
`CallsOnPortsLiveAsPromised` carries the result over to `CallPorts`.

`MetaClientProofs` proves `TypeOK` (no run repeats it; in particular, no more than
`maxAttempts` attempts), `EffectAtMostOnce` and `TerminatePersists` for every
number of requests and attempts. The invariant: while a request other than
terminate may still be sent, no earlier attempt has taken effect nor can.
From the same invariant, `KeepsPromiseSafely` shows that the client implements
`MetaRequest!Safety`: every step of an attempt, a pause or the network is a step
of the one abstract request or none. The fairness of `MetaRequest!Spec` is left
to the run.

`TransportProofs` proves, for any number of goroutines in `Close` and `Wait`, the
three invariants of its run: `TypeOK` (`ready` is closed at most once),
`ClosedForGood` and `NilWaitIsHonest`. The invariant says who is where (`OnceInv`:
one goroutine is inside `closeOnce.Do`, and no `Close` returns before it is over;
`ReadyInv`: `run` closes `ready` as its last step, or `Close` does if `run` was
never started) and where every open resource is (`HeldInv`: in a field of the
`Transport`, or still in the hands of `run`). `ClosedForGood` follows: `Close`
reads the fields a second time after `ready`, when `run` holds nothing any more
(`CloseInv`).

Five more theorems use the invariant. `NobodyWaitsForNothing` and `ServersOfAClosedTransport`
are what `CloseReturns`, `WaitReturns` and `GoroutinesEnd` rest on besides
fairness: whoever blocks waits for something that is there or has failed.
`PumpBeforeReady` says that RTP is consumed from the moment `ready` is closed, and
`CloseIsFinal` that after a `Close` nothing is opened or stored.

`TransportIsMediaLeg` proves that a `Transport` implements `MediaLeg`: `run`
writes the result before it closes `ready` and nobody writes it afterwards, nor
opens another mux, and a `ready` that `Close` had to close itself is never seen
without `closed`. This is
what lets `AgentAudio` have a `MediaLeg` in place of a `Transport`.

`CallPortsProofs` proves that `CallPorts` implements `CallManager` (every step is
a step of the manager or leaves it alone), so the theorems about `CallManager`
hold on the real allocator; then `ScanComplete` and `PortsReturned` for any range, cursor width
and number of requests. The invariant: what `free` still holds has not been tried
(`ScanInv`), and a port belongs to a call only while its socket is open or its
`Listen` has just returned (`OwnerInv`), which needs `IInv` of the manager.

`MediaPathProofs` proves `Conserved`, `InOrder`, `NewestKept` and `NoRTPIsTrue`
for any number of sources, any queue size and any number of packets. `InOrder` is
inductive with bounds on all numbers by `received`; `NewestKept` needs that a
single reader in `retry` has seen the queue below its capacity, which only
another reader can fill.

It then proves that `MediaPath` implements `MediaQueue` (`PathImplementsQueue`),
for any `EndpointSize` of at least one (`EndpointAssumption`): the mux, its
endpoints and the sessions do nothing to readers, queue and relay that the free
environment of `MediaQueue` does not, so the four properties hold of packets on
their whole way (`PathKeepsQueuePromises`). The invariant `PathInv` bounds what
is on the way by what the network brought (`Budget`), fixes the order in which the
path is shut, mux, sessions, then readers (`ShutInOrder`), and says that nothing
reaches the queue before the handshake (`NotUpYet`). From it follow
`PumpOutlivesConnection`, and `NobodyWaitsForTheMux`: whenever `readLoop` is stuck
at a full endpoint of a running call, the goroutine behind that endpoint can move
and does not wait for `readLoop`. `NoStall` adds fairness to this.

`AgentAudioProofs` proves `OneVoice`, `NoStaleSlot`, `AnswerWhole`,
`PayloadAgrees` and `EndsOnlyWithMedia` for any tracks, SIDs and descriptions.
`OneVoice` rests on the slot: a forwarder whose track is subscribed and whose SID
was subscribed to once has its SID in the slot. `EndsOnlyWithMedia` rests on
`MediaLeg`: what makes a write fatal (failed, lost, closed) is never undone.

`RtpStreamProofs` proves `LossCounted` and `FractionFits` for sequence numbers of
any width, any sources and streams of any length, provided packets are less than
half the range from the newest of their source. The invariant relates `cycles`,
`maxSeq` and `baseSeq` to the true indices, and says that `expected` has grown
since the last report only if `received` has.

It also proves `Timeline`, for words of any width, if a packet is a frame and its
timestamp says so, and if jumps and reordering are small against the range of the
words (`FrameAssumption`). `TimelineInv` says that the rebaser stands at the
newest packet of its epoch (`Follows`), that this is the newest LiveKit has, and
that every packet handed on is behind it, by exactly the sender's distance if it
is of the same epoch (`Behind`), and in order with every other (`Ordered`). The
words wrap; the proof goes through `Unwrap`, which gives back the true distance
when it is below half the range.

Only model-checked: all liveness, which needs fairness and is out of the prover's
reach (`CallsEnd`, `WaitersAnswered`, `CloseReturns`, `WaitReturns`,
`GoroutinesEnd`, `MediaPumped`, `NoStall`, `LoopEnds`, `FailureReachesRelay`, and
the fairness in `KeepsPromise`).

## Not modelled

The text of SDP and JSON (parsing without state), certificates, credentials and
token generation, jitter and round-trip time (floating point), the counters of
`txStats` and of the bridge and the log lines made from them, header extensions,
metrics and health endpoints, configuration, authentication, field validation of
the RPCs, and a crash of the process, since nothing is persisted. A torn read of
a Go string (the API token, `manager.go:259`) is outside the model, and nothing
in the connector can act on a `Dial` whose response is lost (`manager.go:191`).
