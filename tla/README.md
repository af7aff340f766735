# helianthus-ship-go: a TLA+ verification project

The repository implements SHIP (Smart Home IP), the transport of EEBUS: peers
find each other with mDNS, connect with a mutually authenticated websocket, run
a handshake in which the users of both ends have to agree, and then exchange
SPINE payloads. The modules here are translated from the Go code; paths and line
numbers are those of `PROJECT.json`.

## 1. Inventory

| part | state | operations | interacts with |
|---|---|---|---|
| `ship` handshake (`handshake.go`, `hs_*.go`) | `smeState`, timer, role, PIN flags | one handler per state, timeouts, `Run`, `ApprovePendingHandshake`, `AbortPendingHandshake` | called by the read pump, the timer goroutine and the hub; calls the hub's `ShipConnectionInfoProvider` |
| pairing gate and effect queue (`connection.go`) | `pairing*` flags, `pairingEffectQueue`, `spineSetupStarted` | commit, approve, set up, close, drain | serialises callbacks into the hub with the close of the connection |
| SPINE buffer and dispatch (`connection.go`) | `spineBuffer`, `dataReader`, `spineDispatchQueue` | route or buffer, install, drain | the SPINE device above |
| handshake timer (`handshake.go`) | generation, running flag, active count | set, stop, stop and wait, fire | handlers, `closeConnection` |
| websocket (`ws`) | write channel of one message, closed flag and error | read pump, write pump, close, sensitive write | `ship` above, the network below |
| hub connections (`hub_connections.go`, `hub_shipconnection.go`, `outgoing_attempt_info_provider.go`) | connection per SKI, attempts, counters, timers | dial, accept, register, supersede, close, retry | `ship`, mDNS, application |
| hub pairing (`hub_pairing.go`) | services and their trust, candidates | register, unregister, disconnect, cancel | `ship`, application |
| hub mDNS (`hub_mdns.go`) | snapshot queue, revision, admission, visible candidates | enqueue, drain, report | mDNS manager, hub pairing, reconnection |
| listener policy (`listener_policy.go`) | listener, lifecycle phase | start, roll back, shut down | hub, mDNS |
| mDNS manager and providers (`mdns`) | entry table, provider, announcement | announce, resolve, report | Avahi or zeroconf, hub |
| `cert`, `api`, `model`, `util`, `logging` | data | stateless | everybody |

What is hard to test here:

* threads meeting inside one connection: the read pump, the write pump, `Run`, a
  timeout, the hub's user calls and callbacks that call back (the state is read
  under one lock and acted upon under another);
* messages that arrive in a state that does not expect them, from a peer that
  decides on its own;
* closing: several threads claim it, the effects it must wait for may be the
  claimers' own, and the timer has to be quiet before the hub is told;
* limits: one message in the write channel, the SPINE buffer, timer generations;
* registration: an inbound and an outbound connection to the same peer, and late
  reports of connections that were replaced;
* discovery: copies of the table overtake each other between manager and hub while
  the user decides on what was shown last;
* reconnection: a chain of delayed attempts, failures and reannouncements that must
  not break, with flags cleared by goroutines that slept meanwhile;
* announcement: start, shutdown, signals and an Avahi daemon that goes and comes back.

`PROJECT.json` lists each hazard at its line with the properties that watch it.

## 2. Modules

| module | models | size of a step |
|---|---|---|
| `ShipHandshake` | handshake of one or two endpoints over a link | a handler, on the state sampled by an earlier step |
| `AgreedSession` | what a session promises its users and applications, abstractly: the phases of each end, and who agreed to what | |
| `PairingGate` | end of the handshake inside one connection | what a thread does under one lock |
| `HandshakeTimer` | the timer and its teardown barrier | one critical section |
| `HubConnections` | the connections of one remote SKI in the hub | what a thread does under one lock |
| `MCHub` | the same for TLC, with symmetry of the inbound requests | |
| `MdnsDiscovery` | observations of the mDNS manager, the hub's queue of snapshots, pairing candidates and retries decided on them | what a thread does under one lock |
| `LatestView` | what discovery promises, abstractly: a view that moves on to newer tables only and reaches the last one | |
| `HubReconnect` | attempt counter, running flag, delayed attempts, retries, reannouncement | what a thread does under one lock |
| `WebsocketConnection` | the write channel, the pumps, pings, the PIN's write and the close | one lock, one select or one library call |
| `MdnsAnnounce` | life of the mDNS manager and its providers, Avahi reconnection | what a thread does under one mutex |
| `PairingGate_proofs`, `HandshakeTimer_proofs`, `MdnsDiscovery_proofs`, `HubConnections_proofs`, `HubReconnect_proofs`, `WebsocketConnection_proofs`, `MdnsAnnounce_proofs`, `ShipHandshake_proofs` | theorems about the modules they are named after | |

How they fit together: `WebsocketConnection` is below `ShipHandshake`, whose link
delivers what `DeliveryInv` promises and whose `LinkBreaks` is the report that
`BreakIsReported` promises. `PairingGate` and `HandshakeTimer` open up what
`ShipHandshake` does in one step. `HubConnections` sees a connection as made,
running and reported; that the report comes once, and after all else but one state
update, is what `ClosedIsLast` guarantees, and `StateUpdate` of `HubConnections`
may indeed come after the close. `MdnsDiscovery` decides which snapshot the hub
applies; `HubReconnect` takes "a snapshot is applied" as a step and follows what it
starts; `MdnsAnnounce` is the other direction of mDNS.

### ShipHandshake

An endpoint is a record of the fields of `ShipConnection` that matter. Handlers
are operators from record to record that follow the code's order of calls;
`Update` installs the result and puts the messages it sent on the wire. `Run`,
the read pump, the timer goroutine and the hub are threads: each samples the
state in one step (`RunSample`, `ReadSample`, `TimerSample`, `Approve`,
`AbortPending`) and runs the handler of the sample in another, so a stale sample
is possible wherever it is in `handleState`. The handlers themselves are atomic:
two threads inside handlers at once are the subject of `PairingGate` and
`HandshakeTimer`.

`Sessions` says which ends may be this code, and `Local` which ones are. With
both, the module is a session between two instances; with one, the peer is
foreign and may send any message at any time (`ForeignSend`; what the message
says is chosen when a handler looks at it, `Content`). `Scenarios` are the sets
of disturbances a session may meet: approvals, aborts and closes by the hub, late
timeouts, a breaking link and a failing SPINE setup; `Init` picks one for the
endpoints (`may`).

Abstractions: a waiting time is told apart only as the comparisons of
`hs_hello.go` do (absent, below 1 s, below 30 s, longer); a message is its kind;
SHIP IDs that match or not are two kinds of `accessMethods`; the PIN is a kind
of message, and what the provider did is a choice; durations are dropped, an
armed timer may expire whenever fewer than `WireCap` messages are unread. A
closed websocket is noticed by the next write or by the read pump; while the
pump is closing it, a write fails instead (`"breaking"`). When the write of the PIN
fails, the reader waits for a lock it holds itself (`PinWriteFails`): it is `Stuck`,
and so is every thread that then writes or claims the close; what such a call changes
before it waits is left out. The hub's trust is the
flag `trusted`, `consent` is a history variable: some user at this end agreed
(for a client, by dialling).

`AgreedSession` leaves out states, messages, timers and threads. An end is in the
handshake, open, closing or closed (`Phase`: reader installed, close claimed, close
reported); `trusting` and `agreed` are the ends whose users gave their consent, and all
that was asked for. Opening needs the own agreement and the trust of both ends, hearing
that both have opened, and neither happens once a close is claimed. In `ShipHandshake`
the step that hears is the decision to deliver; `PairingGate` shows that the one payload
decided on last may reach the application after a close was claimed (`LateInv` below).
An approval may still be recorded after the end has closed (`Decide`): it then has no effect.

### PairingGate

Starts where the peer's `accessMethods` arrives. `effects`, `drainer` and
`running` are the queue of `runPairingEffect`; a thread that enqueues into an idle
queue drains it, any other one waits or goes on. An effect runs in stages: take,
check the gate, callback, end, so that a close may be claimed between any two of
them; inside a callback the hub may approve or close again (`CallbackApprove`,
`CallbackClose`). `queue`, `dispatcher` and `hand` are the SPINE dispatch queue.
The pump that found the link broken goes through `ReportConnectionError`:
`ConnectionError`, `SetErrorState`, its close, and then the error state once more, to
the hub directly and past the queue (`RepeatError`, `RepeatEnd`). `after` counts the
calls into the hub that begin after it was told of the close, whoever makes them.

### HandshakeTimer

Every call of `setHandshakeTimer` is a generation. `Revoke` is the critical
section of `stopHandshakeTimer`, `Arm` the second one of `setHandshakeTimer`;
timeout handlers are callers too. `setHandshakeTimer` stops the old generation
under one lock and installs the new one under another, so of two concurrent calls
one may overwrite the other's generation without stopping it: `BarrierPasses`
therefore promises the end of the barrier only once such timers have expired.

### HubConnections

One remote SKI. A connection (`Inbound`, `Dialers`, `Pairers`) stands for a
request or an attempt together with the thread that serves it (`pc`), its entry
in `outboundAttempts` (`attempts`, `bound`, `cancelled`) and the ShipConnection it
makes (`life`: none, made, running, reported). The thread of an inbound request
follows `ServeHTTP`: `Arrive`, then `Reserve` and `RegisterReserved` for a queued
service or `Check` and `RegisterInbound` for any other one. The thread of an
attempt follows `connectFoundServiceWithLoggingOptions`: `Enter`, `Launch`, `Dial`,
`Keep`, `Bind`, `RegisterOutgoing`, `Run`, `Leave`. Whoever replaces a connection
blocks and drains its callbacks first (`Block`, `Replace`).

Revocation is what the code makes of it, three sections: registrations, then
connections while `muxReg` is still held (`removing`), then contexts
(`cancelling`). A connection ends when it was closed (`doomed`), when its context
was cancelled or by itself; `CloseInbound` and `CloseOutbound` are its report.
An authority is a number, the candidate is known by its authority, and the
service's state is only told apart as queued or not; the state updates of an inbound
handshake overwrite it (`HelloOk`, `StateUpdate`), the repeated error report even after
the close. A call of an attempt into the application goes through the checks of
`outgoingAttemptInfoProvider` one by one (`BeginCallback`, `OwnsCallbacks`,
`EndCallback`); `overtaken` are the attempts that were replaced in the middle of such a
call, which `Block` waits for only if it still finds their registration. Auto accept
is off. A second address after a handoff counts as another attempt. Replacing the
attempt gate and the choice of addresses are left out; delays, counters and
`RetryTrustedRemote` are in `HubReconnect` and `MdnsDiscovery`.

### MdnsDiscovery and LatestView

`log[r + 1]` is the table of revision `r`; a copy of it is named by `r`. Every change
and every request starts a goroutine that carries a copy (`reports`), and
`enqueueMdnsSnapshot` takes them in any order. `drainMdnsSnapshots`,
`reportStaleSnapshot` and `reportMdnsSnapshot` are the drainer; the two report
actions are `reportMdnsSnapshot` of the code on its two paths, up to the reports to
the application. Two numbers are kept apart as in the code: the *revision* orders
tables, the *admission* counts snapshots accepted, stale ones too, and a candidate
or a retry passes only when the last admitted snapshot has been applied.

A candidate is a reference the manager rotates when a service loses a fact
(`processScopedMdnsEntry`). Selecting one gives it an `authority`; its goroutine
looks at the authority before it dials, and whoever ends it (failed dial, closed
connection, snapshot that lacks it, unregistration) raises the authority and takes
the PIN provider along. `view` is the copy shown, so `LatestView` is implemented
with `shown <- view` and the same `log`.

`EarlyRequests` says whether entries may be requested before the first observation.
The hub does so (`checkAutoReannounce`), and then the property of `LatestView` does
not hold (see the finding); `Discovery` checks what holds without it.

### HubReconnect

The drainer starts an attempt when the remote is trusted, not connected and no
attempt runs: set the flag (`setConnectionAttemptRunning`), count and start the
goroutine (`coordinateConnectionInitations`), which sleeps, clears the flag (`wake`),
compares its counter and dials. `task[s]` are these goroutines and those of
`RetryTrustedRemote`. A failed dial or a close reannounces (`checkAutoReannounce`),
which is one more snapshot: `pending`.

A dial (`connectFoundService` to `leaveDial`) is turned away when the remote is
connected, dialled or reserved; past that, it fails, is denied because its authority
was rotated, gives way to a connection of the higher SKI, is rejected at the
registration by a reservation, or is registered. Meanwhile the remote connects
(`Arrive` to `registerInbound`): the requests are counted by their stage, as all of
them are alike. `reservation` is what the hub's entry has come to: `"new"` or `"over"` a
registered connection, `"stale"` when that one has changed, `"won"` by a connection, or
`"leaked"` when the winner was replaced, as nobody releases it then. `turnedAway`
records an attempt that a reservation, or another attempt past its dial, turned away
although there was no connection, and `orphaned` one whose counter was taken away. The
attempt gate permits every dial, and 128 superseded connections are not reached.

### WebsocketConnection

`shipWriteChannel` is a sequence of at most one message, `hand` what the write pump
has taken from it, `wire` what went out. `once`, `closed` and `signal` are the three
places where the close is visible, set one after another as in `close`. Pings, the
write pump and the PIN's write share the library connection. The read pump fails on a
broken link or on what the peer must not send (`readsNoShipMessage`). A report of an
error returns, except that of the PIN writer, which may get stuck in the SHIP
connection; `BreakIsReported` counts the call of the report.

### MdnsAnnounce

Four threads (the one in `Start`, a caller of the hub, one in `Shutdown`, the signal
handler), the Avahi daemon and the goroutines of `attemptReconnect`. The announced
text is told apart only by its `register` entry, the part that changes while the
program runs; a text is a set of at most one Boolean, `{}` is none. A second
announcement makes a second entry group in the code and drops the first unfreed; the
model keeps the text of the newest only.

## 3. Runs

Passing:

| run | question |
|---|---|
| `ShipPair` | can a session deliver SPINE data without both users' consent; is each wait timed; does the session implement `AgreedSession`; with late timeouts, an abort, or a close, a breaking link and a failing setup |
| `ShipPairLive` | does a handshake settle and no end stay half open |
| `ShipForeign` | a client and a server against any sequence of messages: consent, one report of the end, with no timer left, and is the PIN sent at most once |
| `GateRace` | approvers, closer, reader, stale timeout and broken link in every order: setup needs approval and happens once, the hub is told of the close once and hears at most the repeated error of a broken link after it, payloads stay in order |
| `GateLive` | no approval is lost and a claimed close is carried out, with a late timeout, a broken link and callbacks that approve or close; the exception is a synchronous approval in a queue that the timeout or the pump drains |
| `Timer` | the barrier is quiet and passed, revoked generations stay silent, stopping returns at once |
| `Hub` | requests, a reconnect and a pairing attempt for one SKI with user calls and shutdown: the map holds no dead connection and shutdown is final, none is left open and forgotten, the application never hears the end of a replaced one, whose calls are over before the successor runs (but for the one under way when its registration was already gone), a connection gives way only to one that the higher SKI initiated |
| `Discovery` | every order of delivery: decisions rest on the newest snapshot, a candidate is selected once, a selection and its PIN fit the view, a dialling retry is bound to what is shown, and the view implements `LatestView` |
| `Reconnect` | the running flag never outlives its owner, and a trusted remote gets connected however many dials fail, inbound requests and reservations included, unless an attempt was orphaned or turned away (section 5) |
| `Websocket` | nothing accepted is lost, duplicated or reordered while the connection lives; writers return; a broken link is reported |
| `Announce` | nothing is announced after Shutdown, which returns; an announced service is back on the network after the daemon's return |

Violation, the finding of `PROJECT.json`: `DiscoveryRevision`, the same module with
early requests. Two requests use up the revision of the first observation.

### Bounds

* `BufferLimit`, `MaxBuffered` = 1 stand for the limits of the SPINE buffer
  (`connection.go`): one message that fits and one that does not reach both
  branches; `MaxData`, `MaxPayloads` (1 and 2) are chosen to exceed them. No payload
  arrives in `GateLive`, whose properties are about approvals and closes.
* `WireCap` holds back timeouts while that many messages are unread; without it a
  pending server could ask for prolongation for ever without being read. With 1
  (`ShipPair`, `ShipForeign`) a timeout overtakes a message the reader has already
  taken, with 2 (`ShipPairLive`) also one that is still on the wire.
* One timeout callback per endpoint at a time in `ShipHandshake`; more are in
  `HandshakeTimer` (3 generations: one handling, one orphaned, one current).
* Two approvers and one closer in `GateRace`: two threads compete for the setup,
  and a close is claimed besides by overflow, timeout, broken link or callback. In
  `GateLive` one approver, the timeout, the pump of the broken link and the callbacks:
  every kind of thread that can drain the queue.
* `AtOnce` = 3 of two inbound requests, one reconnect and one pairing attempt:
  one connection replaced by a second while a third is on its way. `MaxCalls` = 2
  calls of the user (a candidate selected and then revoked, a registration and a
  shutdown). `MaxSuperseded` = 1 stands for 128, so that the capacity is reached.
* `Discovery`: one service with two addresses and one other fact, three changes of
  the table (observed, changed, gone and back), three calls of the user: a candidate
  selected, retired and selected again, with copies of three revisions under way.
* `Reconnect`: two goroutines at once (a sleeping or dialling attempt and a newer one or
  a retry), a counter of 2 as in `connectionInitiationDelayTimeRanges`, and four events,
  which are calls of the user, inbound requests, failed dials and closes together: enough
  for a registration, two requests, of which one leaks the reservation of the other, and
  a close.
* `Websocket`: two writers and two messages, so the channel is full while a second
  writer holds the lock; one ping. `Announce`: two outages of the daemon and two
  reconnecting goroutines, so an older one can wake after a newer one began.
* Deadlock is not checked: a session that has closed stops, as the program does.

### Fairness

A goroutine that can run does, and handlers return. Two things in them block: the
effect queue, which `PairingGate` opens up, and `shipWriteMux`, which a reader whose write
of the PIN fails never gets (`Stuck`); nothing is assumed of an endpoint that is stuck,
and the session of `ShipPairLive` has no PIN. Armed timers
expire in `ShipHandshake`; in `HandshakeTimer` only `BarrierPasses` assumes it
(`TimersExpire`), as stopping must not rely on it. In `MdnsDiscovery` each report's
goroutine runs and the drainer goes on; in `HubReconnect` delays end and dials
return (one condition for all threads is enough, since without new events they come to
an end), in `WebsocketConnection` a library call ends (it has a deadline), in
`MdnsAnnounce` threads that have begun go on. No fairness is assumed of users, of
the network, of foreign peers or of the Avahi daemon.

## 4. Proofs

`PairingGate_proofs` proves for any threads, flags and limits: `TypeCorrect`,
`SetupIsApproved`, `CloseIsLast`, `SetupPrecedesClose` and `PayloadsInOrder`
(`InOrder`). The properties are not
inductive: nothing in them says why a second setup or close cannot be queued. The
strengthening sees the right to set up and the right to close as tokens that are
handed from the thread that won the gate to its queued task, to the running
effect and, for a close, to the finisher. `SetupInv` and `CloseInv` say that each
token is in at most one place, `RunInv` ties the running effect to the draining
thread, and `OrderInv` says that no state report is queued behind a close, since
reports are enqueued only while the gate is open. `AfterInv` says that only the pump of
the broken link still calls the hub afterwards, once, and ties the count of such calls to
where the pump is. Steps that move no token are
handled together, the others by a lemma each. `PayloadsInOrder` stands on that
invariant and on three parts more: one thread sets up and one dispatches (`RoleInv`);
while the gate is open, what was delivered, what the dispatcher holds, what is queued
and what is buffered are one sequence without a gap, from the report of the completion
to the last payload that arrived (`StreamInv`); a closed gate lets through only the
delivery that was already decided on (`LateInv`).

`HandshakeTimer_proofs` proves `TimerTypeCorrect`, `BarrierIsQuiet` and
`RevokedStaysSilent` for any number of callers and generations. The invariant
identifies the counter with the cardinality of the set of live goroutines
(`CountInv`), says that the closer reads it after `shutdownChan` was closed
(`BarrierInv`), and that a revoked generation is not the running current one
(`RevokedInv`).

`MdnsDiscovery_proofs` proves for any keys, addresses, sightings and numbers of
updates and calls: `TypeCorrect`, `AdmissionIsComplete` (`AdmissionSeesAll`),
`RetryIsBound` (`RetryIsCurrent`), `SelectionIsSound` (`SelectionSound`), and, where
entries are not requested before the first observation (`EarlyRequests = FALSE`),
`ViewIsLatest` and `CandidateIsSelectedOnce` (`CandidateOnce`). The invariants:

* `LogInv`: a copy that is sent or queued is a copy of a table the manager has had.
* `AdmissionInv`: the snapshots admitted and not yet applied are exactly the queue,
  in the order of admission, and the newest revision heard of is shown or queued.
  That is why `applied = admission` is enough of a check in
  `lockPairingCandidateAdmission`.
* `RetryInv`: a retry on record has the current authority and belongs to the snapshot
  that is shown, and one goroutine at most works for an authority. `RetryIsCurrent`
  alone is not inductive: it says nothing of goroutines that do not dial yet.
* `OrderInv`: a snapshot is numbered as the table it copies. It fails as soon as
  revision 0 is sent, which is what `DiscoveryRevision` shows; hence the assumption.
* `LineageInv`: the revisions whose tables hold a candidate reference are an interval.
  `SpentInv`: a selected candidate was in a table that has been shown, and is
  remembered as long as a table that is shown or to come holds it. Together they
  justify that the hub forgets a consumed candidate once a snapshot lacks it
  (`hub_mdns.go:162-168`): it cannot come back.

`ViewIsLatest` is the refinement of the safe part, `Views!SafeSpec`: initial states
map to initial states, and every step is an update, a catch-up or a stutter.

`HubConnections_proofs` proves `TypesHold`, `RegistryIsSound` (`RegistrySound`),
`NoConnectionIsOrphaned` (`NoOrphan`), `ReplacedStaysSilent` (`ReplacedIsSilent`) and the
action property `HigherSKIAlwaysWins` (`HigherSKIWins`) for any number of requests,
attempts, pairings and calls of the user. None is inductive alone:

* `PlaceInv`, `MetInv`: a connection exists only where its thread has come to make it,
  and the registry knows none that is still to be registered. That is why a thread
  that registers cannot bring back a connection that has ended.
* `MapInv`: what is registered is alive, a mark of `supersededConnections` belongs to a
  live connection, and only what has ended is announced.
* `GateInv`: an attempt leaves `outboundAttempts` only for the cancellations, and the
  gate knows the connection of every attempt that has one; so a revocation, which looks
  at the gate, misses none, and what it removes is not orphaned.
* `VictimInv`, `SilenceInv`: from the replacement on, the replaced connection is marked
  until it reports its end; its callbacks are first blocked and then over if its
  registration was found, and in any case a call under way was so at the replacement.
* `ReserveInv`: only the lower side reserves a pairing over an existing connection,
  which is what the action property needs of a request that was admitted earlier.
* `TypeInv`: the authorities stay below the bound because a candidate keeps back the
  rotation its retirement will make.

`HubReconnect_proofs` proves `AttemptFlagIsOwned` (`AttemptInv`): the flag is a token that
is handed from place to place, and the property is inductive once the slot that a new
goroutine gets is known to be free (`FreeSlotIsFree`). It holds whatever the inbound
requests and reservations do.

`WebsocketConnection_proofs` proves `NothingIsLost` (`DeliveryInv`) for any writers and
messages. The order of the concatenation is kept per piece and between pieces
(`OrderInv`); what makes an appended message newer than everything in flight is that a
writer on its way to the channel has nothing of its present call in flight (`AgeInv`);
`ChannelInv` keeps channel and pump to one message each; `SentInv` follows the message of a
writer that has yet to look at the close again.

`MdnsAnnounce_proofs` proves `NothingRunsAfterShutdown` (`ShutdownInv`) for any selection of
providers and any number of reconnecting goroutines. Whatever a provider does it does for
a holder: `Start` before it installs it, the manager, or the thread in `Shutdown`; the last
holder silences it (`ZeroconfInv`, `AvahiInv`). A reconnection acts without holding the
provider, so the invariant also says that the provider is held as long as anything may
start it again (`InPlay`) and no shutdown is known; the exception is exactly the
reconnection that slept through the shutdown (`revived`). `OnceInv` says that one thread
shuts the manager down, for good, and that nothing is installed before or after.

`ShipHandshake_proofs` proves for any sessions, scenarios and limits, foreign peers
included: `TypesHold`, `ReportsAreLast` (`ReportIsLast`), `CompletedWithConsent`
(`CompletionNeedsConsent`), `DeliveredWithConsent` (`DataNeedsBothApprovals`), the action
property `PinIsSentOnce` (`PinOnce`) and the refinement `AgreementIsKept`
(`KeepsAgreement`); and `WaitsAreTimed` (`WaitIsTimed`) for sessions in which both ends are
instances of this code. The states of an endpoint say nothing of its peer, so `Inv` adds:

* `CloseKept`: the stages of a close and what each has made sure of; the PIN that was
  written is remembered.
* `ConsentKept`: no endpoint is past the hello phase without the consent of its user,
  nor is any thread inside a handler for a state that was sampled before (`SeenKept`); a
  client gets there only by what it heard of the server.
* `WireInv`, `MessageKept`: a ready on its way means that its sender has the consent, a
  datagram that its sender has installed the reader. `Known(r)` is what the endpoint `r`
  may take as known of its peer; it only grows, and of a foreign peer it is everything.

A handler is a composition of `SetState`, the timer, the write, the close and the
approval. `Stays(b, c, k)` says that a call on the record `b` has come to a record `c` that
keeps all this; a lemma each shows it of the primitives and another of every handler, for
any state the thread has sampled. So a thread that acts on an old sample needs no case of
its own. The release of the SPINE setup and the delivery of a payload go further:
`Leaves(b, c, k)` lets a call install the reader or deliver if the close is not claimed.

`AgreementIsKept` stands on that. A step moves one endpoint (`OneMoves`), takes nothing
back and reports a close alone (`Moves`), so it is one of the five actions of
`AgreedSession` or a stutter (`MovePhases`, `AgreedStep`). What `Inv` adds is the other end:
that an end which completes has its peer's consent (`ConsentOfBoth`), and that what is
delivered, kept-back payloads included, was sent by a peer that had installed the reader
(`HeardOfBoth`).

`TimeInv` is the same for the timer: an endpoint that waits has its timer armed, or an
expired one whose callback sampled a wait (`Watched`). A handler called on a settled
endpoint leaves a settled one, and a timeout that finds a wait ends it or arms the timer
again, whichever wait it sampled. Against a foreign peer this is false, as a pending hello
with 1 s to 30 s of waiting leaves a wait without a timer (section 5). This code never sends
one, nor asks for a PIN (`OwnMessages`), so the theorem assumes that `Sessions` holds
`{"client", "server"}` only, as in `ShipPair`.

Each of these inductive invariants was model-checked on an instance of its run's size
before it was proved. The theorems assume only the named `ASSUME`s of the modules they
speak about, and `EarlyRequests = FALSE` or sessions of two instances where their
statements say so. Every safety invariant and every safety action property of the runs is a
theorem. Only model-checked are the liveness properties, the fair part of `Refines`
included: liveness under fairness is out of the prover's reach.

## 5. Known deviations

Where the code does not do what its comments or tests say, or where a property
carries an exception because of it. Only the first one has a run.

| where | what happens |
|---|---|
| `hub_mdns.go:40`, `mdns.go:784` | revision 0 of an early request is given a local number in the manager's number space (`DiscoveryRevision`) |
| `connection.go:422` | an approval overtaken by an unread hello: the next state takes that hello for a protocol proposal and ends in an error |
| `hs_hello.go:176` | a pending hello with 1 s to 30 s of waiting stops the timer and starts none (`WaitIsTimed` of a session of two instances never meets it: neither sends such a value) |
| `connection.go:501` | a late timeout, or the pump of a broken link, that drains the effect queue may run the `Approved` callback; a synchronous approval there waits for its own queue for ever, and a close waits behind it (the exception of `CloseCompletes`, which `GateLive` reaches) |
| `connection.go:847-851` | `ReportConnectionError` reports the error state to the hub once more after its own close, so the close is not the last thing the hub hears (the exception of `ClosedIsLast`) |
| `hs_pin.go:256-261`, `connection.go:569` | a failing write of the PIN reports the error while `shipWriteMux` is held, and the close of that report locks it again: the reader hangs, and the connection is never closed nor reported closed (`PinWriteFails`) |
| `hub_connections.go:1474-1484` | a replaced attempt whose registration is gone is neither blocked nor waited for: the call it is in may go on beside its successor (the exception of `ReplacedIsSilent`) |
| `hub_connections.go:282`, `hub_shipconnection.go:134-137`, `hub_connections.go:394-408` | a request that passed the reservation check too early replaces the reserved winner, and the reservation is never released: every later dial is turned away, counts as a success, and nothing looks for the remote again (`turnedAway` in `Reconnects`) |
| `hub_connections.go:395`, `:408` | an attempt is turned away by another one that is past its dial, although the connection of that one is gone already (`turnedAway`, too) |
| `hub_connections.go:888`, `:921`, `hub_pairing.go:556` | an attempt whose counter a close or an unregistration took gives up without a reannouncement (`orphaned` in `Reconnects`) |
| `hub_shipconnection.go:185` | a late HelloOk trusts a service again that was unregistered |
| `hub_pairing.go:234`, `:547` | `RegisterRemoteSKI` drops the active candidate but leaves its PIN provider (`SelectionSound` speaks of untrusted remotes) |
| `avahi.go:273-298`, `:100` | a reconnection that slept through Shutdown starts the provider again (`revived` in `ShutdownInv`), although `avahi.go:157` sets the flag against it |
| `avahi.go:262-298` | a reconnection publishes the text it kept when the daemon was lost, even if that was withdrawn or has changed meanwhile |
| `avahi.go:211-229` | a second announcement makes a new entry group and drops the old one, which nothing frees (not modelled) |
| `websocket.go:294` | the PIN may overtake a message that waits in the channel |
| `websocket.go:400` | a write that meets the local close between its two looks reports an error |

## 6. Not modelled

JSON rewriting, certificates, logging, byte-level PIN handling, the PIN details
published to the application; the listener policy; the parsing of text records and
what Avahi and zeroconf collect; the choice of host and path of a dial; the
notifications to the application; the 64-bit wrap of revisions. The components
marked `not_modelled` or `partly` in `PROJECT.json` give the reason.

## 7. Plan

1. `PairingGate` as an implementation of the same abstraction, seen from one end: its late
   delivery needs a step of its own in `AgreedSession`.
2. Listener policy, if it ever gets a state that several threads share.
