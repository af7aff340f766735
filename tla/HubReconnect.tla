----------------------------- MODULE HubReconnect -----------------------------
(***************************************************************************)
(* How the hub finds its way back to a trusted remote: the attempts the    *)
(* drainer of mDNS snapshots coordinates (coordinateConnectionInitations,  *)
(* prepareConnectionInitation, the attempt counter and the running flag),  *)
(* the explicit RetryTrustedRemote, the reannouncement after a failed      *)
(* attempt or a close, and the user who registers and unregisters the      *)
(* remote (hub/hub_connections.go, hub_mdns.go, hub_pairing.go,            *)
(* hub_shipconnection.go, hub.go).  The remote connects too, and the side  *)
(* with the higher SKI keeps its own connection.                           *)
(*                                                                         *)
(* There is one remote SKI, announced and at the same address throughout,  *)
(* so a snapshot is only the fact that the table was reported once more    *)
(* (MdnsDiscovery shows which one the hub applies).  A step is what a      *)
(* thread does under one lock, or under several taken together.  A delay   *)
(* is a step that may come at any time.  No pairing candidate is selected, *)
(* so no reservation has an authority; maximumSupersededConnectionsPerSKI  *)
(* is not reached.                                                         *)
(***************************************************************************)
EXTENDS Integers

CONSTANTS
    Slots,        \* goroutines at work at once
    Acts,         \* what may disturb: "unregister", "retry"
    Orders,       \* the SKI orders explored: is the local SKI the higher one?
    MaxCounter,   \* len(connectionInitiationDelayTimeRanges) - 1
    MaxEvents     \* bound: calls of the user, inbound requests, failed dials and
                  \* closed connections together

ASSUME SlotAssumption == Slots \subseteq Nat \ {0}
ASSUME ActAssumption == Acts \subseteq {"unregister", "retry"} /\ Orders \subseteq BOOLEAN
ASSUME BoundAssumption == MaxCounter \in Nat /\ MaxEvents \in Nat

VARIABLES
    localHigher, \* localService.SKI() > remoteSKI
    trusted,     \* service.Trusted()
    queued,      \* the service's state is ConnectionStateQueued
    conn,        \* connections[ski]: "none", or which side opened it
    completed,   \* its handshake is complete
    reservation, \* inboundPairingReservations[ski]
    initiating,  \* connectionsInitiating[ski]
    counter,     \* connectionAttemptCounter[ski], or -1
    running,     \* connectionAttemptRunning[ski]
    authority,   \* outboundAuthorities[ski]
    retry,       \* slot of activeTrustedRemoteRetries[ski], or 0
    pending,     \* snapshots admitted and not yet applied
    drainer,     \* where the drainer of snapshots is
    user,        \* where the call of the user is
    closes,      \* where the reports of closed connections are
    requests,    \* where the inbound requests are
    task,        \* the goroutines of attempts and retries
    orphaned,    \* history: an attempt lost its counter, or a retry was called
    turnedAway,  \* history: an attempt was since there was a connection
    events       \* what came from outside so far

service == <<localHigher, trusted, queued, authority, retry>>
link    == <<conn, completed, initiating, reservation, turnedAway>>
attempt == <<counter, running>>
threads == <<drainer, user, closes, requests, task>>
bounds  == <<events, orphaned>>
vars    == <<service, link, attempt, pending, threads, bounds>>

Idle == [pc |-> "idle", counter |-> 0, auth |-> 0]
Free == {s \in Slots : task[s] = Idle}
FreeSlot == CHOOSE s \in Free : \A r \in Free : s <= r

Event == events < MaxEvents /\ events' = events + 1

Stages == {"reserve", "claim", "abandon", "check", "register"}

Connected == conn # "none"
Reserved  == reservation # "none"

\* checkAutoReannounce: the table is reported again when the trusted remote is
\* not connected.
checkAutoReannounce ==
    pending' = IF trusted /\ ~Connected THEN pending + 1 ELSE pending

\* A reservation stands for the connection it found registered, if any ("over"):
\* it is "stale" when that changes.
Changed == IF reservation = "over" THEN "stale" ELSE reservation

\* connections[ski] is set.  An inbound connection that replaces the winner of a
\* reservation leaves the reservation behind: only the close of the winner would
\* release it, and that of a replaced connection does not.
Connect(side) ==
    /\ conn' = side /\ completed' = FALSE /\ turnedAway' = FALSE
    /\ reservation' = IF reservation = "won" THEN "leaked" ELSE Changed

\* It is removed; the report of the close is under way.
Disconnect ==
    /\ conn' = "none"
    /\ reservation' = IF reservation = "won" THEN "none" ELSE Changed
    /\ LET report == IF completed THEN "counter" ELSE "announce" IN
       closes' = [closes EXCEPT ![report] = @ + 1]
    /\ UNCHANGED <<completed, turnedAway>>

\* The connections of revoked attempts are removed.
RemoveOutbound ==
    IF conn = "outbound" THEN Disconnect
    ELSE UNCHANGED <<conn, reservation, completed, turnedAway, closes>>
-------------------------------------------------------------------------------
(* The drainer of snapshots.                                               *)

\* A snapshot is applied: it ends the retry that was bound to the one before.
reportMdnsSnapshot ==
    /\ drainer = "idle" /\ pending > 0
    /\ pending' = pending - 1
    /\ drainer' = IF retry # 0 THEN "clear" ELSE "check"
    /\ retry' = 0
    /\ IF retry # 0 THEN authority' = authority + 1 /\ RemoveOutbound
       ELSE UNCHANGED <<authority, conn, reservation, completed, turnedAway, closes>>
    /\ UNCHANGED <<localHigher, trusted, queued, initiating, attempt, user, requests,
                   task, bounds>>

clearTrustedRemoteRetryRunning ==
    /\ drainer = "clear"
    /\ running' = FALSE
    /\ drainer' = "check"
    /\ UNCHANGED <<service, link, counter, pending, user, closes, requests, task, bounds>>

\* Only a trusted remote that is not connected, and one attempt at a time.
isConnectionAttemptRunning ==
    /\ drainer = "check"
    /\ drainer' = IF ~Connected /\ trusted /\ ~running THEN "start" ELSE "idle"
    /\ UNCHANGED <<service, link, attempt, pending, user, closes, requests, task, bounds>>

setConnectionAttemptRunning ==
    /\ drainer = "start"
    /\ running' = TRUE
    /\ drainer' = "count"
    /\ UNCHANGED <<service, link, counter, pending, user, closes, requests, task, bounds>>

increaseConnectionAttemptCounter ==
    IF counter < MaxCounter THEN counter + 1 ELSE MaxCounter

\* The counter decides the delay; the goroutine remembers it.
coordinateConnectionInitations ==
    /\ drainer = "count" /\ Free # {}
    /\ counter' = increaseConnectionAttemptCounter
    /\ task' = [task EXCEPT ![FreeSlot] = [pc |-> "wait", counter |-> counter', auth |-> 0]]
    /\ drainer' = "idle"
    /\ UNCHANGED <<service, link, running, pending, user, closes, requests, bounds>>
-------------------------------------------------------------------------------
(* prepareConnectionInitation, in goroutine s.                             *)

\* removeConnectionAttemptCounter, under an attempt that waits with its counter or not.
removeCounter ==
    /\ counter' = -1
    /\ orphaned' = (orphaned \/ \E s \in Slots : task[s].pc \in {"wait", "compare"})

Goto(s, pc) == task' = [task EXCEPT ![s].pc = pc]
End(s)      == task' = [task EXCEPT ![s] = Idle]

\* Mutant: the flag stays set when the delay is over.
WakeKeepsRunning(s) ==
    /\ task[s].pc = "wait"
    /\ Goto(s, "compare")
    /\ UNCHANGED <<service, link, attempt, pending, drainer, user, closes, requests, bounds>>

wake(s) ==
    /\ task[s].pc = "wait"
    /\ running' = FALSE
    /\ Goto(s, "compare")
    /\ UNCHANGED <<service, link, counter, pending, drainer, user, closes, requests, bounds>>

\* The attempt is irrelevant when the counter has moved on or is gone.
getCurrentConnectionAttemptCounter(s) ==
    /\ task[s].pc = "compare"
    /\ IF counter = task[s].counter THEN Goto(s, "prepare") ELSE End(s)
    /\ UNCHANGED <<service, link, attempt, pending, drainer, user, closes, requests, bounds>>

outboundReconnectAuthority(s) ==
    /\ task[s].pc = "prepare"
    /\ IF trusted /\ ~Connected
       THEN task' = [task EXCEPT ![s].pc = "begin", ![s].auth = authority]
       ELSE End(s)
    /\ UNCHANGED <<service, link, attempt, pending, drainer, user, closes, requests, bounds>>

\* connectFoundService returned an error, or it returned nil or was denied.  A
\* retry, which waits for no counter, does not look at what it returns.
Explicit(s) == task[s].counter = -1
Fail(s)     == Goto(s, IF Explicit(s) THEN "finish" ELSE "reannounce")
Return(s)   == IF Explicit(s) THEN Goto(s, "finish") ELSE End(s)

PastDial == \E s \in Slots : task[s].pc = "leave"

\* connectFoundService: nothing to do when the remote is connected, another
\* attempt is at it or a pairing request has reserved it.  History: the attempt
\* was turned away although there is no connection, by a reservation or by an
\* attempt that is past its dial.
connectFoundService(s) ==
    /\ task[s].pc = "begin"
    /\ \/ /\ Connected \/ initiating \/ Reserved
          /\ Return(s)
          /\ turnedAway' = (turnedAway \/ (~Connected /\ (Reserved \/ PastDial)))
          /\ UNCHANGED initiating
       \/ /\ ~Connected /\ ~initiating /\ ~Reserved
          /\ Goto(s, "dial") /\ initiating' = TRUE /\ UNCHANGED turnedAway
    /\ UNCHANGED <<service, conn, completed, reservation, attempt, pending, drainer, user,
                   closes, requests, bounds>>

\* The dial of an attempt whose authority was rotated is denied: no reannouncement.
dialDenied(s) ==
    /\ task[s].pc = "dial" /\ task[s].auth # authority
    /\ initiating' = FALSE
    /\ Return(s)
    /\ UNCHANGED <<service, conn, completed, reservation, turnedAway, attempt, pending,
                   drainer, user, closes, requests, bounds>>

dialFails(s) ==
    /\ task[s].pc = "dial" /\ task[s].auth = authority
    /\ Event
    /\ initiating' = FALSE
    /\ Fail(s)
    /\ UNCHANGED <<service, conn, completed, reservation, turnedAway, attempt, pending,
                   drainer, user, closes, requests, orphaned>>

\* The remote, with the higher SKI, connected meanwhile: keepThisConnection gives
\* way, or the registration does (InboundHandoff).
dialGivesWay(s) ==
    /\ task[s].pc = "dial" /\ task[s].auth = authority
    /\ Connected /\ ~localHigher
    /\ initiating' = FALSE
    /\ Fail(s)
    /\ UNCHANGED <<service, conn, completed, reservation, turnedAway, attempt, pending,
                   drainer, user, closes, requests, bounds>>

\* The remote was reserved meanwhile: the registration is rejected, and the attempt
\* denied.  The new connection is closed and its end reported.
dialRejected(s) ==
    /\ task[s].pc = "dial" /\ task[s].auth = authority
    /\ Reserved
    /\ closes' = [closes EXCEPT !["announce"] = @ + 1]
    /\ Goto(s, "leave")
    /\ UNCHANGED <<service, link, attempt, pending, drainer, user, requests, bounds>>

dialSucceeds(s) ==
    /\ task[s].pc = "dial" /\ task[s].auth = authority
    /\ ~Reserved /\ (Connected => localHigher)
    /\ Connect("outbound")
    /\ Goto(s, "leave")
    /\ UNCHANGED <<service, initiating, attempt, pending, drainer, user, closes, requests,
                   bounds>>

\* The deferred release.
leaveDial(s) ==
    /\ task[s].pc = "leave"
    /\ initiating' = FALSE
    /\ Return(s)
    /\ UNCHANGED <<service, conn, completed, reservation, turnedAway, attempt, pending,
                   drainer, user, closes, requests, bounds>>

\* Mutant: a failed attempt does not look for the remote again.
FailsSilently(s) ==
    /\ task[s].pc = "reannounce"
    /\ End(s)
    /\ UNCHANGED <<service, link, attempt, pending, drainer, user, closes, requests, bounds>>

initateConnectionFailed(s) ==
    /\ task[s].pc = "reannounce"
    /\ checkAutoReannounce
    /\ End(s)
    /\ UNCHANGED <<service, link, attempt, drainer, user, closes, requests, bounds>>
-------------------------------------------------------------------------------
(* RetryTrustedRemote.                                                     *)

RetryTrustedRemote ==
    /\ "retry" \in Acts /\ user = "idle" /\ Free # {}
    /\ Event
    /\ pending = 0 /\ trusted /\ retry = 0
    /\ ~Connected /\ ~initiating /\ ~Reserved /\ ~running
    /\ running' = TRUE
    /\ orphaned' = TRUE
    /\ retry' = FreeSlot
    /\ task' = [task EXCEPT ![FreeSlot] = [pc |-> "launch", counter |-> -1, auth |-> authority]]
    /\ UNCHANGED <<localHigher, trusted, queued, authority, link, counter, pending, drainer,
                   user, closes, requests>>

trustedRemoteRetryStillCurrent(s) ==
    /\ retry = s /\ pending = 0 /\ trusted
    /\ ~Connected /\ ~initiating /\ ~Reserved /\ authority = task[s].auth

\* The check before the dial.
runTrustedRemoteRetry(s) ==
    /\ task[s].pc = "launch"
    /\ Goto(s, IF trustedRemoteRetryStillCurrent(s) THEN "begin" ELSE "finish")
    /\ UNCHANGED <<service, link, attempt, pending, drainer, user, closes, requests, bounds>>

\* A retry that is no longer the active one leaves the flag to whoever ended it.
finishTrustedRemoteRetry(s) ==
    /\ task[s].pc = "finish"
    /\ IF retry = s THEN retry' = 0 /\ Goto(s, "cleared") ELSE End(s) /\ UNCHANGED retry
    /\ UNCHANGED <<localHigher, trusted, queued, authority, link, attempt, pending, drainer,
                   user, closes, requests, bounds>>

finishRunning(s) ==
    /\ task[s].pc = "cleared"
    /\ running' = FALSE
    /\ End(s)
    /\ UNCHANGED <<service, link, counter, pending, drainer, user, closes, requests, bounds>>
-------------------------------------------------------------------------------
(* The remote: requests (ServeHTTP), handshakes and closes.                *)

Move(from, to) == requests' = [requests EXCEPT ![from] = @ - 1, ![to] = @ + 1]
Leave(from)    == requests' = [requests EXCEPT ![from] = @ - 1]

\* A request reads the state of the service.
Arrive ==
    /\ Event
    /\ LET stage == IF queued THEN "reserve" ELSE "check" IN
       requests' = [requests EXCEPT ![stage] = @ + 1]
    /\ UNCHANGED <<service, link, attempt, pending, drainer, user, closes, task,
                   orphaned>>

\* The side with the higher SKI takes no connection that it has or dials itself.
TakesInbound == localHigher => ~Connected /\ ~initiating

\* reserveInboundPairingConnection, for a service that is queued
Reserve ==
    /\ requests["reserve"] > 0
    /\ \/ /\ ~Reserved /\ TakesInbound
          /\ reservation' = IF Connected THEN "over" ELSE "new"
          /\ Move("reserve", "claim")
       \/ /\ Reserved \/ ~TakesInbound
          /\ Leave("reserve") /\ UNCHANGED reservation
    /\ UNCHANGED <<service, conn, completed, initiating, turnedAway, attempt, pending,
                   drainer, user, closes, task, bounds>>

\* registerReservedInboundPairingConnection: unless the registered connection is
\* another than when the reservation was made
registerReserved ==
    /\ requests["claim"] > 0
    /\ \/ /\ reservation = "over" \/ (reservation = "new" /\ ~Connected)
          /\ conn' = "inbound" /\ completed' = FALSE /\ turnedAway' = FALSE
          /\ reservation' = "won"
          /\ Leave("claim")
       \/ /\ reservation = "stale" \/ (reservation = "new" /\ Connected)
          /\ Move("claim", "abandon")
          /\ UNCHANGED <<conn, completed, reservation, turnedAway>>
    /\ UNCHANGED <<service, initiating, attempt, pending, drainer, user, closes, task, bounds>>

abandonReservation ==
    /\ requests["abandon"] > 0
    /\ reservation' = "none"
    /\ Leave("abandon")
    /\ UNCHANGED <<service, conn, completed, initiating, turnedAway, attempt, pending,
                   drainer, user, closes, task, bounds>>

\* hasInboundPairingReservation, for any other service
Check ==
    /\ requests["check"] > 0
    /\ IF Reserved THEN Leave("check") ELSE Move("check", "register")
    /\ UNCHANGED <<service, link, attempt, pending, drainer, user, closes, task, bounds>>

registerInbound ==
    /\ requests["register"] > 0
    /\ Leave("register")
    /\ IF TakesInbound THEN Connect("inbound")
       ELSE UNCHANGED <<conn, completed, reservation, turnedAway>>
    /\ UNCHANGED <<service, initiating, attempt, pending, drainer, user, closes, task, bounds>>

\* The handshake of a connection overwrites the state of the service.
stateUpdate ==
    /\ Connected /\ queued
    /\ queued' = FALSE
    /\ UNCHANGED <<localHigher, trusted, authority, retry, link, attempt, pending, threads,
                   bounds>>

handshakeCompletes ==
    /\ Connected /\ trusted /\ ~completed
    /\ completed' = TRUE
    /\ UNCHANGED <<service, conn, initiating, reservation, turnedAway, attempt, pending,
                   threads, bounds>>

\* HandleConnectionClosed: the connection is claimed, ...
claimClosedConnection ==
    /\ Connected
    /\ Event
    /\ Disconnect
    /\ UNCHANGED <<service, initiating, attempt, pending, drainer, user, requests, task,
                   orphaned>>

\* ... a completed handshake resets the counter, ...
removeConnectionAttemptCounter ==
    /\ closes["counter"] > 0
    /\ removeCounter
    /\ closes' = [closes EXCEPT !["counter"] = @ - 1, !["announce"] = @ + 1]
    /\ UNCHANGED <<service, link, running, pending, drainer, user, requests, task,
                   events>>

\* ... and the remote is looked for again, if it is trusted.
reannounceAfterClose ==
    /\ closes["announce"] > 0
    /\ closes' = [closes EXCEPT !["announce"] = @ - 1]
    /\ checkAutoReannounce
    /\ UNCHANGED <<service, link, attempt, drainer, user, requests, task, bounds>>
-------------------------------------------------------------------------------
(* The user.                                                               *)

RegisterRemoteSKI ==
    /\ user = "idle"
    /\ Event
    /\ trusted' = TRUE
    /\ user' = "request"
    /\ UNCHANGED <<localHigher, queued, authority, retry, link, attempt, pending, drainer,
                   closes, requests, task, orphaned>>

\* A search unless the remote is connected; then its handshake is approved.
registerRequests ==
    /\ user = "request"
    /\ pending' = IF Connected THEN pending ELSE pending + 1
    /\ queued' = (queued \/ ~Connected)
    /\ user' = "idle"
    /\ UNCHANGED <<localHigher, trusted, authority, retry, link, attempt, drainer, closes,
                   requests, task, bounds>>

\* revokeOutboundAttempts, ...
UnregisterRemoteSKI ==
    /\ "unregister" \in Acts /\ user = "idle"
    /\ Event
    /\ orphaned' = (orphaned \/ Free # Slots)
    /\ trusted' = FALSE /\ queued' = FALSE /\ authority' = authority + 1 /\ retry' = 0
    /\ RemoveOutbound
    /\ user' = IF retry # 0 THEN "clear" ELSE "counter"
    /\ UNCHANGED <<localHigher, initiating, attempt, pending, drainer, requests, task>>

revokeClearsRunning ==
    /\ user = "clear"
    /\ running' = FALSE
    /\ user' = "counter"
    /\ UNCHANGED <<service, link, counter, pending, drainer, closes, requests, task, bounds>>

\* ... the counter is removed, ...
unregisterRemovesCounter ==
    /\ user = "counter"
    /\ removeCounter
    /\ user' = "close"
    /\ UNCHANGED <<service, link, running, pending, drainer, closes, requests, task,
                   events>>

\* ... and the connection, if any, is closed.
unregisterCloses ==
    /\ user = "close"
    /\ IF Connected THEN Disconnect
       ELSE UNCHANGED <<conn, reservation, completed, turnedAway, closes>>
    /\ user' = "idle"
    /\ UNCHANGED <<service, initiating, attempt, pending, drainer, requests, task, bounds>>
-------------------------------------------------------------------------------
Init ==
    /\ localHigher \in Orders
    /\ trusted = FALSE /\ queued = FALSE /\ authority = 1 /\ retry = 0
    /\ conn = "none" /\ completed = FALSE /\ initiating = FALSE
    /\ reservation = "none" /\ turnedAway = FALSE
    /\ counter = -1 /\ running = FALSE
    /\ pending = 0 /\ drainer = "idle" /\ user = "idle"
    /\ closes = [pc \in {"counter", "announce"} |-> 0]
    /\ requests = [pc \in Stages |-> 0]
    /\ task = [s \in Slots |-> Idle]
    /\ events = 0 /\ orphaned = FALSE

Drain ==
    \/ reportMdnsSnapshot \/ clearTrustedRemoteRetryRunning \/ isConnectionAttemptRunning
    \/ setConnectionAttemptRunning \/ coordinateConnectionInitations

Goroutine(s) ==
    \/ wake(s) \/ getCurrentConnectionAttemptCounter(s) \/ outboundReconnectAuthority(s)
    \/ connectFoundService(s) \/ dialDenied(s) \/ dialFails(s) \/ dialGivesWay(s)
    \/ dialRejected(s) \/ dialSucceeds(s) \/ leaveDial(s) \/ initateConnectionFailed(s)
    \/ runTrustedRemoteRetry(s) \/ finishTrustedRemoteRetry(s) \/ finishRunning(s)

Request     == Reserve \/ registerReserved \/ abandonReservation \/ Check \/ registerInbound
CloseReport == removeConnectionAttemptCounter \/ reannounceAfterClose
UserGoesOn  == registerRequests \/ revokeClearsRunning
               \/ unregisterRemovesCounter \/ unregisterCloses

Next ==
    \/ Drain \/ (\E s \in Slots : Goroutine(s)) \/ Request \/ CloseReport \/ UserGoesOn
    \/ Arrive \/ stateUpdate \/ handshakeCompletes \/ claimClosedConnection
    \/ RegisterRemoteSKI \/ UnregisterRemoteSKI \/ RetryTrustedRemote

Spec == Init /\ [][Next]_vars

\* Threads run, delays end and dials return; calls, closes and inbound requests
\* need not happen.
FairSpec ==
    /\ Spec
    /\ WF_vars(Drain \/ CloseReport \/ UserGoesOn \/ Request \/ \E s \in Slots : Goroutine(s))
-------------------------------------------------------------------------------
Places == {"idle", "wait", "compare", "prepare", "begin", "dial", "leave",
           "reannounce", "launch", "finish", "cleared"}
Task   == [pc : Places, counter : -1 .. MaxCounter, auth : Nat]

TypeOK ==
    /\ localHigher \in BOOLEAN
    /\ trusted \in BOOLEAN /\ queued \in BOOLEAN
    /\ authority \in Nat /\ retry \in Slots \cup {0}
    /\ conn \in {"none", "inbound", "outbound"}
    /\ completed \in BOOLEAN /\ initiating \in BOOLEAN /\ turnedAway \in BOOLEAN
    /\ reservation \in {"none", "new", "over", "stale", "won", "leaked"}
    /\ counter \in -1 .. MaxCounter /\ running \in BOOLEAN
    /\ pending \in Nat
    /\ drainer \in {"idle", "clear", "check", "start", "count"}
    /\ user \in {"idle", "request", "clear", "counter", "close"}
    /\ closes \in [{"counter", "announce"} -> Nat]
    /\ requests \in [Stages -> Nat]
    /\ task \in [Slots -> Task]

\* The types, and this: the running flag never outlives its owner, which is a
\* delayed attempt, a retry, or a thread that is about to set it for an attempt
\* or to take it away.  A flag left behind would refuse every later attempt
\* (hub_connections.go:888).
AttemptInv ==
    /\ TypeOK
    /\ running => \/ \E s \in Slots : task[s].pc \in {"wait", "cleared"}
                  \/ retry # 0
                  \/ drainer \in {"clear", "count"}
                  \/ user = "clear"

\* A trusted remote that can be seen gets connected, however many dials fail and
\* connections close, with three exceptions the code leaves: a retry was called,
\* an unregistration met an attempt under way or a close took the counter from
\* under a waiting one (orphaned); or since the last connection an attempt was
\* turned away, which counts as success and looks for nothing again (turnedAway):
\* by an attempt whose own connection was already gone, or by a reservation,
\* which in the worst case nobody releases any more (hub_connections.go:394-408,
\* hub_connections.go:941, hub.go:703).
Reconnects == (trusted /\ ~Connected) ~> (Connected \/ ~trusted \/ orphaned \/ turnedAway)
===============================================================================
