---------------------------- MODULE HubConnections ----------------------------
(***************************************************************************)
(* How the hub keeps one connection per remote SKI: inbound requests       *)
(* (ServeHTTP), outgoing attempts (connectFoundServiceWithLoggingOptions)  *)
(* for a trusted remote or a selected pairing candidate, the reservation   *)
(* of an inbound pairing, replacement by SKI order, close reports,         *)
(* revocation of attempts, registration and removal of a remote by the     *)
(* user, and shutdown (hub/hub.go, hub_connections.go, hub_pairing.go,     *)
(* hub_shipconnection.go, outgoing_attempt_info_provider.go).              *)
(*                                                                         *)
(* There is one remote SKI.  A connection stands for the request or the    *)
(* attempt, the thread that serves it, its registration and the            *)
(* ShipConnection it makes.  A step is what a thread does under one lock   *)
(* (muxCon or muxAttemptGate), or under several taken together; muxReg is  *)
(* taken to be free outside the one section that releases a lock inside    *)
(* it.                                                                     *)
(***************************************************************************)
EXTENDS Naturals, FiniteSets

CONSTANTS
    Inbound,        \* requests the remote makes
    Dialers,        \* attempts to reach it because it is trusted or queued
    Pairers,        \* attempts for a selected pairing candidate
    Nobody,         \* no connection
    Orders,         \* the SKI orders explored: is the local SKI the higher one?
    MaxSuperseded,  \* maximumSupersededConnectionsPerSKI
    MaxCalls,       \* bound: how many calls the user makes
    AtOnce          \* bound: how many connections a behaviour has

ASSUME ConnectionAssumption ==
    /\ Inbound \cap (Dialers \cup Pairers) = {} /\ Dialers \cap Pairers = {}
    /\ Nobody \notin Inbound \cup Dialers \cup Pairers
    /\ IsFiniteSet(Inbound) /\ IsFiniteSet(Dialers) /\ IsFiniteSet(Pairers)
ASSUME OrderAssumption == Orders \subseteq BOOLEAN
ASSUME BoundAssumption == MaxSuperseded \in Nat /\ MaxCalls \in Nat /\ AtOnce \in Nat

Outbound == Dialers \cup Pairers
Conns == Inbound \cup Outbound

VARIABLES
    localHigher,   \* localService.SKI() > remoteSKI
    connections,   \* connections[ski]
    initiating,    \* connectionsInitiating[ski]
    reservation,   \* inboundPairingReservations[ski]
    superseded,    \* supersededConnections
    shutdown,      \* "claimed": hasShutdown; "done": outboundShutdown as well
    swept,         \* the connections beginShutdown took from the map
    epoch,         \* outboundAuthorities[ski]
    attempts,      \* outboundAttempts[ski]
    bound,         \* the registrations that know their connection
    cancelled,     \* the attempts whose context was cancelled
    authority,     \* authority[c]: the authority c was started with
    candidate,     \* authority of activePairingCandidates[ski], or 0
    trusted,       \* service.Trusted()
    queued,        \* the service's state is ConnectionStateQueued
    hello,         \* inbound connections whose handshake found the remote trusted
    pc,            \* where the thread of each connection is
    victim,        \* victim[c]: the connection c replaced
    life,          \* life[c]: the ShipConnection of c
    doomed,        \* connections CloseConnection was called for
    pairing,       \* inbound requests that came for a queued service
    callback,      \* callback[o]: progress of a callback of attempt o
    blocked,       \* attempts with callbackBlocked
    overtaken,     \* history: attempts replaced in the middle of a call
    removing,      \* attempts revoked under a muxReg that is still held
    cancelling,    \* attempts revoked and about to be cancelled
    retiring,      \* candidate authorities about to be retired
    user,          \* where the user's call is
    budget,        \* the calls the user may still make
    announced      \* history: connections whose end the application was told

con == <<connections, initiating, reservation, superseded>>
stop == <<shutdown, swept>>
gate == <<epoch, attempts, bound, cancelled, authority, candidate>>
service == <<trusted, queued, hello>>
ship == <<victim, life, doomed, pairing, announced>>
calls == <<callback, blocked, overtaken>>
revoke == <<removing, cancelling, retiring>>
caller == <<user, budget>>
vars == <<localHigher, con, stop, gate, service, pc, ship, calls, revoke, caller>>

NoReservation == [owner |-> Nobody, replaced |-> Nobody, won |-> FALSE, authority |-> 0]

\* The user makes the next of at most MaxCalls calls, one at a time.
Call(l) == user = "idle" /\ budget > 0 /\ user' = l /\ budget' = budget - 1
Return == user' = "idle" /\ UNCHANGED budget

Go(c, l) == pc' = [pc EXCEPT ![c] = l]
Registered == {connections} \ {Nobody}
MuxRegFree == removing = {}
HasShutdown == shutdown # "no"

Init ==
    /\ localHigher \in Orders
    /\ connections = Nobody /\ initiating = FALSE
    /\ reservation = NoReservation /\ superseded = {}
    /\ shutdown = "no" /\ swept = {}
    /\ epoch = 1 /\ attempts = {} /\ bound = {} /\ cancelled = {}
    /\ authority = [c \in Conns |-> 0] /\ candidate = 0
    /\ trusted \in BOOLEAN /\ queued = FALSE /\ hello = {}
    /\ \E present \in SUBSET Conns :
          /\ Cardinality(present) = AtOnce
          /\ pc = [c \in Conns |-> IF c \in present THEN "idle" ELSE "done"]
    /\ victim = [c \in Conns |-> Nobody]
    /\ life = [c \in Conns |-> "none"]
    /\ doomed = {} /\ pairing = {}
    /\ callback = [o \in Outbound |-> "idle"] /\ blocked = {} /\ overtaken = {}
    /\ removing = {} /\ cancelling = {} /\ retiring = {}
    /\ user = "idle" /\ budget = MaxCalls /\ announced = {}
------------------------------------------------------------------------------
(***************************************************************************)
(* Registration: what the three register functions have in common.         *)
(***************************************************************************)
\* The registered attempt, if it is calling the application.
InACall == {o \in Outbound : o = connections /\ callback[o] = "calling"}

\* Mutant: forgets to mark the replaced connection.
RegisterUnmarked(c) ==
    /\ connections' = c
    /\ overtaken' = overtaken \cup InACall
    /\ victim' = [victim EXCEPT ![c] = connections]
    /\ life' = [life EXCEPT ![c] = IF c \in Inbound THEN "made" ELSE @]
    /\ Go(c, IF connections = Nobody THEN "run" ELSE "block")
    /\ UNCHANGED superseded

Register(c) ==
    /\ connections' = c
    /\ overtaken' = overtaken \cup InACall
    /\ superseded' = superseded \cup Registered
    /\ victim' = [victim EXCEPT ![c] = connections]
    /\ life' = [life EXCEPT ![c] = IF c \in Inbound THEN "made" ELSE @]
    /\ Go(c, IF connections = Nobody THEN "run" ELSE "block")

Full == connections # Nobody /\ Cardinality(superseded) >= MaxSuperseded

\* blockOutboundAttemptCallbacks looks for the registration of the replaced
\* connection and forbids new callbacks ...
Block(c) ==
    /\ pc[c] = "block"
    /\ blocked' = blocked \cup ({victim[c]} \cap attempts \cap bound)
    /\ Go(c, "drain")
    /\ UNCHANGED <<localHigher, con, stop, gate, service, ship, callback, overtaken,
                   revoke, caller>>

Drained(c) == victim[c] \in blocked => callback[victim[c]] = "idle"

\* ... and waits for those under way; then the replaced connection is closed.
\* A registration that is gone from the table, revoked or released by the close
\* of its connection, is not found: its callbacks are neither blocked nor waited
\* for.
Replace(c) ==
    /\ pc[c] = "drain" /\ Drained(c)
    /\ doomed' = doomed \cup {victim[c]}
    /\ Go(c, "run")
    /\ UNCHANGED <<localHigher, con, stop, gate, service, victim, life, pairing,
                   announced, calls, revoke, caller>>

\* Run.  An inbound pairing first leaves the queue.
Run(c) ==
    /\ pc[c] = "run"
    /\ life' = [life EXCEPT ![c] = IF @ = "made" THEN "running" ELSE @]
    /\ queued' = (queued /\ c \notin pairing)
    /\ Go(c, CASE c \in Inbound -> "done"
               [] c \in Outbound \cap cancelled -> "denied"
               [] OTHER -> "leave")
    /\ UNCHANGED <<localHigher, con, stop, gate, trusted, hello, victim, doomed,
                   pairing, announced, calls, revoke, caller>>
------------------------------------------------------------------------------
(***************************************************************************)
(* Inbound requests: ServeHTTP.                                            *)
(***************************************************************************)
\* The service's state is read without a lock.
Arrive(i) ==
    /\ i \in Inbound /\ pc[i] = "idle"
    /\ Go(i, IF queued THEN "reserve" ELSE "check")
    /\ UNCHANGED <<localHigher, con, stop, gate, service, ship, calls, revoke, caller>>

Reserve(i) ==
    /\ pc[i] = "reserve" /\ MuxRegFree
    /\ IF \/ HasShutdown \/ reservation # NoReservation
          \/ (initiating \/ connections # Nobody) /\ localHigher
       THEN Go(i, "done") /\ UNCHANGED <<reservation, authority, pairing>>
       ELSE /\ reservation' = [owner |-> i, replaced |-> connections,
                               won |-> FALSE, authority |-> candidate]
            /\ authority' = [authority EXCEPT ![i] = candidate]
            /\ pairing' = pairing \cup {i}
            /\ Go(i, "claim")
    /\ UNCHANGED <<localHigher, connections, initiating, superseded, stop, epoch,
                   attempts, bound, cancelled, candidate, service, victim, life,
                   doomed, announced, calls, revoke, caller>>

\* registerReservedInboundPairingConnection.  With a candidate it also fails
\* while an mDNS snapshot is being applied.
RegisterReserved(i) ==
    /\ pc[i] = "claim" /\ MuxRegFree
    /\ \/ /\ ~HasShutdown /\ reservation.authority \in {0, candidate}
          /\ connections = reservation.replaced /\ ~Full
          /\ Register(i)
          /\ reservation' = [reservation EXCEPT !.won = TRUE]
       \/ /\ \/ HasShutdown \/ reservation.authority # 0
             \/ connections # reservation.replaced \/ Full
          /\ Go(i, "abandon")
          /\ UNCHANGED <<connections, superseded, victim, life, overtaken, reservation>>
    /\ UNCHANGED <<localHigher, initiating, stop, gate, service, doomed, pairing,
                   announced, callback, blocked, revoke, caller>>

\* abandonInboundPairingReservation
Abandon(i) ==
    /\ pc[i] = "abandon"
    /\ reservation' = NoReservation
    /\ retiring' = IF reservation.replaced # Nobody /\ connections = reservation.replaced
                   THEN retiring ELSE retiring \cup ({reservation.authority} \ {0})
    /\ Go(i, "done")
    /\ UNCHANGED <<localHigher, connections, initiating, superseded, stop, gate,
                   service, ship, calls, removing, cancelling, caller>>

\* hasInboundPairingReservation
Check(i) ==
    /\ pc[i] = "check"
    /\ Go(i, IF reservation = NoReservation THEN "register" ELSE "done")
    /\ UNCHANGED <<localHigher, con, stop, gate, service, ship, calls, revoke, caller>>

\* Mutant: does not compare the SKIs.
InboundAlways(i) == ~HasShutdown /\ ~Full

InboundAccepted(i) ==
    /\ ~HasShutdown /\ ~Full
    /\ localHigher => ~initiating /\ connections = Nobody

RegisterInbound(i) ==
    /\ pc[i] = "register"
    /\ IF InboundAccepted(i) THEN Register(i)
       ELSE Go(i, "done") /\ UNCHANGED <<connections, superseded, victim, life, overtaken>>
    /\ UNCHANGED <<localHigher, initiating, reservation, stop, gate, service, doomed,
                   pairing, announced, callback, blocked, revoke, caller>>
------------------------------------------------------------------------------
(***************************************************************************)
(* Outgoing attempts.                                                      *)
(***************************************************************************)
\* outboundReconnectAuthority
StartReconnect(d) ==
    /\ d \in Dialers /\ pc[d] = "idle"
    /\ MuxRegFree /\ (trusted \/ queued) /\ shutdown # "done"
    /\ authority' = [authority EXCEPT ![d] = epoch]
    /\ Go(d, "enter")
    /\ UNCHANGED <<localHigher, con, stop, epoch, attempts, bound, cancelled,
                   candidate, service, ship, calls, revoke, caller>>

\* admitPairingCandidate: QueuePairingCandidate and SelectPairingCandidate
Admit ==
    /\ Call("idle") /\ MuxRegFree
    /\ ~trusted /\ candidate = 0
    /\ epoch' = epoch + 1 /\ candidate' = epoch + 1
    /\ queued' = TRUE
    /\ UNCHANGED <<localHigher, con, stop, attempts, bound, cancelled, authority,
                   trusted, hello, pc, ship, calls, revoke>>

\* connectIssued: one attempt for a candidate, which checks that the candidate
\* is still the active one before it goes on.
LaunchCandidate(p) ==
    /\ p \in Pairers /\ pc[p] = "idle" /\ MuxRegFree
    /\ ~trusted /\ candidate # 0 /\ \A q \in Pairers : authority[q] # candidate
    /\ authority' = [authority EXCEPT ![p] = candidate]
    /\ queued' = TRUE
    /\ Go(p, "launched")
    /\ UNCHANGED <<localHigher, con, stop, epoch, attempts, bound, cancelled,
                   candidate, trusted, hello, ship, calls, revoke, caller>>

CandidateActive(p) ==
    /\ pc[p] = "launched" /\ MuxRegFree
    /\ Go(p, IF candidate = authority[p] THEN "enter" ELSE "done")
    /\ UNCHANGED <<localHigher, con, stop, gate, service, ship, calls, revoke, caller>>

\* The caller of a pairing attempt that failed retires the candidate.
Failed(o) == retiring \cup (IF o \in Pairers THEN {authority[o]} ELSE {})

\* Is this the direction a reservation of the same candidate takes over?
HandedOff(o) ==
    /\ o \in Pairers /\ reservation.authority = authority[o]
    /\ reservation.won => connections = reservation.owner

Enter(o) ==
    /\ pc[o] = "enter"
    /\ \/ /\ HasShutdown
          /\ retiring' = Failed(o) /\ Go(o, "done") /\ UNCHANGED initiating
       \/ /\ ~HasShutdown
          /\ connections # Nobody \/ initiating \/ reservation # NoReservation
          /\ retiring' = IF HandedOff(o) THEN retiring ELSE Failed(o)
          /\ Go(o, "done") /\ UNCHANGED initiating
       \/ /\ ~HasShutdown
          /\ connections = Nobody /\ ~initiating /\ reservation = NoReservation
          /\ initiating' = TRUE
          /\ Go(o, "launch") /\ UNCHANGED retiring
    /\ UNCHANGED <<localHigher, connections, reservation, superseded, stop, gate,
                   service, ship, calls, removing, cancelling, caller>>

\* The gate is asked and the attempt registered, unless the authority it needs
\* was rotated meanwhile or the gate refuses.
Launch(o) ==
    /\ pc[o] = "launch"
    /\ \/ /\ shutdown # "done" /\ authority[o] = epoch
          /\ attempts' = attempts \cup {o} /\ cancelled' = cancelled \ {o}
          /\ Go(o, "dial")
       \/ Go(o, "denied") /\ UNCHANGED <<attempts, cancelled>>
    /\ UNCHANGED <<localHigher, con, stop, epoch, bound, authority, candidate,
                   service, ship, calls, revoke, caller>>

\* terminalFailure: releaseOutboundAttemptRegistration
Terminal(o) == attempts' = attempts \ {o} /\ cancelled' = cancelled \cup {o}

\* A certificate of another SKI counts as a failure.  A trusted remote is tried
\* a second time with an empty path.
Dial(o) ==
    /\ pc[o] = "dial"
    /\ \/ o \notin cancelled /\ Go(o, "keep") /\ UNCHANGED <<attempts, cancelled>>
       \/ o \in cancelled /\ Terminal(o) /\ Go(o, "denied")
       \/ o \notin cancelled /\ Terminal(o) /\ Go(o, "failed")
       \/ o \in Dialers \ cancelled /\ Terminal(o) /\ Go(o, "launch")
    /\ UNCHANGED <<localHigher, con, stop, epoch, bound, authority, candidate,
                   service, ship, calls, revoke, caller>>

\* keepThisConnection.  The existing connection is closed before the new one
\* is registered in its place.
Keep(o) ==
    /\ pc[o] = "keep"
    /\ \/ o \in cancelled /\ Terminal(o) /\ Go(o, "denied") /\ UNCHANGED doomed
       \/ /\ o \notin cancelled /\ connections # Nobody /\ ~localHigher
          /\ Terminal(o) /\ Go(o, "failed") /\ UNCHANGED doomed
       \/ /\ o \notin cancelled /\ (connections = Nobody \/ localHigher)
          /\ doomed' = doomed \cup Registered
          /\ Go(o, "bind") /\ UNCHANGED <<attempts, cancelled>>
    /\ UNCHANGED <<localHigher, con, stop, epoch, bound, authority, candidate,
                   service, victim, life, pairing, announced, calls, revoke, caller>>

\* bindOutboundAttemptConnection.  The context may be found cancelled before or
\* after the connection is made.
Bind(o) ==
    /\ pc[o] = "bind"
    /\ \/ /\ o \in attempts \ cancelled
          /\ bound' = bound \cup {o}
          /\ life' = [life EXCEPT ![o] = "made"]
          /\ Go(o, "register") /\ UNCHANGED <<attempts, cancelled>>
       \/ /\ o \notin attempts \ cancelled
          /\ Terminal(o)
          /\ \E l \in {"none", "made"} : life' = [life EXCEPT ![o] = l]
          /\ Go(o, "denied") /\ UNCHANGED bound
    /\ UNCHANGED <<localHigher, con, stop, epoch, authority, candidate, service,
                   victim, doomed, pairing, announced, calls, revoke, caller>>

\* Mutant: does not look at the context of the attempt.
RefusedUnlessShutdown(o) == HasShutdown

Refused(o) == HasShutdown \/ o \in cancelled

\* registerOutgoingConnection.  A connection that gives way is marked
\* superseded itself.
RegisterOutgoing(o) ==
    LET givesWay == IF reservation # NoReservation
                    THEN reservation.authority = authority[o]
                    ELSE connections # Nobody /\ ~localHigher
        accepted == reservation = NoReservation /\ ~givesWay /\ ~Full IN
    /\ pc[o] = "register"
    /\ \/ /\ ~Refused(o) /\ accepted
          /\ Register(o) /\ UNCHANGED doomed
       \/ /\ ~Refused(o) /\ givesWay
          /\ superseded' = superseded \cup {o} /\ doomed' = doomed \cup {o}
          /\ Go(o, "handoff") /\ UNCHANGED <<connections, victim, life, overtaken>>
       \/ /\ Refused(o) \/ ~(accepted \/ givesWay)
          /\ doomed' = doomed \cup {o}
          /\ Go(o, "denied")
          /\ UNCHANGED <<connections, superseded, victim, life, overtaken>>
    /\ UNCHANGED <<localHigher, initiating, reservation, stop, gate, service,
                   pairing, announced, callback, blocked, revoke, caller>>

\* The deferred release.  After an error that is no denial the next address of
\* a trusted remote is tried.
Leave(o) ==
    /\ pc[o] \in {"leave", "handoff", "failed", "denied"}
    /\ initiating' = FALSE
    /\ retiring' = IF pc[o] \in {"failed", "denied"} THEN Failed(o) ELSE retiring
    /\ \/ Go(o, "done")
       \/ pc[o] = "failed" /\ o \in Dialers /\ Go(o, "enter")
    /\ UNCHANGED <<localHigher, connections, reservation, superseded, stop, gate,
                   service, ship, calls, removing, cancelling, caller>>
------------------------------------------------------------------------------
(***************************************************************************)
(* Revocation.  The registrations go under muxAttemptGate, their           *)
(* connections under muxCon with muxReg still held, and the contexts are   *)
(* cancelled last, without a lock.                                         *)
(***************************************************************************)
RevokeAll ==
    /\ attempts' = {}
    /\ removing' = attempts \cap bound
    /\ cancelling' = cancelling \cup attempts

\* Mutant: rotates the authority for a candidate that is no longer active.
RetireAny(a) == MuxRegFree /\ ~trusted

MayRetire(a) == MuxRegFree /\ ~trusted /\ candidate = a

\* retirePairingCandidate
RetirePairingCandidate(a) ==
    /\ a \in retiring
    /\ \/ /\ MayRetire(a)
          /\ epoch' = epoch + 1 /\ candidate' = 0 /\ queued' = FALSE
          /\ RevokeAll
       \/ /\ MuxRegFree /\ ~MayRetire(a)
          /\ UNCHANGED <<epoch, candidate, queued, attempts, removing, cancelling>>
    /\ retiring' = retiring \ {a}
    /\ UNCHANGED <<localHigher, con, stop, bound, cancelled, authority, trusted,
                   hello, pc, ship, calls, caller>>

\* removeOutboundAttemptConnections
RemoveConnections ==
    /\ removing # {}
    /\ connections' = IF connections \in removing THEN Nobody ELSE connections
    /\ removing' = {}
    /\ UNCHANGED <<localHigher, initiating, reservation, superseded, stop, gate,
                   service, pc, ship, calls, cancelling, retiring, caller>>

\* cancelOutboundAttemptRegistrations
Cancel(o) ==
    /\ o \in cancelling /\ MuxRegFree
    /\ cancelled' = cancelled \cup {o} /\ cancelling' = cancelling \ {o}
    /\ UNCHANGED <<localHigher, con, stop, epoch, attempts, bound, authority,
                   candidate, service, pc, ship, calls, removing, retiring, caller>>
------------------------------------------------------------------------------
(***************************************************************************)
(* The user: RegisterRemoteSKI, UnregisterRemoteSKI, CancelPairingWithSKI, *)
(* DisconnectSKI and Shutdown.                                             *)
(***************************************************************************)
RegisterRemoteSKI ==
    /\ Call("register") /\ MuxRegFree /\ ~trusted
    /\ trusted' = TRUE /\ candidate' = 0
    /\ UNCHANGED <<localHigher, con, stop, epoch, attempts, bound, cancelled,
                   authority, queued, hello, pc, ship, calls, revoke>>

\* A connection that waits for trust is approved, or else the remote queued.
ApproveOrQueue ==
    /\ user = "register"
    /\ hello' = hello \cup {i \in Inbound : i = connections /\ life[i] = "running"}
    /\ queued' = (queued \/ connections = Nobody)
    /\ Return
    /\ UNCHANGED <<localHigher, con, stop, gate, trusted, pc, ship, calls, revoke>>

\* revokeOutboundAttempts
RevokeOutboundAttempts(call) ==
    /\ Call(call) /\ MuxRegFree
    /\ trusted' = FALSE /\ queued' = FALSE
    /\ epoch' = epoch + 1 /\ candidate' = 0
    /\ RevokeAll
    /\ UNCHANGED <<localHigher, con, stop, bound, cancelled, authority, hello, pc,
                   ship, calls, retiring>>

\* The connection is closed, or its pending handshake, if any, aborted.  The
\* step waits for the cancellations of a retirement as well, if one is under
\* way: that only delays it.
CloseRevoked ==
    /\ user \in {"unregister", "cancel"} /\ cancelling = {}
    /\ \/ doomed' = doomed \cup Registered
       \/ user = "cancel" /\ UNCHANGED doomed
    /\ Return
    /\ UNCHANGED <<localHigher, con, stop, gate, service, pc, victim, life, pairing,
                   announced, calls, revoke>>

DisconnectSKI ==
    /\ Call("idle") /\ connections # Nobody
    /\ doomed' = doomed \cup {connections}
    /\ UNCHANGED <<localHigher, con, stop, gate, service, pc, victim, life, pairing,
                   announced, calls, revoke>>

\* Mutant: does not keep the connections it takes from the map.
ShutdownForgets == swept' = swept

Sweep == swept' = Registered

\* beginShutdown empties the map ...
BeginShutdown ==
    /\ Call("idle") /\ shutdown = "no" /\ shutdown' = "claimed"
    /\ Sweep /\ connections' = Nobody
    /\ UNCHANGED <<localHigher, initiating, reservation, superseded, gate, service,
                   pc, ship, calls, revoke>>

\* ... and then closes the attempt gate; Shutdown closes what it took.
ShutdownGate ==
    /\ shutdown = "claimed" /\ shutdown' = "done"
    /\ attempts' = {} /\ cancelling' = cancelling \cup attempts
    /\ doomed' = doomed \cup swept
    /\ UNCHANGED <<localHigher, con, swept, epoch, bound, cancelled, authority,
                   candidate, service, pc, victim, life, pairing, announced, calls,
                   removing, retiring, caller>>
------------------------------------------------------------------------------
(***************************************************************************)
(* What the connections report.                                            *)
(***************************************************************************)
\* A connection ends because someone closed it, because its context was
\* cancelled, or, once it runs, by itself.
MayClose(c) ==
    \/ life[c] = "running"
    \/ life[c] = "made" /\ c \in doomed \cup cancelled

\* claimClosedConnectionState
ClaimClosed(c) ==
    /\ life' = [life EXCEPT ![c] = "reported"]
    /\ doomed' = doomed \ {c} /\ hello' = hello \ {c}
    /\ superseded' = superseded \ {c}
    /\ connections' = IF c = connections /\ c \notin superseded THEN Nobody ELSE connections
    /\ reservation' = IF /\ c = connections /\ c \notin superseded
                         /\ reservation.won /\ reservation.owner = c
                      THEN NoReservation ELSE reservation

\* HandleConnectionClosed
CloseInbound(i) ==
    LET claimed == i = connections /\ i \notin superseded IN
    /\ i \in Inbound /\ MayClose(i)
    /\ ClaimClosed(i)
    /\ announced' = announced \cup (IF claimed THEN {i} ELSE {})
    /\ retiring' = IF claimed /\ reservation.won /\ reservation.owner = i /\ ~trusted
                   THEN retiring \cup ({reservation.authority} \ {0}) ELSE retiring
    /\ UNCHANGED <<localHigher, initiating, stop, gate, trusted, queued, pc,
                   victim, pairing, calls, removing, cancelling, caller>>

\* HandleConnectionClosedWithAttempt
CloseOutbound(o) ==
    LET released == o \in attempts \cap bound
        retires == released /\ o \notin superseded /\ candidate = authority[o] /\ ~trusted IN
    /\ o \in Outbound /\ MayClose(o) /\ MuxRegFree
    /\ ClaimClosed(o)
    /\ attempts' = IF released THEN attempts \ {o} ELSE attempts
    /\ cancelled' = IF released THEN cancelled \cup {o} ELSE cancelled
    /\ epoch' = IF retires THEN epoch + 1 ELSE epoch
    /\ candidate' = IF retires THEN 0 ELSE candidate
    /\ queued' = (queued /\ ~retires)
    /\ announced' = IF o \in superseded THEN announced ELSE announced \cup {o}
    /\ UNCHANGED <<localHigher, initiating, stop, bound, authority, trusted, pc,
                   victim, pairing, calls, revoke, caller>>

\* A callback of an attempt (one at a time) is counted, unless callbacks are
\* blocked, ...
BeginCallback(o) ==
    /\ o \in Outbound /\ callback[o] = "idle" /\ life[o] = "running" /\ o \notin blocked
    /\ callback' = [callback EXCEPT ![o] = "begun"]
    /\ UNCHANGED <<localHigher, con, stop, gate, service, pc, ship, blocked, overtaken,
                   revoke, caller>>

\* ... checks that the registration is active, and that the connection is the
\* registered one (outboundAttemptRegistrationOwnsCallbacks), ...
OwnsCallbacks(o) ==
    /\ callback[o] \in {"begun", "active"}
    /\ callback' = [callback EXCEPT ![o] =
           CASE @ = "begun" /\ o \in (attempts \cap bound) \ cancelled -> "active"
             [] @ = "active" /\ o = connections /\ o \notin superseded -> "calling"
             [] OTHER -> "idle"]
    /\ UNCHANGED <<localHigher, con, stop, gate, service, pc, ship, blocked, overtaken,
                   revoke, caller>>

\* ... and calls the hub and the application.  An update of an internal
\* attempt may change the state of a trusted service.
EndCallback(o) ==
    /\ callback[o] = "calling"
    /\ callback' = [callback EXCEPT ![o] = "idle"] /\ overtaken' = overtaken \ {o}
    /\ \/ UNCHANGED queued
       \/ MuxRegFree /\ trusted /\ o \in attempts \ cancelled /\ queued' = FALSE
    /\ UNCHANGED <<localHigher, con, stop, gate, trusted, hello, pc, ship, blocked,
                   revoke, caller>>

\* An inbound handshake asks whether the remote is paired, and later reports
\* that the hello phase ended well: HandleShipHandshakeStateUpdate.  Any other
\* update overwrites the state of the service too; the update of an error comes
\* once more after the close.
HelloStart(i) ==
    /\ i \in Inbound \ hello /\ life[i] = "running" /\ trusted
    /\ hello' = hello \cup {i}
    /\ UNCHANGED <<localHigher, con, stop, gate, trusted, queued, pc, ship, calls,
                   revoke, caller>>

HelloOk(i) ==
    /\ i \in hello /\ life[i] = "running" /\ MuxRegFree
    /\ trusted' = TRUE /\ candidate' = 0 /\ queued' = FALSE
    /\ hello' = hello \ {i}
    /\ UNCHANGED <<localHigher, con, stop, epoch, attempts, bound, cancelled,
                   authority, pc, ship, calls, revoke, caller>>

StateUpdate(i) ==
    /\ i \in Inbound /\ life[i] \in {"running", "reported"}
    /\ queued /\ queued' = FALSE
    /\ UNCHANGED <<localHigher, con, stop, gate, trusted, hello, pc, ship, calls,
                   revoke, caller>>
------------------------------------------------------------------------------
Next ==
    \/ \E i \in Inbound :
          \/ Arrive(i) \/ Reserve(i) \/ RegisterReserved(i) \/ Abandon(i)
          \/ Check(i) \/ RegisterInbound(i)
          \/ CloseInbound(i) \/ HelloStart(i) \/ HelloOk(i) \/ StateUpdate(i)
    \/ \E d \in Dialers : StartReconnect(d)
    \/ \E p \in Pairers : LaunchCandidate(p) \/ CandidateActive(p)
    \/ \E o \in Outbound :
          \/ Enter(o) \/ Launch(o) \/ Dial(o) \/ Keep(o) \/ Bind(o)
          \/ RegisterOutgoing(o) \/ Leave(o) \/ Cancel(o)
          \/ CloseOutbound(o) \/ BeginCallback(o) \/ OwnsCallbacks(o) \/ EndCallback(o)
    \/ \E c \in Conns : Block(c) \/ Replace(c) \/ Run(c)
    \/ \E a \in retiring : RetirePairingCandidate(a)
    \/ Admit \/ RemoveConnections
    \/ RegisterRemoteSKI \/ ApproveOrQueue \/ CloseRevoked \/ DisconnectSKI
    \/ \E call \in {"unregister", "cancel"} : RevokeOutboundAttempts(call)
    \/ BeginShutdown \/ ShutdownGate

Spec == Init /\ [][Next]_vars
------------------------------------------------------------------------------
MaxEpoch == 1 + 2 * MaxCalls

\* Type correctness; a call rotates the authority once and the candidate it
\* selects, if any, once more.
TypeOK ==
    /\ localHigher \in BOOLEAN /\ initiating \in BOOLEAN
    /\ connections \in Conns \cup {Nobody}
    /\ reservation \in [owner : Inbound \cup {Nobody}, replaced : Conns \cup {Nobody},
                        won : BOOLEAN, authority : 0..MaxEpoch]
    /\ superseded \subseteq Conns /\ doomed \subseteq Conns /\ swept \subseteq Conns
    /\ shutdown \in {"no", "claimed", "done"}
    /\ epoch \in 1..(1 + 2 * (MaxCalls - budget)) /\ candidate \in 0..MaxEpoch
    /\ authority \in [Conns -> 0..MaxEpoch] /\ retiring \subseteq 1..MaxEpoch
    /\ attempts \subseteq Outbound /\ bound \subseteq Outbound /\ cancelled \subseteq Outbound
    /\ removing \subseteq Outbound /\ cancelling \subseteq Outbound
    /\ blocked \subseteq Outbound /\ overtaken \subseteq Outbound
    /\ trusted \in BOOLEAN /\ queued \in BOOLEAN /\ hello \subseteq Inbound
    /\ pairing \subseteq Inbound /\ announced \subseteq Conns
    /\ victim \in [Conns -> Conns \cup {Nobody}]
    /\ life \in [Conns -> {"none", "made", "running", "reported"}]
    /\ callback \in [Outbound -> {"idle", "begun", "active", "calling"}]
    /\ budget \in 0..MaxCalls /\ user \in {"idle", "register", "unregister", "cancel"}
    /\ DOMAIN pc = Conns

\* What the tables of the hub say of each other.  The map never keeps a
\* connection whose end was reported: nothing would take it out again, and the
\* remote could not be dialled any more.  Every mark in supersededConnections
\* belongs to a connection that has yet to report its end, which is what removes
\* the mark: the capacity of maximumSupersededConnectionsPerSKI is always given
\* back.  A registered outgoing connection has a registration in force, or is
\* being cancelled: revocation misses none.  No connection is registered after
\* the map was emptied for shutdown.
RegistrySound ==
    /\ connections # Nobody => life[connections] # "reported"
    /\ \A c \in superseded : life[c] # "reported"
    /\ connections \in Outbound => connections \in attempts \cup cancelling \cup cancelled
    /\ HasShutdown => connections = Nobody

\* A connection that is alive and neither registered nor still being set up is
\* one somebody has closed, cancelled or is about to: none is forgotten open.
NoOrphan ==
    \A c \in Conns :
        life[c] \in {"made", "running"} /\ c # connections /\ pc[c] # "register"
            => \/ c \in doomed \cup cancelled \cup cancelling \cup swept
               \/ \E r \in Conns : victim[r] = c /\ pc[r] \in {"block", "drain"}

\* A replaced connection falls silent.  The application never hears its end: it
\* would take the remote for disconnected while the successor serves it.  The
\* callbacks of a replaced attempt are over before its successor runs if its
\* registration was found when they were to be blocked.  If a revocation or its
\* own close had taken the registration away, nobody waits: then the one call
\* that had passed its last check before the replacement may go on beside the
\* successor, but none passes it after the replacement.
ReplacedIsSilent ==
    \A c \in Conns :
        /\ victim[c] \notin announced
        /\ pc[c] \in {"run", "leave", "denied", "done"} /\ victim[c] \in attempts \cup blocked
               => callback[victim[c]] = "idle"
        /\ victim[c] \in Outbound /\ callback[victim[c]] = "calling"
               => victim[c] \in overtaken

\* A registered connection gives way only to one that the side with the higher
\* SKI initiated (README.md, implementation notes).
HigherSKIWins ==
    [][connections # Nobody /\ connections' \notin {connections, Nobody}
         => IF localHigher THEN connections' \in Outbound ELSE connections' \in Inbound]_vars
==============================================================================
