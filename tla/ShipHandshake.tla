---------------------------- MODULE ShipHandshake ----------------------------
(***************************************************************************)
(* The SHIP handshake of ship/handshake.go and ship/hs_*.go, run by the    *)
(* endpoints in Local over one websocket link.  When both roles are local  *)
(* the module is a session between two instances of this code; when only   *)
(* one is, the other end is a foreign peer that may send any message.      *)
(*                                                                         *)
(* An endpoint is a record, and the handlers are operators that map the    *)
(* record before a call to the record after it, in the order in which the  *)
(* code changes it.  Four threads call them: Run, the websocket reader,    *)
(* the handshake timer and the user (the hub).  handleState first reads    *)
(* the state and then runs the handler of the state it read, so every      *)
(* thread samples the state in one step and acts on the sample in a later  *)
(* one.                                                                    *)
(***************************************************************************)
EXTENDS Naturals, Sequences, FiniteSets

CONSTANTS
    Sessions,         \* the sets of roles this code may play in a session
    RequireApproval,  \* the local endpoints created with requirePairingApproval
    Scenarios,        \* what may happen in a session: sets of Disturbances
    WireCap,          \* timers do not expire while this many messages are unread
    BufferLimit,      \* maxBufferedSpineMessages
    MaxData           \* SPINE payloads an endpoint sends

ASSUME SessionAssumption == Sessions \subseteq (SUBSET {"client", "server"}) \ {{}}
ASSUME ApprovalAssumption == RequireApproval \subseteq {"client"}
\* What the hub may do with a connection; timers that expire, a link that
\* breaks, a SetupRemoteDevice that yields no reader.
Disturbances == {"approve", "abort", "close", "timeout", "link", "setup"}
ASSUME ScenarioAssumption == Scenarios \subseteq SUBSET Disturbances
ASSUME BoundAssumption == {WireCap, BufferLimit} \subseteq Nat \ {0} /\ MaxData \in Nat

VARIABLES
    ep,     \* the local endpoints
    wire,   \* wire[r]: the messages on their way to role r, oldest first
    link    \* "up" until either end or the network breaks it

vars == <<ep, wire, link>>

Roles == {"client", "server"}
Local == DOMAIN ep
Peer(r) == IF r = "client" THEN "server" ELSE "client"
------------------------------------------------------------------------------
(***************************************************************************)
(* Messages.  A waiting time is told apart only by the comparisons of      *)
(* hs_hello.go: absent, below T_hello_prolong_min, below                   *)
(* T_hello_prolong_thr_inc, or at least that.                              *)
(***************************************************************************)
Waiting == {"absent", "tiny", "short", "long"}
Prolongation == {"absent", "true", "false"}

Hello(phase, w, p) == [phase |-> phase, waiting |-> w, prolong |-> p]
Ready == Hello("ready", "long", "absent")
Pending == Hello("pending", "long", "absent")
ProlongationRequest == Hello("pending", "absent", "true")
Aborted == Hello("aborted", "absent", "absent")

HelloMessages == {Hello("ready", w, "absent") : w \in Waiting}
                 \cup {Hello("pending", w, p) : w \in Waiting, p \in Prolongation}
                 \cup {Aborted}

Control(k) == [phase |-> k, waiting |-> "absent", prolong |-> "absent"]
ControlKinds ==
    {"init", "announceMax", "select", "selectUnsupported", "protocolError",
     "pinNone", "pinOk", "pinRequiredBusy", "pinRequiredOk",
     "pinOptionalBusy", "pinOptionalOk", "pinMalformed", "pinError",
     "pinInput", "accessMethodsRequest", "accessMethods",
     "accessMethodsBadId", "announce", "confirm", "datagram", "garbage"}

Messages == HelloMessages \cup {Control(k) : k \in ControlKinds}

\* What a handler is called with when no message arrived.
NoMessage == Control("nil")
Timeout == Control("timeout")
EOF == Control("eof")

\* A message of a foreign peer that nobody has looked at yet.
Anything == Control("anything")
Content(m) == IF m = Anything THEN Messages ELSE {m}

States ==
    {"InitStart", "ClientSend", "ClientWait", "ClientEvaluate", "ServerWait",
     "ServerEvaluate", "Hello", "ReadyInit", "ReadyListen", "PendingInit",
     "PendingListen", "HelloOk", "Abort", "AbortDone", "RemoteAbortDone",
     "Rejected", "ServerInit", "ClientInit", "ServerListenProposal",
     "ServerListenConfirm", "ClientListenChoice", "ClientOk", "ServerOk",
     "CheckInit", "CheckOk", "AskInit", "AskProcess", "AskRestricted",
     "AccessMethodsRequest", "Approved", "Complete", "Error"}

TimerTypes == {"WaitForReady", "SendProlongationRequest", "ProlongRequestReply"}

\* A thread that is not inside a handler.
Idle == [msg |-> NoMessage, seen |-> "idle"]
------------------------------------------------------------------------------
(***************************************************************************)
(* Endpoint records.                                                       *)
(***************************************************************************)
NewConnection(r, paired, may) ==
    [role |-> r, may |-> may,
     state |-> "InitStart",
     timer |-> FALSE,             \* handshakeTimerRunning
     timerType |-> "WaitForReady",
     closing |-> FALSE,           \* shutdownOnce claimed
     finish |-> "none",           \* what is left of closeConnection
     delayed |-> FALSE,           \* the one-second close of an abort
     sock |-> "open",             \* the local websocket
     reported |-> 0,              \* calls of HandleConnectionClosed
     trusted |-> paired,          \* the hub's trust or auto accept
     consent |-> paired \/ r = "client",   \* history: somebody agreed
     requested |-> FALSE,         \* pairingApprovalRequested
     setup |-> FALSE,             \* spineSetupStarted
     reader |-> FALSE,            \* dataReader installed
     buffered |-> 0,
     delivered |-> FALSE,         \* history: SPINE data reached the application
     sent |-> 0,                  \* SPINE payloads sent
     pinSent |-> FALSE,
     pinWrites |-> 0,             \* history: PINs put on the wire
     run |-> Idle, read |-> Idle, expiry |-> Idle, user |-> Idle,
     started |-> "no",            \* progress of Run
     writeError |-> FALSE,        \* result of the write in progress
     out |-> <<>>]

StopTimer(c) == [c EXCEPT !.timer = FALSE]

\* Mutant: arms the timer of a closing connection.
StartTimerAlways(c, type) == [c EXCEPT !.timer = TRUE, !.timerType = type]

\* setHandshakeTimer stops the old generation and refuses a closing one.
StartTimer(c, type) ==
    IF c.closing THEN StopTimer(c)
    ELSE [c EXCEPT !.timer = TRUE, !.timerType = type]

\* The timer side effects of setState.
TimerFor(c, s) ==
    CASE s \in {"ReadyInit", "PendingInit", "ClientListenChoice", "AskInit"} ->
            StartTimer(c, "WaitForReady")
      [] s = "AskProcess" /\ (c.pinSent \/ c.state # "AskProcess") ->
            StartTimer(c, "WaitForReady")
      [] s \in {"HelloOk", "Abort", "AbortDone", "RemoteAbortDone", "Rejected",
                "ClientOk", "CheckOk", "AskRestricted"} ->
            StopTimer(c)
      [] OTHER -> c

\* The hub trusts an inbound peer as soon as HelloOk is reported.
Report(c, s) ==
    IF s = "HelloOk" /\ c.role = "server" THEN [c EXCEPT !.trusted = TRUE] ELSE c

SetState(c, s) ==
    IF c.closing THEN c
    ELSE Report([TimerFor(c, s) EXCEPT !.state = s], s)

\* CloseConnection: the first caller wins; the rest of the close is an effect
\* that runs as FinishClose.
CloseConnection(c, safe) ==
    IF c.closing THEN c
    ELSE [StopTimer(c) EXCEPT
            !.closing = TRUE,
            !.buffered = 0,
            !.finish = IF safe /\ c.state = "Complete" THEN "announce" ELSE "plain"]

EndWithError(c) ==
    IF c.closing THEN StopTimer(c)
    ELSE CloseConnection(SetState(StopTimer(c), "Error"), TRUE)

\* A closing connection refuses the write, a websocket known to be closed closes
\* the connection, and one that closes under the write makes it fail.
Write(c, m) ==
    CASE c.closing -> c
      [] ~c.closing /\ c.sock = "closed" -> CloseConnection(c, FALSE)
      [] ~c.closing /\ c.sock = "breaking" ->
            [c EXCEPT !.sock = "closed", !.writeError = TRUE]
      [] OTHER -> [c EXCEPT !.out = Append(@, m)]

NoError(c) == [c EXCEPT !.writeError = FALSE]

\* Most callers end the handshake when the write fails; once the connection is
\* closing, what follows the call changes nothing.
Send(c, m) ==
    LET w == Write(c, m)
    IN IF w.writeError THEN EndWithError(NoError(w)) ELSE w

\* Mutant: the delayed close is never scheduled.
NeverCloseSoon(c) == c

\* States AbortDone and RemoteAbortDone close one second later.
CloseSoon(c) == IF c.closing THEN c ELSE [c EXCEPT !.delayed = TRUE]

HelloAbort(c) ==
    CloseSoon(SetState(Send(StopTimer(SetState(c, "Abort")), Aborted), "AbortDone"))

RemoteAbort(c) == CloseSoon(SetState(c, "RemoteAbortDone"))
------------------------------------------------------------------------------
(***************************************************************************)
(* Access methods and approval.                                            *)
(***************************************************************************)
\* approveHandshake: SetupRemoteDevice yields no reader when ok is false.
ApproveHandshake(c, ok) ==
    IF c.closing \/ c.setup \/ (c.role \in RequireApproval /\ ~c.requested) THEN c
    ELSE IF ~ok THEN CloseConnection([c EXCEPT !.setup = TRUE], FALSE)
    ELSE [StopTimer(c) EXCEPT
            !.setup = TRUE, !.state = "Complete", !.reader = TRUE,
            !.delivered = @ \/ c.buffered > 0, !.buffered = 0]

AccessMethodsRequest(c, m, ok) ==
    CASE m.phase = "accessMethodsRequest" -> Send(c, Control("accessMethods"))
      [] m.phase = "accessMethods" ->
            IF c.closing THEN StopTimer(c)
            ELSE ApproveHandshake(SetState(StopTimer(c), "Approved"), ok)
      [] OTHER -> EndWithError(c)

\* Mutant: waits for the access methods without a timer.
AccessMethodsUntimed(c) ==
    SetState(Send(c, Control("accessMethodsRequest")), "AccessMethodsRequest")

AccessMethodsInit(c) ==
    SetState(StartTimer(Send(c, Control("accessMethodsRequest")), "WaitForReady"),
             "AccessMethodsRequest")
------------------------------------------------------------------------------
(***************************************************************************)
(* PIN verification.                                                       *)
(***************************************************************************)
PinInit(c) == SetState(Send(SetState(c, "CheckInit"), Control("pinNone")), "AskInit")

PinOk(c) == AccessMethodsInit(SetState(c, "CheckOk"))

\* A request for the PIN leaves the reader inside the provider's callback
\* (action ProvidePin) unless the PIN was sent before.
PinRequest(c, m) ==
    LET asked == SetState(c, "AskProcess")
    IN IF c.pinSent \/ c.closing THEN asked
       ELSE [asked EXCEPT !.read = [msg |-> m, seen |-> "provider"]]

PinCheckListen(c, m) ==
    CASE m.phase \in {"pinNone", "pinOk"} -> PinOk(c)
      [] m.phase \in {"pinRequiredBusy", "pinOptionalBusy"} -> SetState(c, "AskProcess")
      [] m.phase \in {"pinRequiredOk", "pinOptionalOk"} -> PinRequest(c, m)
      [] OTHER -> EndWithError(c)

\* Mutant: does not remember that the PIN was sent.
PinForgotten(c, m, outcome) ==
    IF outcome = "pin" /\ c.sock = "open"
    THEN [c EXCEPT !.pinWrites = @ + 1, !.out = Append(@, Control("pinInput"))]
    ELSE EndWithError(c)

\* What the provider did: nothing, submit a usable PIN that was written, or fail.
PinProvided(c, m, outcome) ==
    CASE outcome = "pin" /\ ~c.closing /\ c.sock = "open" ->
            LET s == [c EXCEPT !.pinSent = TRUE, !.pinWrites = @ + 1,
                               !.out = Append(@, Control("pinInput"))]
            IN IF s.state = "AskProcess" THEN StartTimer(s, "WaitForReady") ELSE s
      [] outcome = "none" /\ m.phase = "pinOptionalOk" ->
            IF c.closing THEN c ELSE AccessMethodsInit(SetState(c, "AskRestricted"))
      [] OTHER -> EndWithError(c)
------------------------------------------------------------------------------
(***************************************************************************)
(* Protocol handshake.                                                     *)
(***************************************************************************)
AbortProtocol(c) ==
    IF c.closing THEN StopTimer(c)
    ELSE CloseConnection(
            SetState(NoError(Write(StopTimer(c), Control("protocolError"))), "Error"),
            FALSE)

ServerListenProposal(c, m) ==
    IF m.phase # "announceMax" THEN EndWithError(c)
    ELSE SetState(StartTimer(Send(StopTimer(c), Control("select")), "WaitForReady"),
                  "ServerListenConfirm")

ServerListenConfirm(c, m) ==
    IF m.phase \notin {"select", "selectUnsupported"} THEN AbortProtocol(c)
    ELSE PinInit(SetState(StopTimer(c), "ServerOk"))

ClientListenChoice(c, m) ==
    IF m.phase # "select" THEN AbortProtocol(StopTimer(c))
    ELSE PinInit(SetState(Send(StopTimer(c), Control("select")), "ClientOk"))

ProtocolInit(c) ==
    IF c.role = "server"
    THEN SetState(StartTimer(SetState(c, "ServerInit"), "WaitForReady"),
                  "ServerListenProposal")
    ELSE SetState(Send(SetState(c, "ClientInit"), Control("announceMax")),
                  "ClientListenChoice")
------------------------------------------------------------------------------
(***************************************************************************)
(* Hello phase.  allowed is the answer of AllowWaitingForTrust.            *)
(***************************************************************************)
HelloOk(c) == ProtocolInit(SetState(c, "HelloOk"))

ReadyInit(c) ==
    LET w == Write(SetState(c, "ReadyInit"), Ready)
    IN IF w.writeError THEN HelloAbort(NoError(w)) ELSE SetState(w, "ReadyListen")

PendingInit(c, allowed) ==
    LET p == SetState(Send(SetState(c, "PendingInit"), Pending), "PendingListen")
    IN IF allowed THEN p ELSE HelloAbort(p)

\* Mutant: sends ready without looking at the trust.
HelloWithoutTrust(c, allowed) == ReadyInit(SetState(c, "Hello"))

HelloStart(c, allowed) ==
    IF c.trusted \/ c.role = "client"
    THEN ReadyInit(SetState(c, "Hello"))
    ELSE PendingInit(SetState(c, "Hello"), allowed)

ReadyListen(c, m, allowed) ==
    CASE m.phase = "ready" -> HelloOk(c)
      [] m.phase = "pending" /\ m.prolong # "true" -> c
      [] m.phase = "pending" /\ m.prolong = "true" ->
            Send(IF allowed THEN StartTimer(c, "WaitForReady") ELSE c, Ready)
      [] m.phase = "aborted" -> RemoteAbort(c)
      [] OTHER -> HelloAbort(c)

\* A long enough waiting time arms the timer that asks for prolongation.
PendingListen(c, m, allowed) ==
    CASE m = Timeout ->
            IF ~allowed /\ c.timerType # "SendProlongationRequest" THEN HelloAbort(c)
            ELSE StartTimer(Send(c, ProlongationRequest), "ProlongRequestReply")
      [] m.phase = "ready" /\ m.waiting = "long" ->
            StartTimer(StopTimer(c), "SendProlongationRequest")
      [] m.phase = "pending" /\ m.prolong = "absent" /\ m.waiting = "long" ->
            StartTimer(StopTimer(c), "SendProlongationRequest")
      [] m.phase = "pending" /\ m.prolong = "absent" /\ m.waiting = "short" ->
            StopTimer(c)
      [] m.phase = "pending" /\ m.prolong = "true" /\ m.waiting = "absent" ->
            Send(c, Pending)
      [] m.phase = "aborted" -> RemoteAbort(c)
      [] OTHER -> HelloAbort(c)
------------------------------------------------------------------------------
(***************************************************************************)
(* Connection mode initialisation.  The message that reaches a connection  *)
(* in InitStart is not looked at, and no message reads as an init message. *)
(***************************************************************************)
InitStart(c) ==
    IF c.role = "client"
    THEN StartTimer(SetState(Send(SetState(c, "ClientSend"), Control("init")),
                             "ClientWait"), "WaitForReady")
    ELSE StartTimer(SetState(c, "ServerWait"), "WaitForReady")

IsInit(m) == m.phase \in {"init", "nil"}

ServerWait(c, m, allowed) ==
    IF ~IsInit(m) THEN EndWithError(SetState(c, "ServerEvaluate"))
    ELSE HelloStart(Send(SetState(c, "ServerEvaluate"), Control("init")), allowed)

ClientWait(c, m, allowed) ==
    IF ~IsInit(m) THEN EndWithError(SetState(c, "ClientEvaluate"))
    ELSE HelloStart(SetState(c, "ClientEvaluate"), allowed)
------------------------------------------------------------------------------
(***************************************************************************)
(* handleState: the handler of the sampled state s.                        *)
(***************************************************************************)
HandleState(c, s, m, allowed, ok) ==
    CASE s = "InitStart" -> InitStart(c)
      [] s \in {"ClientWait", "ServerWait"} /\ m = Timeout -> EndWithError(c)
      [] s = "ClientWait" /\ m # Timeout -> ClientWait(c, m, allowed)
      [] s = "ServerWait" /\ m # Timeout -> ServerWait(c, m, allowed)
      [] s = "ReadyListen" -> ReadyListen(c, m, allowed)
      [] s = "PendingListen" -> PendingListen(c, m, allowed)
      [] s \in {"AbortDone", "RemoteAbortDone"} -> CloseSoon(c)
      [] s = "ServerListenProposal" -> ServerListenProposal(c, m)
      [] s = "ServerListenConfirm" -> ServerListenConfirm(c, m)
      [] s = "ClientListenChoice" -> ClientListenChoice(c, m)
      [] s \in {"AskInit", "AskProcess"} -> PinCheckListen(c, m)
      [] s = "AccessMethodsRequest" -> AccessMethodsRequest(c, m, ok)
      [] OTHER -> c

\* What the hub may answer in state s: whether to wait for trust, and whether
\* SetupRemoteDevice yields a reader.
Answers(s) ==
    IF s \in {"ClientWait", "ServerWait", "ReadyListen", "PendingListen"}
    THEN BOOLEAN ELSE {TRUE}
Setups(c) == IF "setup" \in c.may THEN BOOLEAN ELSE {TRUE}

\* handleShipMessage intercepts the termination messages of a closing peer.
HandleShipMessage(c, s, m, allowed, ok) ==
    CASE m.phase = "announce" ->
            CloseConnection(NoError(Write(c, Control("confirm"))), FALSE)
      [] m.phase = "confirm" -> CloseConnection(c, FALSE)
      [] OTHER -> HandleState(c, s, m, allowed, ok)

\* Mutant: a payload that meets the close is delivered all the same.
DatagramWhileClosing(c) ==
    IF c.reader THEN [c EXCEPT !.delivered = TRUE]
    ELSE IF c.closing THEN c
    ELSE IF (c.role \in RequireApproval /\ ~c.setup) \/ c.buffered >= BufferLimit
    THEN CloseConnection(c, FALSE)
    ELSE [c EXCEPT !.buffered = @ + 1]

\* routeOrBufferSpinePayload and the dispatch of one SPINE payload.
HandleDatagram(c) ==
    CASE c.closing -> c
      [] ~c.closing /\ c.reader -> [c EXCEPT !.delivered = TRUE]
      [] ~c.closing /\ ~c.reader /\ (\/ c.role \in RequireApproval /\ ~c.setup
                                     \/ c.buffered >= BufferLimit) ->
            CloseConnection(c, FALSE)
      [] OTHER -> [c EXCEPT !.buffered = @ + 1]

\* Mutant: only sets the state.
ErrorWithoutClose(c, s) == SetState(c, "Error")

\* ReportConnectionError: the websocket broke while s was the state.  (That the error
\* is reported once more after the close is in PairingGate.)
ConnectionError(c, s) ==
    CASE c.closing -> c
      [] ~c.closing /\ s = "ReadyListen" ->
            CloseConnection(SetState(c, "Rejected"), FALSE)
      [] ~c.closing /\ s \in {"RemoteAbortDone", "Abort", "AbortDone"} ->
            CloseConnection(c, FALSE)
      [] OTHER -> CloseConnection(SetState(c, "Error"), FALSE)
------------------------------------------------------------------------------
(***************************************************************************)
(* Steps.  Update installs the record a handler returns and puts what it   *)
(* sent on the wire; a foreign peer's input is not kept.                   *)
(*                                                                         *)
(* A reader stuck in a failed write of the PIN holds shipWriteMux, so the  *)
(* call of another thread that would write or claim the close does not     *)
(* return either.  (The websocket is closed then, so a write is a claim.)  *)
(* What such a call changes before it waits is left out.                   *)
(***************************************************************************)
Stuck(c) == c.read.seen = "stuck"

Update(r, c) ==
    /\ Stuck(ep[r]) => ~c.closing
    /\ ep' = [ep EXCEPT ![r] = [c EXCEPT !.out = <<>>]]
    /\ wire' = [wire EXCEPT ![Peer(r)] =
                    IF Peer(r) \in Local /\ link = "up" THEN @ \o c.out ELSE @]
    /\ UNCHANGED link

\* The link goes down and takes any suffix of the unread messages with it.
BreakLink ==
    /\ link' = "down"
    /\ IF link = "down" THEN UNCHANGED wire
       ELSE \E k \in 0..Len(wire["client"]), l \in 0..Len(wire["server"]) :
              wire' = [client |-> SubSeq(wire["client"], 1, k),
                       server |-> SubSeq(wire["server"], 1, l)]

Init ==
    /\ \E session \in Sessions, paired \in BOOLEAN, may \in Scenarios :
          ep = [r \in session |-> NewConnection(r, paired, may)]
    /\ wire = [r \in Roles |-> <<>>]
    /\ link = "up"

\* Run: start the websocket pumps ...
RunInit(r) ==
    /\ ep[r].started = "no" /\ ~ep[r].closing
    /\ Update(r, [ep[r] EXCEPT !.started = "pumps"])

\* ... sample the state ...
RunSample(r) ==
    /\ ep[r].started = "pumps"
    /\ Update(r, [ep[r] EXCEPT !.started = "yes",
                    !.run = IF ep[r].closing THEN Idle
                            ELSE [msg |-> NoMessage, seen |-> ep[r].state]])

\* ... and handle it without a message.
RunAct(r) ==
    /\ ep[r].run # Idle
    /\ \E allowed \in Answers(ep[r].run.seen), ok \in Setups(ep[r]) :
          Update(r, HandleState([ep[r] EXCEPT !.run = Idle],
                                ep[r].run.seen, NoMessage, allowed, ok))

\* The read pump takes the oldest message and samples the state.
ReadSample(r) ==
    /\ ep[r].started # "no" /\ ep[r].sock = "open" /\ ep[r].read = Idle
    /\ wire[r] # <<>>
    /\ ep' = [ep EXCEPT ![r].read = [msg |-> Head(wire[r]), seen |-> ep[r].state]]
    /\ wire' = [wire EXCEPT ![r] = Tail(@)]
    /\ UNCHANGED link

\* The read pump sees the end of the link and closes the websocket, perhaps
\* under another thread's write, ...
ReadEOF(r) ==
    /\ ep[r].started # "no" /\ ep[r].sock = "open" /\ ep[r].read = Idle
    /\ wire[r] = <<>> /\ link = "down"
    /\ Update(r, [ep[r] EXCEPT !.sock = "breaking",
                    !.read = [msg |-> EOF, seen |-> "broken"]])

\* ... and reports the error, which samples the state.
ErrorSample(r) ==
    /\ ep[r].read.seen = "broken"
    /\ Update(r, [ep[r] EXCEPT !.sock = "closed", !.read.seen = ep[r].state])

Received(c, seen, m, allowed, ok) ==
    CASE m = EOF -> ConnectionError(c, seen)
      [] m.phase = "datagram" -> HandleDatagram(c)
      [] OTHER -> HandleShipMessage(c, seen, m, allowed, ok)

ReadAct(r) ==
    /\ ep[r].read.seen \in States
    /\ \E m \in Content(ep[r].read.msg),
          allowed \in Answers(ep[r].read.seen), ok \in Setups(ep[r]) :
          Update(r, Received([ep[r] EXCEPT !.read = Idle],
                             ep[r].read.seen, m, allowed, ok))

\* The PIN provider returns to the reader that waits inside its handler.
ProvidePin(r) ==
    /\ ep[r].read.seen = "provider"
    /\ \E outcome \in {"pin", "none", "failed"} :
          Update(r, PinProvided([ep[r] EXCEPT !.read = Idle],
                                ep[r].read.msg, outcome))

\* The write of the PIN fails: the websocket closes and reports it, and the close
\* of the report waits for shipWriteMux, which the reader itself holds.
PinWriteFails(r) ==
    /\ ep[r].read.seen = "provider" /\ ~ep[r].closing
    /\ ep' = [ep EXCEPT ![r] = [SetState(ep[r], "Error") EXCEPT
                                  !.pinSent = TRUE, !.sock = "closed", !.read.seen = "stuck"]]
    /\ BreakLink

\* A timer generation expires: from here on it cannot be stopped.
TimerExpire(r) ==
    /\ "timeout" \in ep[r].may
    /\ ep[r].timer /\ ep[r].expiry = Idle
    /\ \A q \in Roles : Len(wire[q]) < WireCap
    /\ Update(r, [StopTimer(ep[r]) EXCEPT !.expiry = [msg |-> Timeout, seen |-> "fired"]])

TimerSample(r) ==
    /\ ep[r].expiry.seen = "fired"
    /\ Update(r, [ep[r] EXCEPT !.expiry =
                    IF ep[r].closing THEN Idle
                    ELSE [msg |-> Timeout, seen |-> ep[r].state]])

TimerAct(r) ==
    /\ ep[r].expiry.seen \in States
    /\ \E allowed \in Answers(ep[r].expiry.seen) :
          Update(r, HandleState([ep[r] EXCEPT !.expiry = Idle],
                                ep[r].expiry.seen, Timeout, allowed, TRUE))

\* RegisterRemoteSKI: trust the peer and call ApprovePendingHandshake.
ApproveRequired(c, ok) ==
    IF c.closing \/ c.setup THEN c
    ELSE IF c.state = "Approved" THEN ApproveHandshake([c EXCEPT !.requested = TRUE], ok)
    ELSE [c EXCEPT !.requested = TRUE]

Approve(r) ==
    /\ "approve" \in ep[r].may /\ ep[r].user = Idle
    /\ \E ok \in Setups(ep[r]) :
          LET c == [ep[r] EXCEPT !.trusted = TRUE, !.consent = TRUE]
             IN Update(r,
                  CASE r \in RequireApproval -> ApproveRequired(c, ok)
                    [] r \notin RequireApproval /\ c.state = "PendingListen" ->
                         [c EXCEPT !.user = [msg |-> NoMessage, seen |-> "approve"]]
                    [] OTHER -> c)

\* The rest of ApprovePendingHandshake, on the state it sampled.
ApproveAct(r) ==
    /\ ep[r].user.seen = "approve"
    /\ Update(r, HelloOk(ReadyInit(StopTimer([ep[r] EXCEPT !.user = Idle]))))

\* AbortPendingHandshake.
AbortPending(r) ==
    /\ "abort" \in ep[r].may /\ ep[r].user = Idle
    /\ Update(r, CASE ep[r].state = "Approved" -> CloseConnection(ep[r], FALSE)
                   [] ep[r].state \in {"PendingListen", "ReadyListen"} ->
                        [ep[r] EXCEPT !.user = [msg |-> NoMessage, seen |-> "abort"]]
                   [] OTHER -> ep[r])

AbortAct(r) ==
    /\ ep[r].user.seen = "abort"
    /\ Update(r, HelloAbort(StopTimer([ep[r] EXCEPT !.user = Idle])))

\* The hub closes the connection (disconnect, unregister, replacement,
\* shutdown, cancelled attempt).
UserClose(r) ==
    /\ "close" \in ep[r].may /\ ~ep[r].closing
    /\ \E safe \in BOOLEAN : Update(r, CloseConnection(ep[r], safe))

\* The close one second after an abort.
DelayedClose(r) ==
    /\ ep[r].delayed
    /\ Update(r, CloseConnection([ep[r] EXCEPT !.delayed = FALSE], FALSE))

\* The websocket is closed and the hub is told.
CloseData(r) ==
    /\ ep' = [ep EXCEPT ![r] = [ep[r] EXCEPT !.sock = "closed", !.finish = "done",
                                              !.reported = @ + 1]]
    /\ BreakLink

\* Mutant: the close does not wait for timer callbacks.
NoTimerBarrier(c) == TRUE

\* finishCloseConnection runs once every timer callback has returned.
TimersQuiet(c) == c.expiry = Idle

FinishClose(r) ==
    /\ ep[r].finish \in {"announce", "plain"} /\ TimersQuiet(ep[r])
    /\ IF ep[r].finish = "plain" THEN CloseData(r)
       ELSE Update(r, [ep[r] EXCEPT
              !.finish = "grace",
              !.out = IF ep[r].sock = "open" THEN <<Control("announce")>> ELSE <<>>])

\* Half a second after the termination announcement.
GraceClose(r) == ep[r].finish = "grace" /\ CloseData(r)

\* The SPINE device of a completed connection writes a payload.
SendSpine(r) ==
    /\ ep[r].state = "Complete" /\ ~ep[r].closing /\ ep[r].sent < MaxData
    /\ Update(r, NoError(Write([ep[r] EXCEPT !.sent = @ + 1], Control("datagram"))))

\* The network breaks.
LinkBreaks ==
    /\ \E r \in Local : "link" \in ep[r].may
    /\ link = "up" /\ BreakLink /\ UNCHANGED ep

\* A foreign peer sends anything.  Nothing looks at a message before it is
\* handled, so what it says is chosen there (Content).
ForeignSend(r) ==
    /\ Peer(r) \notin Local /\ link = "up"
    /\ ep[r].started # "no" /\ ep[r].sock = "open" /\ ep[r].read = Idle
    /\ ep' = [ep EXCEPT ![r].read = [msg |-> Anything, seen |-> ep[r].state]]
    /\ UNCHANGED <<wire, link>>

RunThread(r) == RunInit(r) \/ RunSample(r) \/ RunAct(r)
ReadThread(r) ==
    \/ ReadSample(r) \/ ReadEOF(r) \/ ErrorSample(r) \/ ReadAct(r)
    \/ ProvidePin(r) \/ PinWriteFails(r)
TimerThread(r) == TimerSample(r) \/ TimerAct(r)
UserThread(r) == ApproveAct(r) \/ AbortAct(r)
CloseThread(r) == FinishClose(r) \/ GraceClose(r)

Code(r) ==
    \/ RunThread(r) \/ ReadThread(r) \/ TimerThread(r) \/ UserThread(r)
    \/ CloseThread(r) \/ DelayedClose(r)

Environment(r) ==
    \/ TimerExpire(r)
    \/ Approve(r) \/ AbortPending(r) \/ UserClose(r)
    \/ SendSpine(r)
    \/ ForeignSend(r)

Next == (\E r \in Local : Code(r) \/ Environment(r)) \/ LinkBreaks

Spec == Init /\ [][Next]_vars

(***************************************************************************)
(* Fairness.  Every goroutine that can run eventually does; a running      *)
(* timer eventually expires unless it is stopped.  Nothing is assumed of   *)
(* the user, of the network or of a foreign peer.  The weak fairness of    *)
(* the threads that run handlers is written out with the condition that    *)
(* enables them: a handler returns unless the reader is stuck, so a thread *)
(* can step when it is inside one or may enter one.  Of an endpoint whose  *)
(* reader is stuck nothing is assumed.                                     *)
(***************************************************************************)
RunCan(r) ==
    /\ r \in Local /\ ~Stuck(ep[r])
    /\ \/ ep[r].started = "no" /\ ~ep[r].closing
       \/ ep[r].started = "pumps"
       \/ ep[r].run # Idle

ReadCan(r) ==
    /\ r \in Local /\ ~Stuck(ep[r])
    /\ \/ ep[r].read # Idle
       \/ /\ ep[r].started # "no" /\ ep[r].sock = "open"
          /\ wire[r] # <<>> \/ link = "down"

TimerCan(r) == r \in Local /\ ~Stuck(ep[r]) /\ ep[r].expiry # Idle
UserCan(r) == r \in Local /\ ~Stuck(ep[r]) /\ ep[r].user # Idle

Fairness ==
    \A r \in Roles :
        /\ []<>~RunCan(r) \/ []<><<RunThread(r)>>_vars
        /\ []<>~ReadCan(r) \/ []<><<ReadThread(r)>>_vars
        /\ []<>~TimerCan(r) \/ []<><<TimerThread(r)>>_vars
        /\ []<>~UserCan(r) \/ []<><<UserThread(r)>>_vars
        /\ WF_vars(r \in Local /\ TimerExpire(r))
        /\ WF_vars(r \in Local /\ CloseThread(r))
        /\ WF_vars(r \in Local /\ DelayedClose(r))

FairSpec == Spec /\ Fairness
------------------------------------------------------------------------------
(***************************************************************************)
(* Properties.                                                             *)
(***************************************************************************)
Thread == [msg: Messages \cup {NoMessage, Anything, Timeout, EOF},
           seen: States \cup {"idle", "fired", "broken", "provider", "stuck",
                           "approve", "abort"}]

\* Endpoints, wires and the link have their types, and no timer runs on a
\* connection whose close was claimed.
TypeOK ==
    /\ Local \in Sessions
    /\ ep \in [Local -> [role: Roles, may: Scenarios, state: States, timer: BOOLEAN,
                         timerType: TimerTypes, closing: BOOLEAN,
                         finish: {"none", "announce", "plain", "grace", "done"},
                         delayed: BOOLEAN, sock: {"open", "breaking", "closed"}, reported: Nat,
                         trusted: BOOLEAN, consent: BOOLEAN, requested: BOOLEAN,
                         setup: BOOLEAN, reader: BOOLEAN, buffered: 0..BufferLimit,
                         delivered: BOOLEAN, sent: 0..MaxData, pinSent: BOOLEAN,
                         pinWrites: Nat, run: Thread, read: Thread,
                         expiry: Thread, user: Thread,
                         started: {"no", "pumps", "yes"}, writeError: {FALSE}, out: {<<>>}]]
    /\ DOMAIN wire = Roles
    /\ \A r \in Roles : \A i \in DOMAIN wire[r] : wire[r][i] \in Messages
    /\ link \in {"up", "down"}
    /\ \A r \in Local : ep[r].closing => ~ep[r].timer

Agreed(r) == ep[r].consent /\ (r \in RequireApproval => ep[r].requested)

\* A connection completes only when its own user approved it and the user at
\* the other end trusts it, although each end decides on its own and hears of
\* the other only through hello messages.
CompletionNeedsConsent ==
    \A r \in Local : ep[r].state = "Complete" =>
        Agreed(r) /\ (Peer(r) \in Local => ep[Peer(r)].consent)

\* SPINE data reaches the application of neither end before both ends agreed,
\* the client's pairing approval included.
DataNeedsBothApprovals ==
    \A r \in Local : ep[r].delivered => \A q \in Local : Agreed(q)

\* The hub is told once that the connection is closed, after the websocket was:
\* no timer is armed and no timer callback is still running (the barrier
\* stopHandshakeTimerAndWait).
ReportIsLast ==
    \A r \in Local : ep[r].reported > 0 =>
        /\ ep[r].reported = 1 /\ ep[r].finish = "done" /\ ep[r].sock = "closed"
        /\ ~ep[r].timer /\ ep[r].expiry = Idle

ListenStates ==
    {"ClientWait", "ServerWait", "ReadyListen", "PendingListen",
     "ServerListenProposal", "ServerListenConfirm", "ClientListenChoice",
     "AskInit", "AskProcess", "AccessMethodsRequest"}

\* A handshake that waits for its peer always has a timer that will end the
\* wait, or one that has just expired.
WaitIsTimed ==
    \A r \in Local :
        ep[r].state \in ListenStates /\ ~ep[r].closing =>
            ep[r].timer \/ ep[r].expiry # Idle

\* The PIN is put on the wire at most once per connection and never after the
\* connection was claimed for closing.
PinOnce ==
    [][\A r \in Local : ep'[r].pinWrites # ep[r].pinWrites =>
          ep[r].pinWrites = 0 /\ ~ep[r].closing]_ep

\* What has become of an endpoint, for its application.
Phase(c) ==
    CASE c.reported = 0 /\ ~c.closing /\ ~c.reader -> "handshake"
      [] c.reported = 0 /\ ~c.closing /\ c.reader -> "open"
      [] c.reported = 0 /\ c.closing -> "closing"
      [] c.reported = 1 -> "closed"
      [] OTHER -> "reported again"

Session == INSTANCE AgreedSession WITH
    phase <- [r \in Local |-> Phase(ep[r])],
    trusting <- {r \in Local : ep[r].consent},
    agreed <- {r \in Local : Agreed(r)},
    opened <- {r \in Local : ep[r].reader},
    heard <- {r \in Local : ep[r].delivered}

\* The handlers, timeouts, calls of the hub and closes of a session do no more, in
\* whatever order they meet, than AgreedSession allows: no approval comes into
\* effect and no SPINE payload is delivered once a close was claimed, and an end
\* opens once, with the consent of both users.
KeepsAgreement == Session!Spec

\* When one end has closed, the other notices and closes as well.
Ended(r) == r \in Local /\ ep[r].reported > 0
NoHalfOpen == \A r \in Roles : Local = Roles /\ Ended(r) ~> Ended(Peer(r))

\* A handshake does not stay in between for ever: it completes, ends, or
\* waits for a user's decision.
Waits(c) == c.state \in {"PendingListen", "Approved"}
Settles ==
    []<>(\/ \E r \in Local : Waits(ep[r])
         \/ \A r \in Local : ep[r].state = "Complete" \/ ep[r].reported > 0)
==============================================================================
