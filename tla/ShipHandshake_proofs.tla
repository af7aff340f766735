------------------------ MODULE ShipHandshake_proofs ------------------------
(***************************************************************************)
(* The safety properties of ShipHandshake, for any sessions, scenarios and *)
(* limits.                                                                 *)
(*                                                                         *)
(* A handler is a composition of a few primitives (the timer, setState,    *)
(* the write, the close, the approval), so it is enough that each of these *)
(* keeps what an endpoint promises.  Stays(b, c, k) says so of a handler   *)
(* that was called on the record b and has come to c; k is what the        *)
(* endpoint may take as known of its peer.                                 *)
(***************************************************************************)
EXTENDS ShipHandshake, TLAPS

\* What this code puts on the wire.
Written ==
    {Ready, Pending, ProlongationRequest, Aborted}
    \cup {Control(k) : k \in {"init", "announceMax", "select", "protocolError", "pinNone",
                              "pinInput", "accessMethodsRequest", "accessMethods",
                              "announce", "confirm", "datagram"}}

Heeded == Messages \cup {NoMessage, Timeout, EOF}

\* An endpoint inside a handler.
Conn ==
    [role: Roles, may: Scenarios, state: States, timer: BOOLEAN,
     timerType: TimerTypes, closing: BOOLEAN,
     finish: {"none", "announce", "plain", "grace", "done"},
     delayed: BOOLEAN, sock: {"open", "breaking", "closed"}, reported: Nat,
     trusted: BOOLEAN, consent: BOOLEAN, requested: BOOLEAN,
     setup: BOOLEAN, reader: BOOLEAN, buffered: 0..BufferLimit,
     delivered: BOOLEAN, sent: 0..MaxData, pinSent: BOOLEAN,
     pinWrites: Nat, run: Thread, read: Thread,
     expiry: Thread, user: Thread,
     started: {"no", "pumps", "yes"}, writeError: BOOLEAN, out: Seq(Written)]

\* The states a client reaches only after it has heard that the server is ready,
\* and the ones an endpoint reaches only with the consent of its user.
Past ==
    {"HelloOk", "ServerInit", "ClientInit", "ServerListenProposal",
     "ServerListenConfirm", "ClientListenChoice", "ClientOk", "ServerOk",
     "CheckInit", "CheckOk", "AskInit", "AskProcess", "AskRestricted",
     "AccessMethodsRequest", "Approved", "Complete"}
Trusting == Past \cup {"ReadyInit", "ReadyListen"}

\* The close is claimed once, and takes its course; the PIN is asked for once.
CloseKept(c) ==
    /\ c.closing => ~c.timer
    /\ c.closing <=> c.finish # "none"
    /\ c.reported = IF c.finish = "done" THEN 1 ELSE 0
    /\ c.finish = "done" => c.sock = "closed"
    /\ c.finish \in {"grace", "done"} => c.expiry = Idle
    /\ c.pinWrites # 0 => c.pinSent
    /\ c.read.seen = "provider" => ~c.pinSent

\* A thread that has sampled a state the consent is needed for.
SeenKept(c, seen, k) ==
    /\ seen \in Trusting \cup {"provider"} => c.consent
    /\ seen \in Past \cup {"provider"} /\ c.role = "client" => "consent" \in k

\* A message tells what the peer has done; only a foreign peer says what this
\* code does not write.
MessageKept(m, k) ==
    /\ m.phase = "ready" => "consent" \in k
    /\ m.phase = "datagram" => "data" \in k
    /\ m \notin Written \cup {NoMessage, Timeout, EOF} => "foreign" \in k

\* No endpoint goes on without the consent of its user and, a client, without
\* having heard of the server's; data is read only with the approval of both.
ConsentKept(c, k) ==
    /\ c.trusted \/ c.role = "client" => c.consent
    /\ c.state = "PendingListen" => c.role = "server"
    /\ SeenKept(c, c.state, k) /\ SeenKept(c, c.run.seen, k)
    /\ SeenKept(c, c.read.seen, k) /\ SeenKept(c, c.expiry.seen, k)
    /\ c.user.seen = "approve" => c.consent /\ c.role = "server"
    /\ MessageKept(c.read.msg, k)
    /\ c.read.msg = Anything => {"consent", "data", "foreign"} \subseteq k
    /\ c.read.seen = "provider" => "foreign" \in k
    /\ c.reader => c.setup /\ c.consent /\ (c.role \in RequireApproval => c.requested)
    /\ c.state = "Complete" \/ c.delivered => c.reader
    /\ c.buffered > 0 \/ c.delivered => "data" \in k
    /\ \A i \in 1 .. Len(c.out) :
          /\ c.out[i].phase = "ready" => c.consent
          /\ c.out[i].phase = "datagram" => c.reader

\* What an endpoint may take as known: its peer's consent, and that its peer has
\* installed the reader.  A foreign peer may say that it has, and anything else.
Known(r) ==
    {x \in {"consent", "data", "foreign"} :
        Peer(r) \in Local =>
            \/ x = "consent" /\ ep[Peer(r)].consent
            \/ x = "data" /\ ep[Peer(r)].reader}

EndInv ==
    /\ Local \in Sessions /\ ep \in [Local -> Conn]
    /\ \A r \in Local :
          /\ ep[r].role = r /\ ep[r].writeError = FALSE /\ ep[r].out = <<>>
          /\ CloseKept(ep[r]) /\ ConsentKept(ep[r], Known(r))

WireInv ==
    /\ wire \in [Roles -> Seq(Written)] /\ link \in {"up", "down"}
    /\ \A r \in Roles : \A i \in 1 .. Len(wire[r]) : MessageKept(wire[r][i], Known(r))

Inv == EndInv /\ WireInv

\* A wait that something will end: the close, or the timer.
Timed(c) == c.closing \/ c.timer
Settled(c) == Timed(c) \/ c.state \notin ListenStates

\* In a session of two instances a wait without a timer has one that expired
\* while the endpoint waited.
Watched(c) == Settled(c) \/ c.expiry.seen \in ListenStates \cup {"fired"}

TimeInv == Local = Roles /\ \A r \in Local : Watched(ep[r])

\* What a call on the record b has come to: an endpoint c that promises what every
\* endpoint promises, and is b where no handler has a say.
Keeps(b, c, k) ==
    /\ c \in Conn /\ CloseKept(c) /\ ConsentKept(c, k)
    /\ c.role = b.role /\ c.consent = b.consent /\ c.expiry = b.expiry
    /\ c.pinSent = b.pinSent /\ c.pinWrites = b.pinWrites
    /\ c.requested = b.requested /\ c.reported = b.reported
    /\ c.reader = b.reader /\ c.delivered = b.delivered
    /\ b.closing => c.closing

Stays(b, c, k) == Keeps(b, c, k) /\ c.writeError = FALSE

\* What it leaves when it returns: it may have installed the reader or delivered
\* data, if the close was not claimed.
Leaves(b, c, k) ==
    /\ c \in Conn /\ CloseKept(c) /\ ConsentKept(c, k) /\ c.writeError = FALSE
    /\ c.role = b.role /\ c.consent = b.consent /\ c.expiry = b.expiry
    /\ c.pinSent = b.pinSent /\ c.pinWrites = b.pinWrites
    /\ c.requested = b.requested /\ c.reported = b.reported
    /\ (b.reader => c.reader) /\ (b.delivered => c.delivered) /\ (b.closing => c.closing)
    /\ c.reader # b.reader => ~c.closing /\ c.state = "Complete"
    /\ c.delivered # b.delivered => ~c.closing

\* The states a call on b may set, and the messages it may write.
MayReach(b, s, k) ==
    /\ s \in States \ {"Complete"}
    /\ s \in Trusting => b.consent
    /\ s \in Past /\ b.role = "client" => "consent" \in k
    /\ s = "PendingListen" => b.role = "server"

MaySend(b, m) ==
    /\ m \in Written
    /\ m.phase = "ready" => b.consent
    /\ m.phase = "datagram" => b.reader

Passed(b, k) == b.consent /\ (b.role = "client" => "consent" \in k)
------------------------------------------------------------------------------
(***************************************************************************)
(* Messages.                                                               *)
(***************************************************************************)
\* What this code writes, a peer can read, and only these are a ready and a
\* datagram.
LEMMA WrittenMessages ==
    /\ Written \subseteq Messages
    /\ Anything \notin Written /\ NoMessage \notin Written
    /\ Timeout \notin Written /\ EOF \notin Written
BY DEF Written, Messages, HelloMessages, ControlKinds, Ready, Pending, ProlongationRequest,
       Aborted, Hello, Control, Waiting, Prolongation, Anything, NoMessage, Timeout, EOF

\* What only a foreign peer says.
LEMMA OwnMessages ==
    ASSUME NEW m \in Written \cup {NoMessage, Timeout, EOF}
    PROVE  /\ m.phase \notin {"pinOk", "pinRequiredBusy", "pinRequiredOk", "pinOptionalBusy",
                             "pinOptionalOk"}
           /\ m.waiting # "short"
BY DEF Written, Ready, Pending, ProlongationRequest, Aborted, Hello, Control, NoMessage,
       Timeout, EOF

\* The messages an endpoint may write whatever happened before.
LEMMA PlainMessages ==
    ASSUME NEW b
    PROVE  /\ MaySend(b, Pending) /\ MaySend(b, ProlongationRequest) /\ MaySend(b, Aborted)
           /\ \A x \in {"init", "announceMax", "select", "protocolError", "pinNone",
                       "pinInput", "accessMethodsRequest", "accessMethods", "announce",
                       "confirm"} : MaySend(b, Control(x))
BY DEF MaySend, Written, Ready, Pending, ProlongationRequest, Aborted, Hello, Control

\* The states an endpoint may reach whatever happened before, ...
LEMMA PlainStates ==
    ASSUME NEW b, NEW k,
           NEW s \in {"ClientSend", "ClientWait", "ClientEvaluate", "ServerWait",
                     "ServerEvaluate", "Hello", "PendingInit", "Abort", "AbortDone",
                     "RemoteAbortDone", "Rejected", "Error"}
    PROVE  MayReach(b, s, k)
BY DEF MayReach, Trusting, Past, States

\* ... when its user agreed, ...
LEMMA ReadyStates ==
    ASSUME NEW b, NEW k, b.consent, NEW s \in {"ReadyInit", "ReadyListen"}
    PROVE  MayReach(b, s, k)
BY DEF MayReach, Trusting, Past, States

\* ... and once it passed the hello phase.
LEMMA PassedStates ==
    ASSUME NEW b, NEW k, Passed(b, k),
           NEW s \in {"HelloOk", "ServerInit", "ClientInit", "ServerListenProposal",
                     "ServerListenConfirm", "ClientListenChoice", "ClientOk", "ServerOk",
                     "CheckInit", "CheckOk", "AskInit", "AskProcess", "AskRestricted",
                     "AccessMethodsRequest", "Approved"}
    PROVE  MayReach(b, s, k)
BY DEF MayReach, Passed, Trusting, Past, States
------------------------------------------------------------------------------
(***************************************************************************)
(* The primitives.                                                         *)
(***************************************************************************)
\* Stopping the timer and arming it.
LEMMA StopTimerKeeps ==
    ASSUME NEW b, NEW c, NEW k, Keeps(b, c, k)
    PROVE  /\ Keeps(b, StopTimer(c), k)
           /\ StopTimer(c).closing = c.closing /\ StopTimer(c).writeError = c.writeError
<1> DEFINE d == StopTimer(c)
<1>1. d \in Conn
  BY DEF Keeps, StopTimer, Conn
<1>2. CloseKept(d)
  BY DEF Keeps, StopTimer, Conn, CloseKept
<1>3. ConsentKept(d, k)
  BY DEF Keeps, StopTimer, Conn, ConsentKept, SeenKept, MessageKept
<1> QED
  BY <1>1, <1>2, <1>3 DEF Keeps, StopTimer, Conn

\* Arming the timer keeps what an endpoint promises.
LEMMA StartTimerKeeps ==
    ASSUME NEW b, NEW c, NEW k, Keeps(b, c, k), NEW type \in TimerTypes
    PROVE  /\ Keeps(b, StartTimer(c, type), k)
           /\ StartTimer(c, type).closing = c.closing
           /\ StartTimer(c, type).writeError = c.writeError
<1> DEFINE d == StartTimer(c, type)
<1>1. CASE c.closing
  BY <1>1, StopTimerKeeps DEF StartTimer
<1>2. CASE ~c.closing
  <2>1. d = [c EXCEPT !.timer = TRUE, !.timerType = type]
    BY <1>2 DEF StartTimer
  <2>2. d \in Conn
    BY <2>1 DEF Keeps, Conn
  <2>3. CloseKept(d)
    BY <1>2, <2>1 DEF Keeps, Conn, CloseKept
  <2>4. ConsentKept(d, k)
    BY <2>1 DEF Keeps, Conn, ConsentKept, SeenKept, MessageKept
  <2> QED
    BY <2>1, <2>2, <2>3, <2>4 DEF Keeps, Conn
<1> QED
  BY <1>1, <1>2

\* setState, with what it does to the timer and what the hub does with HelloOk.
LEMMA SetStateKeeps ==
    ASSUME NEW b, NEW c, NEW k, Keeps(b, c, k), NEW s, MayReach(b, s, k)
    PROVE  /\ Keeps(b, SetState(c, s), k)
           /\ SetState(c, s).closing = c.closing
           /\ SetState(c, s).writeError = c.writeError
<1> DEFINE t == TimerFor(c, s)
           d == [t EXCEPT !.state = s]
<1>1. CASE c.closing
  BY <1>1 DEF SetState
<1>2. CASE ~c.closing
  <2>1. Keeps(b, t, k) /\ t.closing = c.closing /\ t.writeError = c.writeError
    <3>1. "WaitForReady" \in TimerTypes
      BY DEF TimerTypes
    <3>2. t \in {c, StopTimer(c), StartTimer(c, "WaitForReady")}
      BY DEF TimerFor
    <3> QED
      BY <3>1, <3>2, StopTimerKeeps, StartTimerKeeps
  <2> HIDE DEF t
  <2>2. d \in Conn
    BY <2>1 DEF Keeps, Conn, MayReach
  <2>3. CloseKept(d)
    BY <2>1 DEF Keeps, Conn, CloseKept
  <2>4. SeenKept(d, s, k) /\ (s = "PendingListen" => d.role = "server")
    <3>1. d.role = b.role /\ d.consent = b.consent
      BY <2>1 DEF Keeps, Conn
    <3>2. "provider" \notin States
      BY DEF States
    <3> QED
      BY <3>1, <3>2 DEF MayReach, SeenKept
  <2>5. ConsentKept(d, k)
    BY <2>1, <2>4 DEF Keeps, Conn, ConsentKept, SeenKept, MessageKept, MayReach
  <2>6. Keeps(b, d, k) /\ d.closing = c.closing /\ d.writeError = c.writeError
    BY <2>1, <2>2, <2>3, <2>5 DEF Keeps, Conn
  <2>7. CASE ~(s = "HelloOk" /\ d.role = "server")
    <3>1. SetState(c, s) = d
      BY <1>2, <2>7 DEF SetState, Report, t
    <3> QED
      BY <2>6, <3>1
  <2>8. CASE s = "HelloOk" /\ d.role = "server"
    <3>1. SetState(c, s) = [d EXCEPT !.trusted = TRUE]
      BY <1>2, <2>8 DEF SetState, Report, t
    <3>2. d.consent
      BY <2>6, <2>8 DEF Keeps, MayReach, Trusting, Past
    <3> HIDE DEF d
    <3>3. [d EXCEPT !.trusted = TRUE] \in Conn
      BY <2>6 DEF Keeps, Conn
    <3>4. CloseKept([d EXCEPT !.trusted = TRUE])
      BY <2>6 DEF Keeps, Conn, CloseKept
    <3>5. ConsentKept([d EXCEPT !.trusted = TRUE], k)
      BY <2>6, <3>2 DEF Keeps, Conn, ConsentKept, SeenKept, MessageKept
    <3> QED
      BY <2>6, <3>1, <3>3, <3>4, <3>5 DEF Keeps, Conn
  <2> QED
    BY <2>7, <2>8
<1> QED
  BY <1>1, <1>2 DEF Keeps, Conn

\* CloseConnection claims the close.
LEMMA CloseKeeps ==
    ASSUME NEW b, NEW c, NEW k, Keeps(b, c, k), NEW safe
    PROVE  /\ Keeps(b, CloseConnection(c, safe), k)
           /\ CloseConnection(c, safe).closing
           /\ CloseConnection(c, safe).writeError = c.writeError
<1> DEFINE d == CloseConnection(c, safe)
           f == IF safe /\ c.state = "Complete" THEN "announce" ELSE "plain"
<1>1. CASE c.closing
  BY <1>1 DEF CloseConnection
<1>2. CASE ~c.closing
  <2>1. d = [c EXCEPT !.timer = FALSE, !.closing = TRUE, !.buffered = 0, !.finish = f]
    BY <1>2 DEF CloseConnection, StopTimer, Keeps, Conn
  <2>2. f \in {"announce", "plain"}
    OBVIOUS
  <2>3. BufferLimit \in Nat
    BY BoundAssumption
  <2> HIDE DEF f
  <2>4. d \in Conn
    <3>1. /\ c \in Conn
          /\ f \in {"none", "announce", "plain", "grace", "done"}
          /\ 0 \in 0 .. BufferLimit
      BY <2>2, <2>3 DEF Keeps
    <3>2. [c EXCEPT !.timer = FALSE, !.closing = TRUE] \in Conn
      BY <3>1 DEF Conn
    <3>3. [c EXCEPT !.timer = FALSE, !.closing = TRUE, !.buffered = 0] \in Conn
      BY <3>1 DEF Conn
    <3>4. [c EXCEPT !.timer = FALSE, !.closing = TRUE, !.buffered = 0, !.finish = f] \in Conn
      BY <3>1 DEF Conn
    <3> QED
      BY <2>1, <3>4
  <2>5. CloseKept(d)
    BY <1>2, <2>1, <2>2 DEF Keeps, Conn, CloseKept
  <2>6. ConsentKept(d, k)
    BY <2>1, <2>2 DEF Keeps, Conn, ConsentKept, SeenKept, MessageKept
  <2> QED
    BY <1>2, <2>1, <2>4, <2>5, <2>6 DEF Keeps, Conn
<1> QED
  BY <1>1, <1>2

\* Ending a handshake with an error.
LEMMA EndWithErrorKeeps ==
    ASSUME NEW b, NEW c, NEW k, Keeps(b, c, k)
    PROVE  /\ Keeps(b, EndWithError(c), k)
           /\ EndWithError(c).closing
           /\ EndWithError(c).writeError = c.writeError
<1>1. MayReach(b, "Error", k)
  BY PlainStates
<1>2. /\ Keeps(b, StopTimer(c), k)
      /\ StopTimer(c).closing = c.closing /\ StopTimer(c).writeError = c.writeError
  BY StopTimerKeeps
<1>3. /\ Keeps(b, SetState(StopTimer(c), "Error"), k)
      /\ SetState(StopTimer(c), "Error").writeError = c.writeError
  BY <1>1, <1>2, SetStateKeeps
<1> QED
  BY <1>2, <1>3, CloseKeeps DEF EndWithError

\* The write of one message.  It fails under a websocket that breaks.
LEMMA WriteKeeps ==
    ASSUME NEW b, NEW c, NEW k, Stays(b, c, k), NEW m, MaySend(b, m)
    PROVE  /\ Keeps(b, Write(c, m), k)
           /\ Write(c, m).writeError \in BOOLEAN
           /\ Write(c, m).writeError => ~Write(c, m).closing
<1> DEFINE d == Write(c, m)
<1> USE DEF Stays
<1>0. c \in Conn
  BY DEF Keeps
<1>1. CASE c.closing
  BY <1>0, <1>1 DEF Write
<1>2. CASE ~c.closing /\ c.sock = "closed"
  <2>1. d = CloseConnection(c, FALSE)
    BY <1>2 DEF Write
  <2>2. /\ Keeps(b, CloseConnection(c, FALSE), k)
        /\ CloseConnection(c, FALSE).writeError = c.writeError
    BY CloseKeeps
  <2>3. Keeps(b, d, k) /\ d.writeError = FALSE
    BY <2>1, <2>2
  <2> QED
    BY <2>3
<1>3. CASE ~c.closing /\ c.sock = "breaking"
  <2>1. d = [c EXCEPT !.sock = "closed", !.writeError = TRUE]
    BY <1>3 DEF Write
  <2>2. d \in Conn
    BY <1>0, <2>1 DEF Conn
  <2>3. CloseKept(d)
    BY <1>0, <2>1 DEF Keeps, Conn, CloseKept
  <2>4. ConsentKept(d, k)
    BY <1>0, <2>1 DEF Keeps, Conn, ConsentKept, SeenKept, MessageKept
  <2> QED
    BY <1>0, <1>3, <2>1, <2>2, <2>3, <2>4 DEF Keeps, Conn
<1>4. CASE ~c.closing /\ c.sock \notin {"closed", "breaking"}
  <2>1. d = [c EXCEPT !.out = Append(@, m)]
    BY <1>4 DEF Write
  <2>2. /\ c.out \in Seq(Written) /\ Append(c.out, m) \in Seq(Written)
        /\ Len(Append(c.out, m)) = Len(c.out) + 1 /\ Len(c.out) \in Nat
        /\ \A i \in 1 .. Len(c.out) + 1 :
              Append(c.out, m)[i] = IF i \in 1 .. Len(c.out) THEN c.out[i] ELSE m
    BY <1>0 DEF Conn, MaySend
  <2>3. d \in Conn
    BY <1>0, <2>1, <2>2 DEF Conn
  <2>4. CloseKept(d)
    BY <1>0, <2>1 DEF Keeps, Conn, CloseKept
  <2>5. \A i \in 1 .. Len(d.out) :
           /\ d.out[i].phase = "ready" => d.consent
           /\ d.out[i].phase = "datagram" => d.reader
    <3>1. \A i \in 1 .. Len(c.out) :
             /\ c.out[i].phase = "ready" => c.consent
             /\ c.out[i].phase = "datagram" => c.reader
      BY DEF Keeps, ConsentKept
    <3>2. d.out = Append(c.out, m) /\ d.consent = c.consent /\ d.reader = c.reader
      BY <1>0, <2>1 DEF Conn
    <3>3. (m.phase = "ready" => c.consent) /\ (m.phase = "datagram" => c.reader)
      BY DEF Keeps, MaySend
    <3> QED
      BY <2>2, <3>1, <3>2, <3>3
  <2>6. ConsentKept(d, k)
    BY <1>0, <2>1, <2>5 DEF Keeps, Conn, ConsentKept, SeenKept, MessageKept
  <2> QED
    BY <1>0, <1>4, <2>1, <2>3, <2>4, <2>6 DEF Keeps, Conn
<1> QED
  BY <1>1, <1>2, <1>3, <1>4
------------------------------------------------------------------------------
(***************************************************************************)
(* What the handlers call, as one fact.                                    *)
(***************************************************************************)
\* A write that the caller does not look at, and one that ends the handshake when
\* it fails.
LEMMA NoErrorKeeps ==
    ASSUME NEW b, NEW c, NEW k, Keeps(b, c, k)
    PROVE  Stays(b, NoError(c), k) /\ NoError(c).closing = c.closing
<1>1. NoError(c) \in Conn /\ NoError(c).writeError = FALSE
  BY DEF Keeps, NoError, Conn
<1>2. CloseKept(NoError(c))
  BY DEF Keeps, NoError, Conn, CloseKept
<1>3. ConsentKept(NoError(c), k)
  BY DEF Keeps, NoError, Conn, ConsentKept, SeenKept, MessageKept
<1> QED
  BY <1>1, <1>2, <1>3 DEF Keeps, Stays, NoError, Conn

\* A write whose failure ends the handshake keeps it too.
LEMMA SendStays ==
    ASSUME NEW b, NEW c, NEW k, Stays(b, c, k), NEW m, MaySend(b, m)
    PROVE  Stays(b, Send(c, m), k)
<1> DEFINE w == Write(c, m)
<1>1. Keeps(b, w, k) /\ w.writeError \in BOOLEAN
  BY WriteKeeps
<1> HIDE DEF w
<1>2. CASE w.writeError
  <2>1. Send(c, m) = EndWithError(NoError(w))
    BY <1>2 DEF Send, w
  <2>2. Stays(b, NoError(w), k)
    BY <1>1, NoErrorKeeps
  <2> QED
    BY <2>1, <2>2, EndWithErrorKeeps DEF Stays
<1>3. CASE ~w.writeError
  <2>1. Send(c, m) = w
    BY <1>3 DEF Send, w
  <2> QED
    BY <1>1, <1>3, <2>1 DEF Stays
<1> QED
  BY <1>2, <1>3

\* The close that is scheduled for one second later.
LEMMA CloseSoonStays ==
    ASSUME NEW b, NEW c, NEW k, Stays(b, c, k)
    PROVE  Stays(b, CloseSoon(c), k)
<1> DEFINE d == [c EXCEPT !.delayed = TRUE]
<1>1. CloseSoon(c) \in {c, d}
  BY DEF CloseSoon
<1>2. d \in Conn /\ d.writeError = FALSE
  BY DEF Stays, Keeps, Conn
<1>3. CloseKept(d)
  BY DEF Stays, Keeps, Conn, CloseKept
<1>4. ConsentKept(d, k)
  BY DEF Stays, Keeps, Conn, ConsentKept, SeenKept, MessageKept
<1>5. Stays(b, d, k)
  BY <1>2, <1>3, <1>4 DEF Stays, Keeps, Conn
<1> QED
  BY <1>1, <1>5

\* The endpoint that a handler has come to may be handed to any of these.
LEMMA Primitives ==
    ASSUME NEW b, NEW c, NEW k, Stays(b, c, k)
    PROVE  /\ Stays(b, StopTimer(c), k)
           /\ \A type \in TimerTypes : Stays(b, StartTimer(c, type), k)
           /\ \A s : MayReach(b, s, k) => Stays(b, SetState(c, s), k)
           /\ \A m : MaySend(b, m) =>
                 Stays(b, Send(c, m), k) /\ Stays(b, NoError(Write(c, m)), k)
           /\ Stays(b, CloseConnection(c, FALSE), k)
           /\ Stays(b, EndWithError(c), k)
           /\ Stays(b, CloseSoon(c), k)
<1>1. Stays(b, StopTimer(c), k)
  BY StopTimerKeeps DEF Stays
<1>2. \A type \in TimerTypes : Stays(b, StartTimer(c, type), k)
  BY StartTimerKeeps DEF Stays
<1>3. \A s : MayReach(b, s, k) => Stays(b, SetState(c, s), k)
  BY SetStateKeeps DEF Stays
<1>4. \A m : MaySend(b, m) =>
         Stays(b, Send(c, m), k) /\ Stays(b, NoError(Write(c, m)), k)
  BY SendStays, WriteKeeps, NoErrorKeeps
<1>5. Stays(b, CloseConnection(c, FALSE), k)
  <2>1. /\ Keeps(b, CloseConnection(c, FALSE), k)
        /\ CloseConnection(c, FALSE).writeError = c.writeError
    BY CloseKeeps DEF Stays
  <2> QED
    BY <2>1 DEF Stays
<1>6. Stays(b, EndWithError(c), k)
  BY EndWithErrorKeeps DEF Stays
<1>7. Stays(b, CloseSoon(c), k)
  BY CloseSoonStays
<1> QED
  BY <1>1, <1>2, <1>3, <1>4, <1>5, <1>6, <1>7
------------------------------------------------------------------------------
(***************************************************************************)
(* The handlers.                                                           *)
(***************************************************************************)
\* The aborts of the hello phase.
LEMMA AbortStays ==
    ASSUME NEW b, NEW c, NEW k, Stays(b, c, k)
    PROVE  Stays(b, HelloAbort(c), k) /\ Stays(b, RemoteAbort(c), k)
BY Primitives, PlainStates, PlainMessages DEF HelloAbort, RemoteAbort

\* From HelloOk on to the next wait.
LEMMA HelloOkStays ==
    ASSUME NEW b, NEW c, NEW k, Stays(b, c, k), Passed(b, k)
    PROVE  Stays(b, HelloOk(c), k)
<1> DEFINE h == SetState(c, "HelloOk")
<1> USE DEF TimerTypes
<1>1. Stays(b, h, k)
  BY Primitives, PassedStates
<1>2. Stays(b, SetState(StartTimer(SetState(h, "ServerInit"), "WaitForReady"),
                        "ServerListenProposal"), k)
  BY <1>1, Primitives, PassedStates
<1>3. Stays(b, SetState(Send(SetState(h, "ClientInit"), Control("announceMax")),
                        "ClientListenChoice"), k)
  BY <1>1, Primitives, PassedStates, PlainMessages
<1> QED
  BY <1>2, <1>3 DEF HelloOk, ProtocolInit

\* A ready endpoint tells its peer.
LEMMA ReadyInitStays ==
    ASSUME NEW b, NEW c, NEW k, Stays(b, c, k), b.consent
    PROVE  Stays(b, ReadyInit(c), k)
<1> DEFINE i == SetState(c, "ReadyInit")
           w == Write(i, Ready)
<1>1. Stays(b, i, k)
  BY Primitives, ReadyStates
<1>2. MaySend(b, Ready)
  BY DEF MaySend, Written, Ready, Hello
<1>3. Keeps(b, w, k) /\ w.writeError \in BOOLEAN
  BY <1>1, <1>2, WriteKeeps
<1> HIDE DEF w
<1>4. CASE w.writeError
  <2>1. ReadyInit(c) = HelloAbort(NoError(w))
    BY <1>4 DEF ReadyInit, w
  <2> QED
    BY <1>3, <2>1, NoErrorKeeps, AbortStays
<1>5. CASE ~w.writeError
  <2>1. ReadyInit(c) = SetState(w, "ReadyListen")
    BY <1>5 DEF ReadyInit, w
  <2>2. Stays(b, w, k)
    BY <1>3, <1>5 DEF Stays
  <2> QED
    BY <2>1, <2>2, Primitives, ReadyStates
<1> QED
  BY <1>4, <1>5

\* The start of the hello phase.
LEMMA HelloStartStays ==
    ASSUME NEW b, NEW c, NEW k, Stays(b, c, k), NEW allowed
    PROVE  Stays(b, HelloStart(c, allowed), k)
<1> DEFINE h == SetState(c, "Hello")
           p == SetState(Send(SetState(h, "PendingInit"), Pending), "PendingListen")
<1>1. Stays(b, h, k)
  BY Primitives, PlainStates
<1>2. CASE c.trusted \/ c.role = "client"
  <2>1. b.consent
    BY <1>2 DEF Stays, Keeps, ConsentKept
  <2> QED
    BY <1>1, <1>2, <2>1, ReadyInitStays DEF HelloStart
<1>3. CASE ~(c.trusted \/ c.role = "client")
  <2>1. HelloStart(c, allowed) \in {p, HelloAbort(p)}
    BY <1>3 DEF HelloStart, PendingInit
  <2>2. MayReach(b, "PendingListen", k)
    <3>1. b.role = "server"
      BY <1>3 DEF Stays, Keeps, Conn, Roles
    <3> QED
      BY <3>1 DEF MayReach, Trusting, Past, States
  <2>3. Stays(b, p, k)
    BY <1>1, <2>2, Primitives, PlainStates, PlainMessages
  <2> QED
    BY <2>1, <2>3, AbortStays
<1> QED
  BY <1>2, <1>3

\* The connection mode initialisation.
LEMMA InitStays ==
    ASSUME NEW b, NEW c, NEW k, Stays(b, c, k), NEW m, NEW allowed
    PROVE  /\ Stays(b, InitStart(c), k)
           /\ Stays(b, ServerWait(c, m, allowed), k)
           /\ Stays(b, ClientWait(c, m, allowed), k)
<1>1. Stays(b, InitStart(c), k)
  <2>1. Stays(b, StartTimer(SetState(Send(SetState(c, "ClientSend"), Control("init")),
                                     "ClientWait"), "WaitForReady"), k)
    BY Primitives, PlainStates, PlainMessages DEF TimerTypes
  <2>2. Stays(b, StartTimer(SetState(c, "ServerWait"), "WaitForReady"), k)
    BY Primitives, PlainStates DEF TimerTypes
  <2> QED
    BY <2>1, <2>2 DEF InitStart
<1>2. Stays(b, ServerWait(c, m, allowed), k)
  <2>1. Stays(b, SetState(c, "ServerEvaluate"), k)
    BY Primitives, PlainStates
  <2>2. Stays(b, Send(SetState(c, "ServerEvaluate"), Control("init")), k)
    BY <2>1, Primitives, PlainMessages
  <2>3. CASE IsInit(m)
    BY <2>2, <2>3, HelloStartStays DEF ServerWait
  <2>4. CASE ~IsInit(m)
    BY <2>1, <2>4, Primitives DEF ServerWait
  <2> QED
    BY <2>3, <2>4
<1>3. Stays(b, ClientWait(c, m, allowed), k)
  <2>1. Stays(b, SetState(c, "ClientEvaluate"), k)
    BY Primitives, PlainStates
  <2>2. CASE IsInit(m)
    BY <2>1, <2>2, HelloStartStays DEF ClientWait
  <2>3. CASE ~IsInit(m)
    BY <2>1, <2>3, Primitives DEF ClientWait
  <2> QED
    BY <2>2, <2>3
<1> QED
  BY <1>1, <1>2, <1>3

\* Waiting for the peer's user.
LEMMA ReadyListenStays ==
    ASSUME NEW b, NEW c, NEW k, Stays(b, c, k), b.consent,
           NEW m, MessageKept(m, k), NEW allowed
    PROVE  Stays(b, ReadyListen(c, m, allowed), k)
<1>1. MaySend(b, Ready)
  BY DEF MaySend, Written, Ready, Hello
<1>2. m.phase = "ready" => Stays(b, HelloOk(c), k)
  BY HelloOkStays DEF MessageKept, Passed
<1>3. Stays(b, Send(c, Ready), k) /\ Stays(b, Send(StartTimer(c, "WaitForReady"), Ready), k)
  BY <1>1, Primitives DEF TimerTypes
<1>4. Stays(b, RemoteAbort(c), k) /\ Stays(b, HelloAbort(c), k)
  BY AbortStays
<1>5. \/ m.phase = "ready" /\ ReadyListen(c, m, allowed) = HelloOk(c)
      \/ ReadyListen(c, m, allowed) \in
            {c, Send(c, Ready), Send(StartTimer(c, "WaitForReady"), Ready),
             RemoteAbort(c), HelloAbort(c)}
  BY DEF ReadyListen
<1> QED
  BY <1>2, <1>3, <1>4, <1>5

\* Waiting for one's own user.
LEMMA PendingListenStays ==
    ASSUME NEW b, NEW c, NEW k, Stays(b, c, k), NEW m, NEW allowed
    PROVE  Stays(b, PendingListen(c, m, allowed), k)
<1>1. /\ Stays(b, StartTimer(Send(c, ProlongationRequest), "ProlongRequestReply"), k)
      /\ Stays(b, StartTimer(StopTimer(c), "SendProlongationRequest"), k)
      /\ Stays(b, StopTimer(c), k) /\ Stays(b, Send(c, Pending), k)
  BY Primitives, PlainMessages DEF TimerTypes
<1>2. Stays(b, RemoteAbort(c), k) /\ Stays(b, HelloAbort(c), k)
  BY AbortStays
<1>3. PendingListen(c, m, allowed) \in
         {StartTimer(Send(c, ProlongationRequest), "ProlongRequestReply"),
          StartTimer(StopTimer(c), "SendProlongationRequest"),
          StopTimer(c), Send(c, Pending), RemoteAbort(c), HelloAbort(c)}
  BY DEF PendingListen
<1> QED
  BY <1>1, <1>2, <1>3

\* The protocol handshake.
LEMMA ProtocolStays ==
    ASSUME NEW b, NEW c, NEW k, Stays(b, c, k), Passed(b, k), NEW m
    PROVE  /\ Stays(b, ServerListenProposal(c, m), k)
           /\ Stays(b, ServerListenConfirm(c, m), k)
           /\ Stays(b, ClientListenChoice(c, m), k)
<1>1. ASSUME NEW d, Stays(b, d, k) PROVE Stays(b, AbortProtocol(d), k)
  <2>1. Stays(b, SetState(NoError(Write(StopTimer(d), Control("protocolError"))), "Error"), k)
    BY <1>1, Primitives, PlainStates, PlainMessages
  <2> QED
    BY <1>1, <2>1, Primitives DEF AbortProtocol
<1>2. ASSUME NEW d, Stays(b, d, k) PROVE Stays(b, PinInit(d), k)
  BY <1>2, Primitives, PassedStates, PlainMessages DEF PinInit
<1>3. Stays(b, StopTimer(c), k) /\ Stays(b, EndWithError(c), k)
  BY Primitives
<1>4. /\ Stays(b, SetState(StartTimer(Send(StopTimer(c), Control("select")), "WaitForReady"),
                           "ServerListenConfirm"), k)
      /\ Stays(b, SetState(StopTimer(c), "ServerOk"), k)
      /\ Stays(b, SetState(Send(StopTimer(c), Control("select")), "ClientOk"), k)
  BY <1>3, Primitives, PassedStates, PlainMessages DEF TimerTypes
<1>5. Stays(b, ServerListenProposal(c, m), k)
  BY <1>3, <1>4 DEF ServerListenProposal
<1>6. Stays(b, ServerListenConfirm(c, m), k)
  BY <1>1, <1>2, <1>4 DEF ServerListenConfirm
<1>7. Stays(b, ClientListenChoice(c, m), k)
  BY <1>1, <1>2, <1>3, <1>4 DEF ClientListenChoice
<1> QED
  BY <1>5, <1>6, <1>7

\* A handler that does neither.
LEMMA StaysLeaves ==
    ASSUME NEW b, NEW c, NEW k, Stays(b, c, k)
    PROVE  Leaves(b, c, k) /\ c.delivered = b.delivered
BY DEF Stays, Keeps, Leaves

\* Approved: the SPINE device is set up and gets what was buffered for it.
LEMMA ApproveStays ==
    ASSUME NEW b, NEW c, NEW k, Stays(b, c, k), Passed(b, k), NEW ok
    PROVE  /\ Leaves(b, ApproveHandshake(c, ok), k)
           /\ b.reader => ApproveHandshake(c, ok).delivered = b.delivered
<1> DEFINE u == [c EXCEPT !.setup = TRUE]
           v == c.delivered \/ c.buffered > 0
           d == [c EXCEPT !.timer = FALSE, !.setup = TRUE, !.state = "Complete",
                          !.reader = TRUE, !.delivered = v, !.buffered = 0]
<1>1. c \in Conn /\ c.writeError = FALSE /\ BufferLimit \in Nat
  BY BoundAssumption DEF Stays, Keeps
<1>2. CASE c.closing \/ c.setup \/ (c.role \in RequireApproval /\ ~c.requested)
  <2>1. ApproveHandshake(c, ok) = c
    BY <1>2 DEF ApproveHandshake
  <2> QED
    BY <2>1, StaysLeaves
<1>3. CASE ~(c.closing \/ c.setup \/ (c.role \in RequireApproval /\ ~c.requested))
  <2>1. Stays(b, u, k)
    <3>1. u \in Conn /\ u.writeError = FALSE
      BY <1>1 DEF Conn
    <3>2. CloseKept(u)
      BY <1>1 DEF Stays, Keeps, Conn, CloseKept
    <3>3. ConsentKept(u, k)
      BY <1>1 DEF Stays, Keeps, Conn, ConsentKept, SeenKept, MessageKept
    <3> QED
      BY <1>1, <3>1, <3>2, <3>3 DEF Stays, Keeps, Conn
  <2>2. CASE ~ok
    <3>1. ApproveHandshake(c, ok) = CloseConnection(u, FALSE)
      BY <1>3, <2>2 DEF ApproveHandshake
    <3>2. Stays(b, CloseConnection(u, FALSE), k)
      BY <2>1, Primitives
    <3> HIDE DEF u
    <3>3. /\ Leaves(b, CloseConnection(u, FALSE), k)
          /\ CloseConnection(u, FALSE).delivered = b.delivered
      BY <3>2, StaysLeaves
    <3> QED
      BY <3>1, <3>3
  <2>3. CASE ok
    <3>1. v \in BOOLEAN
      OBVIOUS
    <3>2. v => "data" \in k
      BY <1>1 DEF Stays, Keeps, Conn, ConsentKept
    <3>3. ApproveHandshake(c, ok) = d
      BY <1>1, <1>3, <2>3 DEF ApproveHandshake, StopTimer, Conn
    <3> HIDE DEF v
    <3>4. d \in Conn
      <4>1. "Complete" \in States /\ 0 \in 0 .. BufferLimit
        BY <1>1 DEF States
      <4> QED
        BY <1>1, <3>1, <4>1 DEF Conn
    <3>5. CloseKept(d) /\ d.writeError = FALSE
      BY <1>1 DEF Stays, Keeps, Conn, CloseKept
    <3>6. SeenKept(d, "Complete", k)
      BY <1>1 DEF Stays, Keeps, Conn, SeenKept, Passed
    <3>7. d.consent /\ (d.role \in RequireApproval => d.requested)
      BY <1>1, <1>3 DEF Stays, Keeps, Conn, Passed
    <3>8. ConsentKept(d, k)
      BY <1>1, <3>1, <3>2, <3>6, <3>7
      DEF Stays, Keeps, Conn, ConsentKept, SeenKept, MessageKept
    <3>9. ~b.reader /\ ~c.delivered
      BY <1>3 DEF Stays, Keeps, ConsentKept
    <3>10. /\ d.role = c.role /\ d.consent = c.consent /\ d.expiry = c.expiry
           /\ d.pinSent = c.pinSent /\ d.pinWrites = c.pinWrites
           /\ d.requested = c.requested /\ d.reported = c.reported
           /\ d.reader = TRUE /\ d.closing = c.closing /\ d.state = "Complete"
      BY <1>1 DEF Conn
    <3> HIDE DEF d
    <3>11. Leaves(b, d, k)
      BY <1>3, <3>4, <3>5, <3>8, <3>9, <3>10 DEF Stays, Keeps, Leaves
    <3> QED
      BY <3>3, <3>9, <3>11
  <2> QED
    BY <2>2, <2>3
<1> QED
  BY <1>2, <1>3

\* The access methods.
LEMMA AccessMethodsStays ==
    ASSUME NEW b, NEW c, NEW k, Stays(b, c, k), Passed(b, k), NEW m, NEW ok
    PROVE  /\ Stays(b, AccessMethodsInit(c), k)
           /\ Leaves(b, AccessMethodsRequest(c, m, ok), k)
<1>1. Stays(b, AccessMethodsInit(c), k)
  BY Primitives, PassedStates, PlainMessages DEF AccessMethodsInit, TimerTypes
<1>2. /\ Stays(b, Send(c, Control("accessMethods")), k)
      /\ Stays(b, StopTimer(c), k) /\ Stays(b, EndWithError(c), k)
  BY Primitives, PlainMessages
<1>3. Leaves(b, ApproveHandshake(SetState(StopTimer(c), "Approved"), ok), k)
  BY <1>2, Primitives, PassedStates, ApproveStays
<1>4. AccessMethodsRequest(c, m, ok) \in
         {Send(c, Control("accessMethods")), StopTimer(c), EndWithError(c),
          ApproveHandshake(SetState(StopTimer(c), "Approved"), ok)}
  BY DEF AccessMethodsRequest
<1> QED
  BY <1>1, <1>2, <1>3, <1>4, StaysLeaves

\* The reader is left inside the PIN provider's callback.
LEMMA PinRequestStays ==
    ASSUME NEW b, NEW c, NEW k, Stays(b, c, k), Passed(b, k),
           NEW m \in Heeded, m.phase \in {"pinRequiredOk", "pinOptionalOk"}, MessageKept(m, k)
    PROVE  Stays(b, PinRequest(c, m), k)
<1> DEFINE asked == SetState(c, "AskProcess")
           d == [asked EXCEPT !.read = [msg |-> m, seen |-> "provider"]]
<1>1. Stays(b, asked, k)
  BY Primitives, PassedStates
<1>2. CASE c.pinSent \/ c.closing
  BY <1>1, <1>2 DEF PinRequest
<1>3. CASE ~(c.pinSent \/ c.closing)
  <2>1. PinRequest(c, m) = d
    BY <1>3 DEF PinRequest
  <2>2. asked.pinSent = c.pinSent
    BY <1>1 DEF Stays, Keeps
  <2> HIDE DEF asked
  <2>3. [msg |-> m, seen |-> "provider"] \in Thread
    BY DEF Heeded, Thread
  <2>4. d \in Conn
    BY <1>1, <2>3 DEF Stays, Keeps, Conn
  <2>5. CloseKept(d) /\ d.writeError = FALSE
    BY <1>1, <1>3, <2>2 DEF Stays, Keeps, Conn, CloseKept
  <2>6. SeenKept(d, "provider", k)
    BY <1>1 DEF Stays, Keeps, Conn, SeenKept, Passed
  <2>7. m # Anything /\ "foreign" \in k
    BY OwnMessages DEF MessageKept, Anything, Control
  <2>8. ConsentKept(d, k)
    BY <1>1, <2>6, <2>7 DEF Stays, Keeps, Conn, ConsentKept, SeenKept, MessageKept
  <2> QED
    BY <1>1, <2>1, <2>4, <2>5, <2>8 DEF Stays, Keeps, Conn
<1> QED
  BY <1>2, <1>3

\* What the peer says of its PIN.
LEMMA PinCheckStays ==
    ASSUME NEW b, NEW c, NEW k, Stays(b, c, k), Passed(b, k), NEW m \in Heeded,
           MessageKept(m, k)
    PROVE  Stays(b, PinCheckListen(c, m), k)
<1>1. Stays(b, PinOk(c), k)
  BY Primitives, PassedStates, AccessMethodsStays DEF PinOk
<1>2. Stays(b, SetState(c, "AskProcess"), k) /\ Stays(b, EndWithError(c), k)
  BY Primitives, PassedStates
<1>3. m.phase \in {"pinRequiredOk", "pinOptionalOk"} => Stays(b, PinRequest(c, m), k)
  BY PinRequestStays
<1>4. \/ m.phase \in {"pinRequiredOk", "pinOptionalOk"}
         /\ PinCheckListen(c, m) = PinRequest(c, m)
      \/ PinCheckListen(c, m) \in {PinOk(c), SetState(c, "AskProcess"), EndWithError(c)}
  BY DEF PinCheckListen
<1> QED
  BY <1>1, <1>2, <1>3, <1>4

\* A handler may do what the state that its thread sampled allows, whatever the
\* state has become since.
LEMMA HandleStateStays ==
    ASSUME NEW b, NEW c, NEW k, Stays(b, c, k), NEW s, SeenKept(b, s, k),
           NEW m \in Heeded, MessageKept(m, k), NEW allowed, NEW ok
    PROVE  Leaves(b, HandleState(c, s, m, allowed, ok), k)
<1>1. s \in Past => Passed(b, k)
  BY DEF SeenKept, Passed, Trusting
<1>2. CASE s \in {"ServerListenProposal", "ServerListenConfirm", "ClientListenChoice",
                  "AskInit", "AskProcess", "AccessMethodsRequest"}
  <2>1. Passed(b, k)
    BY <1>1, <1>2 DEF Past
  <2>2. Leaves(b, AccessMethodsRequest(c, m, ok), k)
    BY <2>1, AccessMethodsStays
  <2> QED
    BY <1>2, <2>1, <2>2, ProtocolStays, PinCheckStays, StaysLeaves DEF HandleState
<1>3. CASE s = "ReadyListen"
  <2>1. b.consent
    BY <1>3 DEF SeenKept, Trusting
  <2> QED
    BY <1>3, <2>1, ReadyListenStays, StaysLeaves DEF HandleState
<1>4. CASE s = "PendingListen"
  BY <1>4, PendingListenStays, StaysLeaves DEF HandleState
<1>5. CASE s \in {"InitStart", "ClientWait", "ServerWait"}
  BY <1>5, InitStays, Primitives, StaysLeaves DEF HandleState
<1>6. CASE s \in {"AbortDone", "RemoteAbortDone"}
  BY <1>6, Primitives, StaysLeaves DEF HandleState
<1>7. CASE s \notin {"ServerListenProposal", "ServerListenConfirm", "ClientListenChoice",
                     "AskInit", "AskProcess", "AccessMethodsRequest", "ReadyListen",
                     "PendingListen", "InitStart", "ClientWait", "ServerWait", "AbortDone",
                     "RemoteAbortDone"}
  BY <1>7, StaysLeaves DEF HandleState
<1> QED
  BY <1>2, <1>3, <1>4, <1>5, <1>6, <1>7

\* What the read pump hands over.
LEMMA ReceivedStays ==
    ASSUME NEW b, NEW c, NEW k, Stays(b, c, k), NEW s, SeenKept(b, s, k),
           NEW m \in Heeded, MessageKept(m, k), NEW allowed, NEW ok
    PROVE  Leaves(b, Received(c, s, m, allowed, ok), k)
<1>1. CASE m = EOF
  <2>1. /\ Stays(b, CloseConnection(SetState(c, "Rejected"), FALSE), k)
        /\ Stays(b, CloseConnection(SetState(c, "Error"), FALSE), k)
        /\ Stays(b, CloseConnection(c, FALSE), k)
    BY Primitives, PlainStates
  <2>2. ConnectionError(c, s) \in
           {c, CloseConnection(SetState(c, "Rejected"), FALSE),
            CloseConnection(SetState(c, "Error"), FALSE), CloseConnection(c, FALSE)}
    <3>1. CASE c.closing
      BY <3>1 DEF ConnectionError
    <3>2. CASE ~c.closing /\ s = "ReadyListen"
      BY <3>2 DEF ConnectionError
    <3>3. CASE ~c.closing /\ s \in {"RemoteAbortDone", "Abort", "AbortDone"}
      BY <3>3 DEF ConnectionError
    <3>4. CASE ~c.closing /\ s \notin {"ReadyListen", "RemoteAbortDone", "Abort", "AbortDone"}
      BY <3>4 DEF ConnectionError
    <3> QED
      BY <3>1, <3>2, <3>3, <3>4
  <2>3. Received(c, s, m, allowed, ok) = ConnectionError(c, s)
    BY <1>1 DEF Received, EOF, Control
  <2> QED
    BY <2>1, <2>2, <2>3, StaysLeaves
<1>2. CASE m # EOF /\ m.phase = "datagram"
  <2> DEFINE e == [c EXCEPT !.delivered = TRUE]
             f == [c EXCEPT !.buffered = @ + 1]
  <2>1. "data" \in k /\ c \in Conn /\ c.writeError = FALSE
    BY <1>2 DEF MessageKept, Stays, Keeps
  <2>2. c.reader /\ ~c.closing => Leaves(b, e, k)
    <3>1. e \in Conn /\ e.writeError = FALSE
      BY <2>1 DEF Conn
    <3>2. CloseKept(e)
      BY <2>1 DEF Stays, Keeps, Conn, CloseKept
    <3>3. c.reader => ConsentKept(e, k)
      BY <2>1 DEF Stays, Keeps, Conn, ConsentKept, SeenKept, MessageKept
    <3> QED
      BY <2>1, <3>1, <3>2, <3>3 DEF Stays, Keeps, Leaves, Conn
  <2>3. ~(c.buffered >= BufferLimit) => Stays(b, f, k)
    <3>1. ~(c.buffered >= BufferLimit) => c.buffered + 1 \in 0 .. BufferLimit
      BY <2>1, BoundAssumption DEF Conn
    <3>2. ~(c.buffered >= BufferLimit) => f \in Conn /\ f.writeError = FALSE
      BY <2>1, <3>1 DEF Conn
    <3>3. CloseKept(f)
      BY <2>1 DEF Stays, Keeps, Conn, CloseKept
    <3>4. ConsentKept(f, k)
      BY <2>1 DEF Stays, Keeps, Conn, ConsentKept, SeenKept, MessageKept
    <3> QED
      BY <2>1, <3>2, <3>3, <3>4 DEF Stays, Keeps, Conn
  <2>4. Stays(b, CloseConnection(c, FALSE), k)
    BY Primitives
  <2>5. \/ HandleDatagram(c) \in {c, CloseConnection(c, FALSE)}
        \/ c.reader /\ ~c.closing /\ HandleDatagram(c) = e
        \/ ~(c.buffered >= BufferLimit) /\ HandleDatagram(c) = f
    BY DEF HandleDatagram
  <2>6. Received(c, s, m, allowed, ok) = HandleDatagram(c)
    BY <1>2 DEF Received
  <2> HIDE DEF e, f
  <2> QED
    BY <2>2, <2>3, <2>4, <2>5, <2>6, StaysLeaves
<1>3. CASE m # EOF /\ m.phase # "datagram"
  <2>1. /\ Stays(b, CloseConnection(NoError(Write(c, Control("confirm"))), FALSE), k)
        /\ Stays(b, CloseConnection(c, FALSE), k)
    BY Primitives, PlainMessages
  <2>2. Leaves(b, HandleState(c, s, m, allowed, ok), k)
    BY HandleStateStays
  <2>3. HandleShipMessage(c, s, m, allowed, ok) \in
           {CloseConnection(NoError(Write(c, Control("confirm"))), FALSE),
            CloseConnection(c, FALSE), HandleState(c, s, m, allowed, ok)}
    BY DEF HandleShipMessage
  <2>4. Received(c, s, m, allowed, ok) = HandleShipMessage(c, s, m, allowed, ok)
    BY <1>3 DEF Received
  <2> QED
    BY <2>1, <2>2, <2>3, <2>4, StaysLeaves
<1> QED
  BY <1>1, <1>2, <1>3
------------------------------------------------------------------------------
(***************************************************************************)
(* Steps.                                                                  *)
(***************************************************************************)
\* A step takes nothing back.  It installs the reader or delivers data only if the
\* close is not claimed, and a report of the close comes alone.
Moves(a, c) ==
    /\ (a.consent => c.consent) /\ (a.requested => c.requested)
    /\ (a.reader => c.reader) /\ (a.delivered => c.delivered) /\ (a.closing => c.closing)
    /\ c.reader # a.reader => ~c.closing /\ c.state = "Complete"
    /\ c.delivered # a.delivered => ~c.closing
    /\ \/ c.reported # a.reported
       \/ a.reader /\ c.delivered # a.delivered
       => c.consent = a.consent /\ c.requested = a.requested
    /\ c.reported # a.reported =>
          a.reported = 0 /\ a.closing /\ c.reader = a.reader /\ c.delivered = a.delivered

\* The endpoint a may become c: a PIN is sent at most once and only on a connection
\* that is not closing.
Becomes(a, c, k) ==
    /\ c \in Conn /\ c.writeError = FALSE /\ CloseKept(c) /\ ConsentKept(c, k)
    /\ c.role = a.role /\ Moves(a, c)
    /\ c.pinWrites # a.pinWrites => a.pinWrites = 0 /\ ~a.closing

\* The PIN provider returns.
LEMMA PinProvidedBecomes ==
    ASSUME NEW c, NEW k, Stays(c, c, k), Passed(c, k), c.pinSent = FALSE, c.read = Idle,
           NEW m, NEW outcome
    PROVE  Becomes(c, PinProvided(c, m, outcome), k)
<1> DEFINE s == [c EXCEPT !.pinSent = TRUE, !.pinWrites = @ + 1,
                          !.out = Append(@, Control("pinInput"))]
<1>1. c \in Conn /\ c.writeError = FALSE /\ c.pinWrites = 0
  BY DEF Stays, Keeps, CloseKept
<1>2. CASE outcome = "pin" /\ ~c.closing /\ c.sock = "open"
  <2>1. Stays(s, s, k)
    <3>1. /\ c.out \in Seq(Written) /\ Control("pinInput") \in Written
          /\ c.pinWrites + 1 \in Nat
      BY <1>1 DEF Conn, Written
    <3>2. /\ Append(c.out, Control("pinInput")) \in Seq(Written)
          /\ Len(Append(c.out, Control("pinInput"))) = Len(c.out) + 1 /\ Len(c.out) \in Nat
          /\ \A i \in 1 .. Len(c.out) + 1 :
                Append(c.out, Control("pinInput"))[i] =
                   IF i \in 1 .. Len(c.out) THEN c.out[i] ELSE Control("pinInput")
      BY <3>1
    <3>3. s \in Conn /\ s.writeError = FALSE
      BY <1>1, <3>1, <3>2 DEF Conn
    <3>4. CloseKept(s)
      <4>1. s.read.seen = "idle"
        BY <1>1 DEF Conn, Idle
      <4> QED
        BY <1>1, <1>2, <4>1 DEF Stays, Keeps, Conn, CloseKept
    <3>5. \A i \in 1 .. Len(s.out) :
             /\ s.out[i].phase = "ready" => s.consent
             /\ s.out[i].phase = "datagram" => s.reader
      <4>1. \A i \in 1 .. Len(c.out) :
               /\ c.out[i].phase = "ready" => c.consent
               /\ c.out[i].phase = "datagram" => c.reader
        BY DEF Stays, Keeps, ConsentKept
      <4>2. /\ s.out = Append(c.out, Control("pinInput"))
            /\ s.consent = c.consent /\ s.reader = c.reader
        BY <1>1 DEF Conn
      <4>3. Control("pinInput").phase = "pinInput"
        BY DEF Control
      <4> QED
        BY <3>2, <4>1, <4>2, <4>3
    <3>6. ConsentKept(s, k)
      BY <1>1, <3>5 DEF Stays, Keeps, Conn, ConsentKept, SeenKept, MessageKept
    <3> QED
      BY <3>3, <3>4, <3>6 DEF Stays, Keeps
  <2>2. /\ s.role = c.role /\ s.consent = c.consent /\ s.reader = c.reader
        /\ s.requested = c.requested /\ s.reported = c.reported /\ s.closing = c.closing
        /\ s.delivered = c.delivered
    BY <1>1 DEF Conn
  <2>3. PinProvided(c, m, outcome) \in {s, StartTimer(s, "WaitForReady")}
    BY <1>2 DEF PinProvided
  <2> HIDE DEF s
  <2>4. Stays(s, PinProvided(c, m, outcome), k)
    BY <2>1, <2>3, Primitives DEF TimerTypes
  <2> QED
    BY <1>1, <1>2, <2>2, <2>4 DEF Becomes, Moves, Stays, Keeps
<1>3. CASE ~(outcome = "pin" /\ ~c.closing /\ c.sock = "open")
  <2>1. /\ Stays(c, EndWithError(c), k)
        /\ Stays(c, AccessMethodsInit(SetState(c, "AskRestricted")), k)
    BY Primitives, PassedStates, AccessMethodsStays
  <2>2. PinProvided(c, m, outcome) \in
           {c, EndWithError(c), AccessMethodsInit(SetState(c, "AskRestricted"))}
    BY <1>3 DEF PinProvided
  <2>3. Stays(c, PinProvided(c, m, outcome), k)
    BY <2>1, <2>2
  <2> QED
    BY <1>1, <2>3 DEF Becomes, Moves, Stays, Keeps
<1> QED
  BY <1>2, <1>3

\* Roles and peers.
LEMMA PeerRoles ==
    ASSUME NEW r \in Roles
    PROVE  Peer(r) \in Roles /\ Peer(r) # r /\ Peer(Peer(r)) = r
BY DEF Peer, Roles

\* The local endpoints of a session are its roles.
LEMMA LocalRoles ==
    ASSUME Local \in Sessions
    PROVE  Local \subseteq Roles
BY SessionAssumption DEF Roles

\* Knowing more does no harm.
LEMMA KnownMore ==
    ASSUME NEW k, NEW l, k \subseteq l
    PROVE  /\ \A c : ConsentKept(c, k) => ConsentKept(c, l)
           /\ \A m : MessageKept(m, k) => MessageKept(m, l)
<1>1. \A m : MessageKept(m, k) => MessageKept(m, l)
  BY DEF MessageKept
<1>2. \A c, s : SeenKept(c, s, k) => SeenKept(c, s, l)
  BY DEF SeenKept
<1>3. \A c : ConsentKept(c, k) => ConsentKept(c, l)
  BY <1>1, <1>2 DEF ConsentKept
<1> QED
  BY <1>1, <1>3

\* The PIN is put on the wire at most once and never by a closing connection.
PinStep ==
    \A q \in Local : ep'[q].pinWrites # ep[q].pinWrites =>
        ep[q].pinWrites = 0 /\ ~ep[q].closing

\* One endpoint moves at a time.
OneMoves ==
    /\ PinStep /\ Local' = Local
    /\ \E r \in Local : Moves(ep[r], ep'[r]) /\ \A q \in Local \ {r} : ep'[q] = ep[q]

\* A step in which the endpoint r becomes d, with nothing left to send.
LEMMA EndStep ==
    ASSUME EndInv, NEW r \in Local, NEW d, Becomes(ep[r], d, Known(r)), d.out = <<>>,
           ep' = [ep EXCEPT ![r] = d]
    PROVE  /\ EndInv' /\ OneMoves
           /\ Local' = Local
           /\ \A q \in Roles : Known(q) \subseteq Known(q)'
<1> USE DEF EndInv
<1>1. Local \subseteq Roles /\ Local' = Local
  BY LocalRoles DEF Local
<1>2. /\ ep' \in [Local' -> Conn] /\ ep'[r] = d
      /\ \A q \in Local : q # r => ep'[q] = ep[q]
  BY <1>1 DEF Local, Becomes, Moves
<1>3. \A q \in Roles : Known(q) \subseteq Known(q)'
  <2>1. \A q \in Local : /\ ep[q].consent => ep'[q].consent
                         /\ ep[q].reader => ep'[q].reader
    BY <1>2 DEF Becomes, Moves
  <2> QED
    BY <1>1, <2>1 DEF Known
<1>4. \A q \in Local : ConsentKept(ep'[q], Known(q)')
  BY <1>1, <1>2, <1>3, KnownMore DEF Becomes, Moves
<1>5. EndInv'
  BY <1>1, <1>2, <1>4 DEF Becomes, Moves
<1>6. PinStep
  BY <1>2 DEF Becomes, PinStep
<1>7. Moves(ep[r], ep'[r])
  BY <1>2 DEF Becomes
<1> QED
  BY <1>1, <1>2, <1>3, <1>5, <1>6, <1>7 DEF OneMoves

\* What the wires held stays covered.
LEMMA WireStep ==
    ASSUME WireInv, \A q \in Roles : Known(q) \subseteq Known(q)',
           wire' \in [Roles -> Seq(Written)], link' \in {"up", "down"},
           \A q \in Roles : \A i \in 1 .. Len(wire'[q]) :
              MessageKept(wire'[q][i], Known(q)) \/ MessageKept(wire'[q][i], Known(q)')
    PROVE  WireInv'
BY KnownMore DEF WireInv

\* A step in which the endpoint r becomes c and sends what it wrote.
LEMMA UpdateStep ==
    ASSUME Inv, NEW r \in Local, NEW c, Update(r, c), Becomes(ep[r], c, Known(r))
    PROVE  Inv' /\ OneMoves
<1> DEFINE d == [c EXCEPT !.out = <<>>]
<1> USE DEF Inv
<1>1. Local \subseteq Roles /\ r \in Roles
  BY LocalRoles DEF EndInv
<1>2. c \in Conn /\ ep' = [ep EXCEPT ![r] = d]
  BY DEF Becomes, Moves, Update
<1>3. /\ d.out = <<>> /\ d.consent = c.consent /\ d.reader = c.reader
  BY <1>2 DEF Conn
<1>4. Becomes(ep[r], d, Known(r))
  <2>1. d \in Conn
    <3>1. <<>> \in Seq(Written)
      OBVIOUS
    <3> QED
      BY <1>2, <3>1 DEF Conn
  <2>2. CloseKept(d)
    BY <1>2 DEF Becomes, Moves, Conn, CloseKept
  <2>3. \A i \in 1 .. Len(d.out) :
           /\ d.out[i].phase = "ready" => d.consent
           /\ d.out[i].phase = "datagram" => d.reader
    BY <1>3
  <2>4. ConsentKept(d, Known(r))
    BY <1>2, <2>3 DEF Becomes, Moves, Conn, ConsentKept, SeenKept, MessageKept
  <2> QED
    BY <1>2, <2>1, <2>2, <2>4 DEF Becomes, Moves, Conn
<1> HIDE DEF d
<1>5. /\ EndInv' /\ Local' = Local /\ OneMoves
      /\ \A q \in Roles : Known(q) \subseteq Known(q)'
  BY <1>2, <1>3, <1>4, EndStep
<1>6. WireInv'
  <2>1. /\ wire \in [Roles -> Seq(Written)] /\ link' = link /\ link \in {"up", "down"}
        /\ wire' = [wire EXCEPT ![Peer(r)] =
                       IF Peer(r) \in Local /\ link = "up" THEN @ \o c.out ELSE @]
        /\ \A q \in Roles : \A i \in 1 .. Len(wire[q]) : MessageKept(wire[q][i], Known(q))
    BY DEF Update, WireInv
  <2>2. CASE ~(Peer(r) \in Local /\ link = "up")
    <3>1. wire' = wire
      BY <2>1, <2>2
    <3> QED
      BY <1>5, <2>1, <3>1, WireStep
  <2>3. CASE Peer(r) \in Local /\ link = "up"
    <3> DEFINE p == Peer(r)
               old == wire[p]
    <3>1. p \in Roles /\ Peer(p) = r
      BY <1>1, PeerRoles
    <3> HIDE DEF p
    <3>2. old \in Seq(Written) /\ c.out \in Seq(Written)
      BY <1>2, <2>1, <3>1 DEF Conn
    <3>3. wire' = [wire EXCEPT ![p] = old \o c.out]
      BY <2>1, <2>3 DEF p
    <3>4. \A i \in 1 .. Len(c.out) : MessageKept(c.out[i], Known(p)')
      <4>1. \A i \in 1 .. Len(c.out) :
               /\ c.out[i].phase = "ready" => c.consent
               /\ c.out[i].phase = "datagram" => c.reader
        BY DEF Becomes, Moves, ConsentKept
      <4>2. ep'[r] = d
        BY <1>2 DEF EndInv
      <4>3. /\ c.consent => "consent" \in Known(p)'
            /\ c.reader => "data" \in Known(p)'
        BY <1>3, <1>5, <3>1, <4>2 DEF Known
      <4> QED
        BY <3>2, <4>1, <4>3 DEF MessageKept
    <3>5. \A i \in 1 .. Len(old) : MessageKept(old[i], Known(p)')
      BY <1>5, <2>1, <3>1, KnownMore
    <3> HIDE DEF old
    <3>6. /\ old \o c.out \in Seq(Written)
          /\ \A i \in 1 .. Len(old \o c.out) : MessageKept((old \o c.out)[i], Known(p)')
      BY <3>2, <3>4, <3>5
    <3>7. wire' \in [Roles -> Seq(Written)]
      BY <2>1, <3>1, <3>3, <3>6
    <3>8. \A q \in Roles : \A i \in 1 .. Len(wire'[q]) :
             MessageKept(wire'[q][i], Known(q)) \/ MessageKept(wire'[q][i], Known(q)')
      BY <2>1, <3>1, <3>3, <3>6
    <3> QED
      BY <1>5, <2>1, <3>7, <3>8, WireStep
  <2> QED
    BY <2>2, <2>3
<1> QED
  BY <1>5, <1>6

\* An endpoint keeps its promises.
LEMMA OwnPromises ==
    ASSUME EndInv, NEW r \in Local
    PROVE  /\ Stays(ep[r], ep[r], Known(r))
           /\ ep[r] \in Conn /\ ep[r].role = r /\ ep[r].out = <<>>
BY DEF EndInv, Stays, Keeps

\* A thread leaves what it was inside of.
Returned(a) ==
    {[a EXCEPT !.run = Idle], [a EXCEPT !.read = Idle],
     [a EXCEPT !.expiry = Idle], [a EXCEPT !.user = Idle]}

\* What is true of a thread outside a handler, and of a call without a message.
LEMMA IdleThread ==
    /\ Idle \in Thread /\ Idle.msg = NoMessage /\ Idle.seen = "idle"
    /\ NoMessage # Anything /\ NoMessage \in Heeded /\ Timeout \in Heeded
    /\ \A k : MessageKept(NoMessage, k) /\ MessageKept(Timeout, k) /\ MessageKept(EOF, k)
    /\ \A c, k, s : s \in {"idle", "fired", "broken", "approve", "abort"} => SeenKept(c, s, k)
BY DEF Idle, NoMessage, Anything, Timeout, EOF, Control, Thread, MessageKept, SeenKept,
       Trusting, Past, Heeded

\* A thread that returns breaks no promise.
LEMMA ReturnKeeps ==
    ASSUME NEW a, NEW k, Stays(a, a, k), NEW b \in Returned(a)
    PROVE  Stays(b, b, k)
<1>1. a \in Conn /\ a.writeError = FALSE
  BY DEF Stays, Keeps
<1>2. b \in Conn /\ b.writeError = FALSE
  <2>1. Idle \in Thread
    BY IdleThread
  <2> QED
    BY <1>1, <2>1 DEF Conn, Returned
<1>3. CloseKept(b)
  BY <1>1, IdleThread DEF Stays, Keeps, Conn, CloseKept, Returned
<1>4. /\ b.role = a.role /\ b.state = a.state /\ b.trusted = a.trusted /\ b.out = a.out
      /\ b.consent = a.consent /\ b.requested = a.requested /\ b.reader = a.reader
      /\ b.setup = a.setup /\ b.buffered = a.buffered /\ b.delivered = a.delivered
      /\ b.run \in {a.run, Idle} /\ b.read \in {a.read, Idle}
      /\ b.expiry \in {a.expiry, Idle} /\ b.user \in {a.user, Idle}
  BY <1>1 DEF Conn, Returned
<1>5. \A s : SeenKept(a, s, k) => SeenKept(b, s, k)
  BY <1>4 DEF SeenKept
<1>6. ConsentKept(b, k)
  <2>1. /\ SeenKept(b, b.state, k) /\ SeenKept(b, b.run.seen, k)
        /\ SeenKept(b, b.read.seen, k) /\ SeenKept(b, b.expiry.seen, k)
    BY <1>4, <1>5, IdleThread DEF Stays, Keeps, ConsentKept
  <2>2. b.user.seen = "approve" => b.consent /\ b.role = "server"
    BY <1>4, IdleThread DEF Stays, Keeps, ConsentKept
  <2>3. /\ MessageKept(b.read.msg, k)
        /\ b.read.msg = Anything => {"consent", "data", "foreign"} \subseteq k
        /\ b.read.seen = "provider" => "foreign" \in k
    BY <1>4, IdleThread DEF Stays, Keeps, ConsentKept
  <2> QED
    BY <1>4, <2>1, <2>2, <2>3 DEF Stays, Keeps, ConsentKept
<1> QED
  BY <1>2, <1>3, <1>6 DEF Stays, Keeps

\* What a call makes of the endpoint its thread belongs to.
LEMMA CallBecomes ==
    ASSUME NEW a \in Conn, NEW b \in {a} \cup Returned(a), NEW c, NEW k, Leaves(b, c, k)
    PROVE  Becomes(a, c, k)
<1>1. /\ b.role = a.role /\ b.consent = a.consent /\ b.reader = a.reader
      /\ b.pinWrites = a.pinWrites /\ b.requested = a.requested /\ b.closing = a.closing
      /\ b.delivered = a.delivered /\ b.reported = a.reported
  BY DEF Conn, Returned
<1> QED
  BY <1>1 DEF Becomes, Moves, Leaves

\* The Run goroutine.
LEMMA RunBecomes ==
    ASSUME NEW r \in Local, EndInv, RunThread(r)
    PROVE  \E c : Update(r, c) /\ Becomes(ep[r], c, Known(r))
<1> DEFINE a == ep[r]
           k == Known(r)
<1>1. Stays(a, a, k) /\ a \in Conn /\ a.writeError = FALSE
  BY OwnPromises DEF Stays
<1> HIDE DEF a, k
<1>2. CASE RunInit(r)
  <2> DEFINE c == [a EXCEPT !.started = "pumps"]
  <2>1. c \in Conn /\ c.writeError = FALSE
    BY <1>1 DEF Conn
  <2>2. CloseKept(c)
    BY <1>1 DEF Stays, Keeps, Conn, CloseKept
  <2>3. ConsentKept(c, k)
    BY <1>1 DEF Stays, Keeps, Conn, ConsentKept, SeenKept, MessageKept
  <2>4. Becomes(a, c, k)
    BY <1>1, <2>1, <2>2, <2>3 DEF Becomes, Moves, Conn
  <2> QED
    BY <1>2, <2>4 DEF RunInit, a, k
<1>3. CASE RunSample(r)
  <2> DEFINE t == IF a.closing THEN Idle ELSE [msg |-> NoMessage, seen |-> a.state]
             c == [a EXCEPT !.started = "yes", !.run = t]
  <2>1. t \in Thread
    BY <1>1, IdleThread DEF Conn, Thread
  <2>2. SeenKept(a, t.seen, k)
    BY <1>1, IdleThread DEF Stays, Keeps, ConsentKept
  <2>3. c = [a EXCEPT !.started = "yes", !.run = t]
    OBVIOUS
  <2> HIDE DEF t, c
  <2>4. c \in Conn /\ c.writeError = FALSE
    BY <1>1, <2>1, <2>3 DEF Conn
  <2>5. CloseKept(c)
    BY <1>1, <2>3 DEF Stays, Keeps, Conn, CloseKept
  <2>6. ConsentKept(c, k)
    BY <1>1, <2>2, <2>3 DEF Stays, Keeps, Conn, ConsentKept, SeenKept, MessageKept
  <2>7. Becomes(a, c, k)
    BY <1>1, <2>3, <2>4, <2>5, <2>6 DEF Becomes, Moves, Conn
  <2> QED
    BY <1>3, <2>7 DEF RunSample, a, k, c, t
<1>4. CASE RunAct(r)
  <2> DEFINE b == [a EXCEPT !.run = Idle]
  <2>1. b \in Returned(a) /\ b.consent = a.consent /\ b.role = a.role
    BY <1>1 DEF Returned, Conn
  <2>2. Stays(b, b, k) /\ SeenKept(b, a.run.seen, k)
    BY <1>1, <2>1, ReturnKeeps DEF Stays, Keeps, ConsentKept, SeenKept
  <2>3. PICK allowed, ok : Update(r, HandleState(b, a.run.seen, NoMessage, allowed, ok))
    BY <1>4 DEF RunAct, a
  <2> HIDE DEF b
  <2>4. Leaves(b, HandleState(b, a.run.seen, NoMessage, allowed, ok), k)
    BY <2>2, HandleStateStays, IdleThread
  <2> QED
    BY <1>1, <2>1, <2>3, <2>4, CallBecomes DEF a, k
<1> QED
  BY <1>2, <1>3, <1>4 DEF RunThread

\* The read pump, once it has its message.
LEMMA ReadBecomes ==
    ASSUME NEW r \in Local, EndInv, ReadEOF(r) \/ ErrorSample(r) \/ ReadAct(r) \/ ProvidePin(r)
    PROVE  \E c : Update(r, c) /\ Becomes(ep[r], c, Known(r))
<1> DEFINE a == ep[r]
           k == Known(r)
           b == [a EXCEPT !.read = Idle]
<1>1. Stays(a, a, k) /\ a \in Conn /\ a.writeError = FALSE
  BY OwnPromises DEF Stays
<1> HIDE DEF a, k
<1>2. /\ b \in Returned(a) /\ b.consent = a.consent /\ b.role = a.role
      /\ b.pinSent = a.pinSent /\ b.read = Idle
  BY <1>1 DEF Returned, Conn
<1>3. Stays(b, b, k) /\ SeenKept(b, a.read.seen, k) /\ b.pinWrites = a.pinWrites
  <2>1. Stays(b, b, k) /\ b.pinWrites = a.pinWrites
    BY <1>1, <1>2, ReturnKeeps DEF Conn
  <2>2. SeenKept(a, a.read.seen, k)
    BY <1>1 DEF Stays, Keeps, ConsentKept
  <2> QED
    BY <1>2, <2>1, <2>2 DEF SeenKept
<1>4. CASE ReadEOF(r)
  <2> DEFINE t == [msg |-> EOF, seen |-> "broken"]
             c == [a EXCEPT !.sock = "breaking", !.read = t]
  <2>1. t \in Thread /\ t.msg = EOF /\ t.seen = "broken" /\ EOF # Anything
    BY DEF Thread, EOF, Anything, Control
  <2>2. a.sock = "open"
    BY <1>4 DEF ReadEOF, a
  <2>3. SeenKept(a, t.seen, k) /\ MessageKept(t.msg, k)
    BY <2>1, IdleThread
  <2> HIDE DEF t
  <2>4. c \in Conn /\ c.writeError = FALSE
    BY <1>1, <2>1 DEF Conn
  <2>5. CloseKept(c)
    BY <1>1, <2>1, <2>2 DEF Stays, Keeps, Conn, CloseKept
  <2>6. ConsentKept(c, k)
    BY <1>1, <2>1, <2>3 DEF Stays, Keeps, Conn, ConsentKept, SeenKept, MessageKept
  <2>7. Becomes(a, c, k)
    BY <1>1, <2>4, <2>5, <2>6 DEF Becomes, Moves, Conn
  <2> QED
    BY <1>4, <2>7 DEF ReadEOF, a, k, t
<1>5. CASE ErrorSample(r)
  <2> DEFINE t == [a.read EXCEPT !.seen = a.state]
             c == [a EXCEPT !.sock = "closed", !.read = t]
  <2>1. t \in Thread /\ t.msg = a.read.msg /\ t.seen = a.state
    BY <1>1 DEF Conn, Thread
  <2>2. SeenKept(a, t.seen, k) /\ MessageKept(t.msg, k)
    BY <1>1, <2>1 DEF Stays, Keeps, ConsentKept
  <2>3. [a EXCEPT !.sock = "closed", !.read.seen = a.state] = c
    BY <1>1 DEF Conn
  <2>4. t.seen # "provider"
    BY <1>1, <2>1 DEF Conn, States
  <2> HIDE DEF t
  <2>5. c \in Conn /\ c.writeError = FALSE
    BY <1>1, <2>1 DEF Conn
  <2>6. CloseKept(c)
    BY <1>1, <2>1, <2>4 DEF Stays, Keeps, Conn, CloseKept
  <2>7. ConsentKept(c, k)
    BY <1>1, <2>1, <2>2, <2>4 DEF Stays, Keeps, Conn, ConsentKept, SeenKept, MessageKept
  <2>8. Becomes(a, c, k)
    BY <1>1, <2>5, <2>6, <2>7 DEF Becomes, Moves, Conn
  <2>9. Update(r, c)
    BY <1>5, <2>3 DEF ErrorSample, a
  <2> QED
    BY <2>8, <2>9 DEF a, k
<1>6. CASE ReadAct(r)
  <2>1. PICK m, allowed, ok : /\ m \in Content(a.read.msg)
                               /\ Update(r, Received(b, a.read.seen, m, allowed, ok))
    BY <1>6 DEF ReadAct, a
  <2>2. m \in Heeded /\ MessageKept(m, k)
    <3>1. /\ a.read.msg \in Messages \cup {NoMessage, Anything, Timeout, EOF}
          /\ MessageKept(a.read.msg, k)
          /\ a.read.msg = Anything => {"consent", "data", "foreign"} \subseteq k
      BY <1>1 DEF Stays, Keeps, ConsentKept, Conn, Thread
    <3> QED
      BY <2>1, <3>1 DEF Content, Heeded, MessageKept
  <2> HIDE DEF b
  <2>3. Leaves(b, Received(b, a.read.seen, m, allowed, ok), k)
    BY <1>3, <2>2, ReceivedStays
  <2> QED
    BY <1>1, <1>2, <2>1, <2>3, CallBecomes DEF a, k
<1>7. CASE ProvidePin(r)
  <2>1. PICK outcome : Update(r, PinProvided(b, a.read.msg, outcome))
    BY <1>7 DEF ProvidePin, a
  <2>2. a.read.seen = "provider"
    BY <1>7 DEF ProvidePin, a
  <2>3. b.pinSent = FALSE
    BY <1>1, <1>2, <2>2 DEF Stays, Keeps, CloseKept, Conn
  <2>4. Passed(b, k)
    BY <1>3, <2>2 DEF SeenKept, Passed
  <2>5. /\ b.reader = a.reader /\ b.closing = a.closing /\ b.requested = a.requested
        /\ b.delivered = a.delivered /\ b.reported = a.reported
    BY <1>1 DEF Conn
  <2> HIDE DEF b
  <2>6. Becomes(b, PinProvided(b, a.read.msg, outcome), k)
    BY <1>2, <1>3, <2>3, <2>4, PinProvidedBecomes
  <2>7. Becomes(a, PinProvided(b, a.read.msg, outcome), k)
    BY <1>2, <1>3, <2>5, <2>6 DEF Becomes, Moves
  <2> QED
    BY <2>1, <2>7 DEF a, k
<1> QED
  BY <1>4, <1>5, <1>6, <1>7

\* The timer's callback.
LEMMA TimerBecomes ==
    ASSUME NEW r \in Local, EndInv, TimerExpire(r) \/ TimerThread(r)
    PROVE  \E c : Update(r, c) /\ Becomes(ep[r], c, Known(r))
<1> DEFINE a == ep[r]
           k == Known(r)
<1>1. Stays(a, a, k) /\ a \in Conn /\ a.writeError = FALSE
  BY OwnPromises DEF Stays
<1> HIDE DEF a, k
<1>2. CASE TimerExpire(r)
  <2> DEFINE t == [msg |-> Timeout, seen |-> "fired"]
             c == [a EXCEPT !.timer = FALSE, !.expiry = t]
  <2>1. t \in Thread /\ t.seen = "fired"
    BY DEF Thread
  <2>2. a.timer /\ ~a.closing /\ SeenKept(a, t.seen, k)
    BY <1>1, <1>2, <2>1, IdleThread DEF TimerExpire, Stays, Keeps, CloseKept, a
  <2>3. [StopTimer(a) EXCEPT !.expiry = t] = c
    BY <1>1 DEF StopTimer, Conn
  <2> HIDE DEF t
  <2>4. c \in Conn /\ c.writeError = FALSE
    BY <1>1, <2>1 DEF Conn
  <2>5. CloseKept(c)
    BY <1>1, <2>2 DEF Stays, Keeps, Conn, CloseKept
  <2>6. ConsentKept(c, k)
    BY <1>1, <2>2 DEF Stays, Keeps, Conn, ConsentKept, SeenKept, MessageKept
  <2>7. Becomes(a, c, k)
    BY <1>1, <2>4, <2>5, <2>6 DEF Becomes, Moves, Conn
  <2> QED
    BY <1>2, <2>3, <2>7 DEF TimerExpire, a, k, t
<1>3. CASE TimerSample(r)
  <2> DEFINE t == IF a.closing THEN Idle ELSE [msg |-> Timeout, seen |-> a.state]
             c == [a EXCEPT !.expiry = t]
  <2>1. t \in Thread
    BY <1>1, IdleThread DEF Conn, Thread
  <2>2. SeenKept(a, t.seen, k) /\ (a.closing => t = Idle)
    BY <1>1, IdleThread DEF Stays, Keeps, ConsentKept
  <2> HIDE DEF t
  <2>3. c \in Conn /\ c.writeError = FALSE
    BY <1>1, <2>1 DEF Conn
  <2>4. CloseKept(c)
    BY <1>1, <2>2 DEF Stays, Keeps, Conn, CloseKept
  <2>5. ConsentKept(c, k)
    BY <1>1, <2>2 DEF Stays, Keeps, Conn, ConsentKept, SeenKept, MessageKept
  <2>6. Becomes(a, c, k)
    BY <1>1, <2>3, <2>4, <2>5 DEF Becomes, Moves, Conn
  <2> QED
    BY <1>3, <2>6 DEF TimerSample, a, k, t
<1>4. CASE TimerAct(r)
  <2> DEFINE b == [a EXCEPT !.expiry = Idle]
  <2>1. b \in Returned(a) /\ b.consent = a.consent /\ b.role = a.role
    BY <1>1 DEF Returned, Conn
  <2>2. Stays(b, b, k) /\ SeenKept(b, a.expiry.seen, k)
    BY <1>1, <2>1, ReturnKeeps DEF Stays, Keeps, ConsentKept, SeenKept
  <2>3. PICK allowed : Update(r, HandleState(b, a.expiry.seen, Timeout, allowed, TRUE))
    BY <1>4 DEF TimerAct, a
  <2> HIDE DEF b
  <2>4. \A ok : Leaves(b, HandleState(b, a.expiry.seen, Timeout, allowed, ok), k)
    BY <2>2, HandleStateStays, IdleThread
  <2>5. Leaves(b, HandleState(b, a.expiry.seen, Timeout, allowed, TRUE), k)
    BY <2>4
  <2> QED
    BY <1>1, <2>1, <2>3, <2>5, CallBecomes DEF a, k
<1> QED
  BY <1>2, <1>3, <1>4 DEF TimerThread

\* The user registers the peer or refuses it, and the rest of either call.
LEMMA UserBecomes ==
    ASSUME NEW r \in Local, EndInv, Approve(r) \/ AbortPending(r) \/ UserThread(r)
    PROVE  \E c : Update(r, c) /\ Becomes(ep[r], c, Known(r))
<1> DEFINE a == ep[r]
           k == Known(r)
           b == [a EXCEPT !.user = Idle]
<1>1. Stays(a, a, k) /\ a \in Conn /\ a.writeError = FALSE /\ a.role = r
  BY OwnPromises DEF Stays
<1> HIDE DEF a, k
<1>2. /\ b \in Returned(a) /\ b.consent = a.consent /\ b.role = a.role
      /\ Stays(b, b, k)
  <2>1. b \in Returned(a)
    BY DEF Returned
  <2> QED
    BY <1>1, <2>1, ReturnKeeps DEF Conn
<1>3. CASE Approve(r)
  <2> DEFINE c == [a EXCEPT !.trusted = TRUE, !.consent = TRUE]
             q == [c EXCEPT !.requested = TRUE]
             u == [c EXCEPT !.user = [msg |-> NoMessage, seen |-> "approve"]]
  <2>1. /\ c \in Conn /\ c.writeError = FALSE /\ c.consent = TRUE
        /\ c.role = a.role /\ c.reader = a.reader /\ c.pinWrites = a.pinWrites
        /\ c.state = a.state /\ c.requested = a.requested /\ c.delivered = a.delivered
        /\ c.closing = a.closing /\ c.reported = a.reported
    BY <1>1 DEF Conn
  <2>2. CloseKept(c)
    BY <1>1 DEF Stays, Keeps, Conn, CloseKept
  <2>3. ConsentKept(c, k)
    BY <1>1 DEF Stays, Keeps, Conn, ConsentKept, SeenKept, MessageKept
  <2>4. Stays(c, c, k)
    BY <2>1, <2>2, <2>3 DEF Stays, Keeps
  <2>5. /\ c.state = "Approved" => Passed(c, k)
        /\ c.state = "PendingListen" => c.role = "server"
    BY <2>1, <2>3 DEF ConsentKept, SeenKept, Passed, Trusting, Past
  <2> HIDE DEF c
  <2>6. /\ q \in Conn /\ q.writeError = FALSE /\ q.role = c.role /\ q.consent = c.consent
        /\ q.reader = c.reader /\ q.pinWrites = c.pinWrites /\ q.requested = TRUE
        /\ q.delivered = c.delivered /\ q.closing = c.closing /\ q.reported = c.reported
    BY <2>1 DEF Conn
  <2>7. Stays(q, q, k)
    <3>1. CloseKept(q)
      BY <2>1, <2>2 DEF Conn, CloseKept
    <3>2. ConsentKept(q, k)
      BY <2>1, <2>3 DEF Conn, ConsentKept, SeenKept, MessageKept
    <3> QED
      BY <2>6, <3>1, <3>2 DEF Stays, Keeps
  <2>8. c.state = "PendingListen" => Becomes(a, u, k)
    <3>1. [msg |-> NoMessage, seen |-> "approve"] \in Thread
      BY DEF Thread
    <3>2. u \in Conn /\ u.writeError = FALSE
      BY <2>1, <3>1 DEF Conn
    <3>3. CloseKept(u)
      BY <2>1, <2>2 DEF Conn, CloseKept
    <3>4. c.state = "PendingListen" => ConsentKept(u, k)
      BY <2>1, <2>3, <2>5 DEF Conn, ConsentKept, SeenKept, MessageKept
    <3> QED
      BY <2>1, <3>2, <3>3, <3>4 DEF Becomes, Moves, Conn
  <2> HIDE DEF q, u
  <2>9. ASSUME NEW d, NEW e \in {c, q}, Leaves(e, d, k), e.reader => d.delivered = e.delivered
        PROVE  Becomes(a, d, k)
    BY <2>1, <2>6, <2>9 DEF Becomes, Moves, Leaves
  <2>10. PICK ok \in Setups(ep[r]) :
            Update(r, CASE r \in RequireApproval -> ApproveRequired(c, ok)
                        [] r \notin RequireApproval /\ c.state = "PendingListen" -> u
                        [] OTHER -> c)
    BY <1>3 DEF Approve, a, c, u
  <2>11. CASE r \in RequireApproval
    <3>1. ApproveRequired(c, ok) \in {c, q}
             \/ (c.state = "Approved" /\ ApproveRequired(c, ok) = ApproveHandshake(q, ok))
      BY DEF ApproveRequired, q
    <3>2. c.state = "Approved" =>
             /\ Leaves(q, ApproveHandshake(q, ok), k)
             /\ q.reader => ApproveHandshake(q, ok).delivered = q.delivered
      BY <2>5, <2>6, <2>7, ApproveStays DEF Passed
    <3>3. Becomes(a, ApproveRequired(c, ok), k)
      BY <2>4, <2>7, <2>9, <3>1, <3>2, StaysLeaves
    <3> QED
      BY <2>10, <2>11, <3>3 DEF a, k
  <2>12. CASE r \notin RequireApproval /\ c.state = "PendingListen"
    BY <2>8, <2>10, <2>12 DEF a, k
  <2>13. CASE r \notin RequireApproval /\ c.state # "PendingListen"
    <3>1. Becomes(a, c, k)
      BY <2>4, <2>9, StaysLeaves
    <3> QED
      BY <2>10, <2>13, <3>1 DEF a, k
  <2> QED
    BY <2>11, <2>12, <2>13
<1>4. CASE ApproveAct(r)
  <2> DEFINE c == HelloOk(ReadyInit(StopTimer(b)))
  <2>1. a.consent /\ a.role = "server"
    BY <1>1, <1>4 DEF ApproveAct, a, Stays, Keeps, ConsentKept
  <2>2. Passed(b, k)
    BY <1>2, <2>1 DEF Passed
  <2>3. Update(r, c)
    BY <1>4 DEF ApproveAct, a
  <2> HIDE DEF b
  <2>4. Stays(b, c, k)
    BY <1>2, <2>1, <2>2, Primitives, ReadyInitStays, HelloOkStays
  <2> HIDE DEF c
  <2> QED
    BY <1>1, <1>2, <2>3, <2>4, CallBecomes, StaysLeaves DEF a, k
<1>5. CASE AbortPending(r)
  <2> DEFINE t == [msg |-> NoMessage, seen |-> "abort"]
             c == [a EXCEPT !.user = t]
  <2>1. t \in Thread /\ t.seen = "abort"
    BY DEF Thread
  <2> HIDE DEF t
  <2>2. c \in Conn /\ c.writeError = FALSE
    BY <1>1, <2>1 DEF Conn
  <2>3. CloseKept(c)
    BY <1>1 DEF Stays, Keeps, Conn, CloseKept
  <2>4. ConsentKept(c, k)
    BY <1>1, <2>1 DEF Stays, Keeps, Conn, ConsentKept, SeenKept, MessageKept
  <2>5. Becomes(a, c, k)
    BY <1>1, <2>2, <2>3, <2>4 DEF Becomes, Moves, Conn
  <2>6. Stays(a, CloseConnection(a, FALSE), k)
    BY <1>1, Primitives
  <2>7. Becomes(a, CloseConnection(a, FALSE), k) /\ Becomes(a, a, k)
    BY <1>1, <2>6, CallBecomes, StaysLeaves
  <2>8. Update(r, CloseConnection(a, FALSE)) \/ Update(r, c) \/ Update(r, a)
    BY <1>5 DEF AbortPending, a, t
  <2> HIDE DEF c
  <2> QED
    BY <2>5, <2>7, <2>8 DEF a, k
<1>6. CASE AbortAct(r)
  <2>1. Update(r, HelloAbort(StopTimer(b)))
    BY <1>6 DEF AbortAct, a
  <2> HIDE DEF b
  <2>2. Stays(b, HelloAbort(StopTimer(b)), k)
    BY <1>2, Primitives, AbortStays
  <2> QED
    BY <1>1, <1>2, <2>1, <2>2, CallBecomes, StaysLeaves DEF a, k
<1> QED
  BY <1>3, <1>4, <1>5, <1>6 DEF UserThread

\* The hub closes, the delayed close of an abort, and the SPINE device sends.
LEMMA HubBecomes ==
    ASSUME NEW r \in Local, EndInv, UserClose(r) \/ DelayedClose(r) \/ SendSpine(r)
    PROVE  \E c : Update(r, c) /\ Becomes(ep[r], c, Known(r))
<1> DEFINE a == ep[r]
           k == Known(r)
<1>1. Stays(a, a, k) /\ a \in Conn /\ a.writeError = FALSE
  BY OwnPromises DEF Stays
<1> HIDE DEF a, k
<1>2. CASE UserClose(r)
  <2>1. PICK safe : Update(r, CloseConnection(a, safe))
    BY <1>2 DEF UserClose, a
  <2>2. /\ Keeps(a, CloseConnection(a, safe), k)
        /\ CloseConnection(a, safe).writeError = a.writeError
    BY <1>1, CloseKeeps DEF Stays
  <2>3. Becomes(a, CloseConnection(a, safe), k)
    BY <1>1, <2>2, CallBecomes, StaysLeaves DEF Stays
  <2> QED
    BY <2>1, <2>3 DEF a, k
<1>3. CASE DelayedClose(r)
  <2> DEFINE b == [a EXCEPT !.delayed = FALSE]
  <2>1. /\ b \in Conn /\ b.writeError = FALSE /\ b.role = a.role /\ b.consent = a.consent
        /\ b.reader = a.reader /\ b.pinWrites = a.pinWrites /\ b.requested = a.requested
        /\ b.delivered = a.delivered /\ b.closing = a.closing /\ b.reported = a.reported
    BY <1>1 DEF Conn
  <2>2. CloseKept(b)
    BY <1>1 DEF Stays, Keeps, Conn, CloseKept
  <2>3. ConsentKept(b, k)
    BY <1>1 DEF Stays, Keeps, Conn, ConsentKept, SeenKept, MessageKept
  <2>4. Stays(b, b, k)
    BY <2>1, <2>2, <2>3 DEF Stays, Keeps
  <2>5. Update(r, CloseConnection(b, FALSE))
    BY <1>3 DEF DelayedClose, a
  <2> HIDE DEF b
  <2>6. Stays(b, CloseConnection(b, FALSE), k)
    BY <2>4, Primitives
  <2>7. Becomes(a, CloseConnection(b, FALSE), k)
    BY <2>1, <2>6 DEF Becomes, Moves, Stays, Keeps
  <2> QED
    BY <2>5, <2>7 DEF a, k
<1>4. CASE SendSpine(r)
  <2> DEFINE b == [a EXCEPT !.sent = @ + 1]
  <2>1. a.sent + 1 \in 0 .. MaxData /\ a.reader
    BY <1>1, <1>4, BoundAssumption DEF SendSpine, a, Conn, Stays, Keeps, ConsentKept
  <2>2. /\ b \in Conn /\ b.writeError = FALSE /\ b.role = a.role /\ b.consent = a.consent
        /\ b.reader = a.reader /\ b.pinWrites = a.pinWrites /\ b.requested = a.requested
        /\ b.delivered = a.delivered /\ b.closing = a.closing /\ b.reported = a.reported
    BY <1>1, <2>1 DEF Conn
  <2>3. CloseKept(b)
    BY <1>1 DEF Stays, Keeps, Conn, CloseKept
  <2>4. ConsentKept(b, k)
    BY <1>1 DEF Stays, Keeps, Conn, ConsentKept, SeenKept, MessageKept
  <2>5. Stays(b, b, k)
    BY <2>2, <2>3, <2>4 DEF Stays, Keeps
  <2>6. MaySend(b, Control("datagram"))
    BY <2>1, <2>2 DEF MaySend, Written, Control
  <2>7. Update(r, NoError(Write(b, Control("datagram"))))
    BY <1>4 DEF SendSpine, a
  <2> HIDE DEF b
  <2>8. Stays(b, NoError(Write(b, Control("datagram"))), k)
    BY <2>5, <2>6, Primitives
  <2>9. Becomes(a, NoError(Write(b, Control("datagram"))), k)
    BY <2>2, <2>8 DEF Becomes, Moves, Stays, Keeps
  <2> QED
    BY <2>7, <2>9 DEF a, k
<1> QED
  BY <1>2, <1>3, <1>4

\* The two wires as a function.
LEMMA TwoWires ==
    ASSUME NEW S, NEW x \in S, NEW y \in S
    PROVE  /\ [client |-> x, server |-> y] \in [Roles -> S]
           /\ [client |-> x, server |-> y]["client"] = x
           /\ [client |-> x, server |-> y]["server"] = y
BY DEF Roles

\* A prefix of a wire.
LEMMA PrefixKept ==
    ASSUME NEW w \in Seq(Written), NEW n \in 0 .. Len(w), NEW k,
           \A x \in 1 .. Len(w) : MessageKept(w[x], k)
    PROVE  /\ SubSeq(w, 1, n) \in Seq(Written)
           /\ \A x \in 1 .. Len(SubSeq(w, 1, n)) : MessageKept(SubSeq(w, 1, n)[x], k)
<1>1. Len(w) \in Nat /\ n \in Nat /\ n <= Len(w)
  OBVIOUS
<1>2. /\ SubSeq(w, 1, n) \in Seq(Written) /\ Len(SubSeq(w, 1, n)) = n
      /\ \A x \in 1 .. n : SubSeq(w, 1, n)[x] = w[x]
  BY <1>1
<1>3. \A x \in 1 .. n : x \in 1 .. Len(w)
  BY <1>1
<1> QED
  BY <1>2, <1>3

\* Nothing is on the wire but what was there.
LEMMA BreakLinkStep ==
    ASSUME WireInv, BreakLink, \A q \in Roles : Known(q) \subseteq Known(q)'
    PROVE  WireInv'
<1>1. CASE link = "down"
  <2>1. wire' = wire /\ link' = "down"
    BY <1>1 DEF BreakLink
  <2> QED
    BY <2>1, WireStep DEF WireInv
<1>2. CASE link # "down"
  <2>1. PICK i \in 0 .. Len(wire["client"]), j \in 0 .. Len(wire["server"]) :
           wire' = [client |-> SubSeq(wire["client"], 1, i),
                    server |-> SubSeq(wire["server"], 1, j)]
    BY <1>2 DEF BreakLink
  <2>2. /\ link' = "down" /\ wire["client"] \in Seq(Written) /\ wire["server"] \in Seq(Written)
        /\ \A x \in 1 .. Len(wire["client"]) : MessageKept(wire["client"][x], Known("client"))
        /\ \A x \in 1 .. Len(wire["server"]) : MessageKept(wire["server"][x], Known("server"))
    BY DEF BreakLink, WireInv, Roles
  <2> DEFINE cs == SubSeq(wire["client"], 1, i)
             ss == SubSeq(wire["server"], 1, j)
  <2>3. cs \in Seq(Written) /\ \A x \in 1 .. Len(cs) : MessageKept(cs[x], Known("client"))
    BY <2>2, PrefixKept
  <2>4. ss \in Seq(Written) /\ \A x \in 1 .. Len(ss) : MessageKept(ss[x], Known("server"))
    BY <2>2, PrefixKept
  <2>5. wire' = [client |-> cs, server |-> ss]
    BY <2>1
  <2> HIDE DEF cs, ss
  <2>6. /\ wire' \in [Roles -> Seq(Written)]
        /\ wire'["client"] = cs /\ wire'["server"] = ss
    BY <2>3, <2>4, <2>5, TwoWires
  <2>7. /\ \A x \in 1 .. Len(wire'["client"]) : MessageKept(wire'["client"][x], Known("client"))
        /\ \A x \in 1 .. Len(wire'["server"]) : MessageKept(wire'["server"][x], Known("server"))
    BY <2>3, <2>4, <2>6
  <2>8. \A q \in Roles : \A x \in 1 .. Len(wire'[q]) : MessageKept(wire'[q][x], Known(q))
    BY <2>7 DEF Roles
  <2> QED
    BY <2>2, <2>6, <2>8, WireStep
<1> QED
  BY <1>1, <1>2

\* The websocket is closed and the hub is told.
LEMMA CloseDataStep ==
    ASSUME Inv, NEW r \in Local, CloseData(r), ep[r].finish \in {"plain", "grace"},
           ep[r].expiry = Idle
    PROVE  Inv' /\ OneMoves
<1> DEFINE a == ep[r]
           c == [a EXCEPT !.sock = "closed", !.finish = "done", !.reported = @ + 1]
<1>1. Stays(a, a, Known(r)) /\ a \in Conn /\ a.writeError = FALSE /\ a.out = <<>>
  BY OwnPromises DEF Inv, Stays
<1>2. a.finish \in {"plain", "grace"} /\ a.expiry = Idle
  OBVIOUS
<1>3. ep' = [ep EXCEPT ![r] = c]
  BY DEF CloseData
<1> HIDE DEF a
<1>4. a.reported = 0 /\ a.closing
  BY <1>1, <1>2 DEF Stays, Keeps, CloseKept
<1>5. c \in Conn /\ c.writeError = FALSE /\ c.out = <<>>
  <2>1. a.reported + 1 = 1 /\ 1 \in Nat
    BY <1>4
  <2> QED
    BY <1>1, <2>1 DEF Conn
<1>6. CloseKept(c)
  BY <1>1, <1>2, <1>4 DEF Stays, Keeps, Conn, CloseKept
<1>7. ConsentKept(c, Known(r))
  BY <1>1 DEF Stays, Keeps, Conn, ConsentKept, SeenKept, MessageKept
<1>8. Becomes(a, c, Known(r))
  BY <1>1, <1>4, <1>5, <1>6, <1>7 DEF Becomes, Moves, Conn
<1> HIDE DEF c
<1>9. EndInv' /\ OneMoves /\ \A q \in Roles : Known(q) \subseteq Known(q)'
  BY <1>3, <1>5, <1>8, EndStep DEF Inv, a
<1>10. WireInv'
  BY <1>9, BreakLinkStep DEF Inv, CloseData
<1> QED
  BY <1>9, <1>10 DEF Inv

\* A write of the PIN that fails leaves the reader stuck and the close unclaimed.
LEMMA PinFailsStep ==
    ASSUME Inv, NEW r \in Local, PinWriteFails(r)
    PROVE  Inv' /\ OneMoves
<1> DEFINE a == ep[r]
           k == Known(r)
           s == SetState(a, "Error")
           t == [s.read EXCEPT !.seen = "stuck"]
           c == [s EXCEPT !.pinSent = TRUE, !.sock = "closed", !.read = t]
<1>1. Stays(a, a, k) /\ a \in Conn /\ a.out = <<>>
  BY OwnPromises DEF Inv
<1>2. ~a.closing /\ ep' = [ep EXCEPT ![r] = [s EXCEPT !.pinSent = TRUE, !.sock = "closed",
                                                      !.read.seen = "stuck"]]
  BY DEF PinWriteFails
<1>3. s.out = <<>> /\ s.read = a.read
  BY <1>1 DEF SetState, Report, TimerFor, StartTimer, StopTimer, Conn
<1>4. MayReach(a, "Error", k)
  BY DEF MayReach, States, Trusting, Past
<1> HIDE DEF a, k
<1>5. Keeps(a, s, k) /\ s.closing = a.closing /\ s.writeError = FALSE
  BY <1>1, <1>4, SetStateKeeps DEF Stays
<1> HIDE DEF s
<1>6. s \in Conn
  BY <1>5 DEF Keeps
<1>7. t \in Thread /\ t.msg = s.read.msg /\ t.seen = "stuck" /\ SeenKept(s, t.seen, k)
  BY <1>6 DEF Conn, Thread, SeenKept, Trusting, Past
<1>8. ep' = [ep EXCEPT ![r] = c]
  BY <1>2, <1>6 DEF Conn
<1> HIDE DEF t
<1>9. c \in Conn /\ c.writeError = FALSE /\ c.out = <<>>
  BY <1>3, <1>5, <1>6, <1>7 DEF Conn
<1>10. CloseKept(c)
  BY <1>2, <1>5, <1>6, <1>7 DEF Keeps, Conn, CloseKept
<1>11. ConsentKept(c, k)
  BY <1>5, <1>6, <1>7 DEF Keeps, Conn, ConsentKept, SeenKept, MessageKept
<1>12. Becomes(a, c, k)
  BY <1>2, <1>5, <1>6, <1>9, <1>10, <1>11 DEF Keeps, Becomes, Moves, Conn
<1> HIDE DEF c
<1>13. EndInv' /\ OneMoves /\ \A q \in Roles : Known(q) \subseteq Known(q)'
  BY <1>8, <1>9, <1>12, EndStep DEF Inv, a, k
<1>14. WireInv'
  BY <1>13, BreakLinkStep DEF Inv, PinWriteFails
<1> QED
  BY <1>13, <1>14 DEF Inv

\* The rest of a close.
LEMMA CloseStep ==
    ASSUME Inv, NEW r \in Local, CloseThread(r)
    PROVE  Inv' /\ OneMoves
<1> DEFINE a == ep[r]
<1>1. Stays(a, a, Known(r)) /\ a \in Conn /\ a.writeError = FALSE /\ a.out = <<>>
  BY OwnPromises DEF Inv, Stays
<1>2. CASE CloseData(r) /\ a.finish = "plain" /\ TimersQuiet(a)
  BY <1>2, CloseDataStep DEF TimersQuiet
<1>3. CASE GraceClose(r)
  <2>1. a.expiry = Idle
    BY <1>1, <1>3 DEF GraceClose, Stays, Keeps, CloseKept
  <2> QED
    BY <1>3, <2>1, CloseDataStep DEF GraceClose
<1>4. CASE FinishClose(r) /\ a.finish # "plain"
  <2> DEFINE o == IF a.sock = "open" THEN <<Control("announce")>> ELSE <<>>
             c == [a EXCEPT !.finish = "grace", !.out = o]
  <2>1. Update(r, c) /\ a.finish = "announce" /\ a.expiry = Idle
    BY <1>4 DEF FinishClose, TimersQuiet
  <2>2. o \in Seq(Written) /\ \A i \in 1 .. Len(o) : o[i] = Control("announce")
    <3>1. Control("announce") \in Written
      BY DEF Written
    <3> QED
      BY <3>1
  <2> HIDE DEF a, o
  <2>3. c \in Conn /\ c.writeError = FALSE
    BY <1>1, <2>2 DEF Conn
  <2>4. CloseKept(c)
    BY <1>1, <2>1 DEF Stays, Keeps, Conn, CloseKept
  <2>5. \A i \in 1 .. Len(c.out) :
           /\ c.out[i].phase = "ready" => c.consent
           /\ c.out[i].phase = "datagram" => c.reader
    <3>1. c.out = o
      BY <1>1 DEF Conn
    <3> QED
      BY <2>2, <3>1 DEF Control
  <2>6. ConsentKept(c, Known(r))
    BY <1>1, <2>5 DEF Stays, Keeps, Conn, ConsentKept, SeenKept, MessageKept
  <2>7. Becomes(a, c, Known(r))
    BY <1>1, <2>3, <2>4, <2>6 DEF Becomes, Moves, Conn
  <2> HIDE DEF c
  <2> QED
    BY <2>1, <2>7, UpdateStep DEF a
<1> QED
  BY <1>2, <1>3, <1>4 DEF CloseThread, FinishClose

\* The read pump takes a message of a local peer, or one of a foreign peer.
LEMMA TakeStep ==
    ASSUME Inv, NEW r \in Local, ReadSample(r) \/ ForeignSend(r)
    PROVE  Inv' /\ OneMoves
<1> DEFINE a == ep[r]
<1>1. /\ Stays(a, a, Known(r)) /\ a \in Conn /\ a.writeError = FALSE /\ a.out = <<>>
      /\ r \in Roles
  BY OwnPromises, LocalRoles DEF Inv, EndInv, Stays
<1> HIDE DEF a
<1>2. ASSUME NEW m \in Messages \cup {Anything}, MessageKept(m, Known(r)),
             m = Anything => {"consent", "data", "foreign"} \subseteq Known(r),
             ep' = [ep EXCEPT ![r] = [a EXCEPT !.read = [msg |-> m, seen |-> a.state]]]
      PROVE  EndInv' /\ OneMoves /\ \A q \in Roles : Known(q) \subseteq Known(q)'
  <2> DEFINE t == [msg |-> m, seen |-> a.state]
             c == [a EXCEPT !.read = t]
  <2>1. t \in Thread /\ t.msg = m /\ t.seen = a.state
    BY <1>1 DEF Conn, Thread
  <2>2. t.seen # "provider" /\ SeenKept(a, t.seen, Known(r))
    BY <1>1, <2>1 DEF Conn, States, Stays, Keeps, ConsentKept
  <2> HIDE DEF t
  <2>3. c \in Conn /\ c.writeError = FALSE /\ c.out = <<>>
    BY <1>1, <2>1 DEF Conn
  <2>4. CloseKept(c)
    BY <1>1, <2>2 DEF Stays, Keeps, Conn, CloseKept
  <2>5. ConsentKept(c, Known(r))
    BY <1>1, <1>2, <2>1, <2>2 DEF Stays, Keeps, Conn, ConsentKept, SeenKept, MessageKept
  <2>6. Becomes(a, c, Known(r))
    BY <1>1, <2>3, <2>4, <2>5 DEF Becomes, Moves, Conn
  <2>7. ep' = [ep EXCEPT ![r] = c]
    BY <1>2 DEF t
  <2> HIDE DEF c
  <2> QED
    BY <2>3, <2>6, <2>7, EndStep DEF Inv, a
<1>3. CASE ReadSample(r)
  <2> DEFINE w == wire[r]
  <2>1. /\ wire \in [Roles -> Seq(Written)] /\ link \in {"up", "down"} /\ link' = link
        /\ w \in Seq(Written) /\ w # <<>> /\ wire' = [wire EXCEPT ![r] = Tail(w)]
        /\ ep' = [ep EXCEPT ![r] = [a EXCEPT !.read = [msg |-> Head(w), seen |-> a.state]]]
    BY <1>1, <1>3 DEF ReadSample, Inv, WireInv, a
  <2>2. \A q \in Roles : \A i \in 1 .. Len(wire[q]) : MessageKept(wire[q][i], Known(q))
    BY DEF Inv, WireInv
  <2>3. \A i \in 1 .. Len(w) : MessageKept(w[i], Known(r))
    BY <1>1, <2>2
  <2> HIDE DEF w
  <2>4. /\ Head(w) \in Written /\ MessageKept(Head(w), Known(r))
        /\ Tail(w) \in Seq(Written)
        /\ \A i \in 1 .. Len(Tail(w)) : MessageKept(Tail(w)[i], Known(r))
    <3>1. Len(w) \in Nat /\ Len(w) > 0 /\ Head(w) = w[1] /\ w[1] \in Written
      BY <2>1
    <3>2. Tail(w) \in Seq(Written) /\ Len(Tail(w)) = Len(w) - 1
      BY <2>1
    <3>3. \A i \in 1 .. Len(Tail(w)) : Tail(w)[i] = w[i + 1] /\ i + 1 \in 1 .. Len(w)
      BY <2>1, <3>1, <3>2
    <3> QED
      BY <2>3, <3>1, <3>2, <3>3
  <2>5. EndInv' /\ OneMoves /\ \A q \in Roles : Known(q) \subseteq Known(q)'
    BY <1>2, <2>1, <2>4, WrittenMessages
  <2>6. wire' \in [Roles -> Seq(Written)]
    BY <2>1, <2>4
  <2>7. \A q \in Roles : \A i \in 1 .. Len(wire'[q]) : MessageKept(wire'[q][i], Known(q))
    BY <1>1, <2>1, <2>2, <2>4
  <2>8. WireInv'
    BY <2>1, <2>5, <2>6, <2>7, WireStep DEF Inv
  <2> QED
    BY <2>5, <2>8 DEF Inv
<1>4. CASE ForeignSend(r)
  <2>1. /\ wire' = wire /\ link' = link /\ Peer(r) \notin Local
        /\ ep' = [ep EXCEPT ![r] = [a EXCEPT !.read = [msg |-> Anything, seen |-> a.state]]]
    BY <1>4 DEF ForeignSend, a
  <2>2. {"consent", "data", "foreign"} \subseteq Known(r) /\ MessageKept(Anything, Known(r))
    BY <2>1 DEF Known, MessageKept
  <2>3. EndInv' /\ OneMoves /\ \A q \in Roles : Known(q) \subseteq Known(q)'
    BY <1>2, <2>1, <2>2
  <2>4. WireInv'
    BY <2>1, <2>3, WireStep DEF Inv, WireInv
  <2> QED
    BY <2>3, <2>4 DEF Inv
<1> QED
  BY <1>3, <1>4
------------------------------------------------------------------------------
(***************************************************************************)
(* The invariant.                                                          *)
(***************************************************************************)
\* A session starts with what is promised.
LEMMA InitInv ==
    ASSUME Init
    PROVE  Inv
<1>1. PICK session \in Sessions, paired \in BOOLEAN, may \in Scenarios :
         ep = [r \in session |-> NewConnection(r, paired, may)]
  BY DEF Init
<1>2. Local = session /\ Local \subseteq Roles
  BY <1>1, LocalRoles DEF Local
<1>3. \A r \in Local : ep[r] = NewConnection(r, paired, may)
  BY <1>1, <1>2
<1>4. ASSUME NEW r \in Local, NEW k
      PROVE  /\ ep[r] \in Conn /\ ep[r].role = r /\ ep[r].writeError = FALSE
             /\ ep[r].out = <<>> /\ CloseKept(ep[r]) /\ ConsentKept(ep[r], k)
  <2> DEFINE c == ep[r]
             s == paired \/ r = "client"
  <2>1. /\ r \in Roles /\ Idle \in Thread /\ "InitStart" \in States /\ "WaitForReady" \in TimerTypes
        /\ 0 \in 0 .. BufferLimit /\ 0 \in 0 .. MaxData /\ <<>> \in Seq(Written)
        /\ s \in BOOLEAN
    BY <1>2, IdleThread, BoundAssumption DEF States, TimerTypes
  <2>2. (paired => s) /\ (r = "client" => s)
    OBVIOUS
  <2>3. c = [role |-> r, may |-> may, state |-> "InitStart", timer |-> FALSE,
             timerType |-> "WaitForReady", closing |-> FALSE, finish |-> "none",
             delayed |-> FALSE, sock |-> "open", reported |-> 0, trusted |-> paired,
             consent |-> s, requested |-> FALSE, setup |-> FALSE, reader |-> FALSE,
             buffered |-> 0, delivered |-> FALSE, sent |-> 0, pinSent |-> FALSE,
             pinWrites |-> 0, run |-> Idle, read |-> Idle, expiry |-> Idle,
             user |-> Idle, started |-> "no", writeError |-> FALSE, out |-> <<>>]
    BY <1>3 DEF NewConnection
  <2> HIDE DEF s, c
  <2>4. c \in Conn /\ c.role = r /\ c.writeError = FALSE /\ c.out = <<>>
    BY <2>1, <2>3 DEF Conn
  <2>5. CloseKept(c)
    BY <2>3, IdleThread DEF CloseKept
  <2>6. SeenKept(c, "InitStart", k) /\ SeenKept(c, "idle", k)
    BY DEF SeenKept, Trusting, Past
  <2>7. ConsentKept(c, k)
    BY <2>2, <2>3, <2>6, IdleThread DEF ConsentKept
  <2> QED
    BY <2>4, <2>5, <2>7 DEF c
<1>5. ep \in [Local -> Conn]
  BY <1>1, <1>2, <1>4
<1>6. EndInv
  BY <1>2, <1>4, <1>5 DEF EndInv
<1>7. WireInv
  <2>1. /\ wire \in [Roles -> Seq(Written)] /\ link \in {"up", "down"}
        /\ \A r \in Roles : Len(wire[r]) = 0
    BY DEF Init
  <2> QED
    BY <2>1 DEF WireInv
<1> QED
  BY <1>6, <1>7 DEF Inv

\* Every step keeps it, moves one endpoint, and sends no second PIN.
LEMMA NextInv ==
    ASSUME Inv, [Next]_vars
    PROVE  Inv' /\ OneMoves
<1>0. ep' = ep => OneMoves
  <2>1. PICK r \in Local : TRUE
    BY SessionAssumption DEF Inv, EndInv
  <2> QED
    BY <2>1 DEF OneMoves, PinStep, Moves, Local
<1>1. ASSUME NEW r \in Local, NEW c, Update(r, c), Becomes(ep[r], c, Known(r))
      PROVE  Inv' /\ OneMoves
  BY <1>1, UpdateStep
<1>2. ASSUME NEW r \in Local, RunThread(r) PROVE Inv' /\ OneMoves
  BY <1>1, <1>2, RunBecomes DEF Inv
<1>3. ASSUME NEW r \in Local, ReadThread(r) PROVE Inv' /\ OneMoves
  <2>1. CASE ReadSample(r)
    BY <2>1, TakeStep
  <2>2. CASE ReadEOF(r) \/ ErrorSample(r) \/ ReadAct(r) \/ ProvidePin(r)
    BY <1>1, <2>2, ReadBecomes DEF Inv
  <2>3. CASE PinWriteFails(r)
    BY <2>3, PinFailsStep
  <2> QED
    BY <1>3, <2>1, <2>2, <2>3 DEF ReadThread
<1>4. ASSUME NEW r \in Local, TimerExpire(r) \/ TimerThread(r) PROVE Inv' /\ OneMoves
  BY <1>1, <1>4, TimerBecomes DEF Inv
<1>5. ASSUME NEW r \in Local, Approve(r) \/ AbortPending(r) \/ UserThread(r)
      PROVE  Inv' /\ OneMoves
  BY <1>1, <1>5, UserBecomes DEF Inv
<1>6. ASSUME NEW r \in Local, UserClose(r) \/ DelayedClose(r) \/ SendSpine(r)
      PROVE  Inv' /\ OneMoves
  BY <1>1, <1>6, HubBecomes DEF Inv
<1>7. CASE \E r \in Local : Code(r)
  BY <1>2, <1>3, <1>4, <1>5, <1>6, <1>7, CloseStep DEF Code
<1>8. CASE \E r \in Local : Environment(r)
  BY <1>4, <1>5, <1>6, <1>8, TakeStep DEF Environment
<1>9. CASE LinkBreaks
  <2>1. ep' = ep /\ BreakLink
    BY <1>9 DEF LinkBreaks
  <2>2. EndInv' /\ \A q \in Roles : Known(q) \subseteq Known(q)'
    BY <2>1 DEF Inv, EndInv, Known, Local
  <2> QED
    BY <1>0, <2>1, <2>2, BreakLinkStep DEF Inv
<1>10. CASE UNCHANGED vars
  <2>1. Inv'
    BY <1>10 DEF Inv, EndInv, WireInv, Known, Local, vars
  <2> QED
    BY <1>0, <1>10, <2>1 DEF vars
<1> QED
  BY <1>7, <1>8, <1>9, <1>10 DEF Next

\* What every session keeps, for any sessions, scenarios and limits.
THEOREM Promises == Spec => []Inv
<1>1. Init => Inv
  BY InitInv
<1>2. Inv /\ [Next]_vars => Inv'
  BY NextInv
<1> QED
  BY <1>1, <1>2, PTL DEF Spec
------------------------------------------------------------------------------
(***************************************************************************)
(* What follows from it.                                                   *)
(***************************************************************************)
\* Endpoints, wires and the link have their types, and the timer of a connection
\* whose close was claimed is stopped (ship/connection.go, CloseConnection).
THEOREM TypesHold == Spec => []TypeOK
<1>1. Inv => TypeOK
  <2> SUFFICES ASSUME Inv PROVE TypeOK
    OBVIOUS
  <2> USE DEF Inv, EndInv, WireInv
  <2>1. ASSUME NEW r \in Local
        PROVE  ep[r] \in [role: Roles, may: Scenarios, state: States, timer: BOOLEAN,
                          timerType: TimerTypes, closing: BOOLEAN,
                          finish: {"none", "announce", "plain", "grace", "done"},
                          delayed: BOOLEAN, sock: {"open", "breaking", "closed"},
                          reported: Nat, trusted: BOOLEAN, consent: BOOLEAN,
                          requested: BOOLEAN, setup: BOOLEAN, reader: BOOLEAN,
                          buffered: 0..BufferLimit, delivered: BOOLEAN, sent: 0..MaxData,
                          pinSent: BOOLEAN, pinWrites: Nat, run: Thread, read: Thread,
                          expiry: Thread, user: Thread, started: {"no", "pumps", "yes"},
                          writeError: {FALSE}, out: {<<>>}]
    <3>1. ep[r] \in Conn /\ ep[r].writeError \in {FALSE} /\ ep[r].out \in {<<>>}
      OBVIOUS
    <3> QED
      BY <3>1 DEF Conn
  <2>2. \A r \in Local : ep[r].closing => ~ep[r].timer
    BY DEF CloseKept
  <2>3. /\ DOMAIN wire = Roles
        /\ \A r \in Roles : \A i \in DOMAIN wire[r] : wire[r][i] \in Messages
    <3>1. DOMAIN wire = Roles
      OBVIOUS
    <3>2. ASSUME NEW r \in Roles, NEW i \in DOMAIN wire[r] PROVE wire[r][i] \in Written
      <4>1. wire[r] \in Seq(Written)
        OBVIOUS
      <4> QED
        BY <4>1
    <3> QED
      BY <3>1, <3>2, WrittenMessages
  <2> QED
    BY <2>1, <2>2, <2>3 DEF TypeOK
<1> QED
  BY <1>1, Promises, PTL

\* The hub is told of the end of a connection once, after the websocket was closed,
\* and then no timer and no timer callback is left (stopHandshakeTimerAndWait).
THEOREM ReportsAreLast == Spec => []ReportIsLast
<1>1. Inv => ReportIsLast
  BY DEF Inv, EndInv, CloseKept, ReportIsLast
<1> QED
  BY <1>1, Promises, PTL

\* A connection completes only when its own user approved it and the peer's user
\* trusts it.
LEMMA ConsentOfBoth == Inv => CompletionNeedsConsent
<1> SUFFICES ASSUME Inv, NEW r \in Local, ep[r].state = "Complete"
             PROVE  Agreed(r) /\ (Peer(r) \in Local => ep[Peer(r)].consent)
  BY DEF CompletionNeedsConsent
<1>1. /\ r \in Roles /\ ep[r] \in Conn /\ ep[r].role = r /\ ConsentKept(ep[r], Known(r))
  BY LocalRoles DEF Inv, EndInv
<1>2. Agreed(r)
  BY <1>1 DEF ConsentKept, Agreed
<1>3. CASE r = "client"
  <2>1. "consent" \in Known(r)
    BY <1>1, <1>3 DEF ConsentKept, SeenKept, Past
  <2> QED
    BY <1>2, <2>1 DEF Known
<1>4. CASE r = "server"
  <2>1. Peer(r) \in Local =>
           ep[Peer(r)].role = "client" /\ ConsentKept(ep[Peer(r)], Known(Peer(r)))
    BY <1>4 DEF Inv, EndInv, Peer
  <2> QED
    BY <1>2, <2>1 DEF ConsentKept
<1> QED
  BY <1>1, <1>3, <1>4 DEF Roles

\* No handshake completes without the consent of both users, although each end
\* hears of the other only through hello messages.
THEOREM CompletedWithConsent == Spec => []CompletionNeedsConsent
BY ConsentOfBoth, Promises, PTL

\* What was delivered was read after the peer's application had opened as well.
HeardFromOpen == \A r, q \in Local : ep[r].delivered => ep[q].reader

\* An end reads data only once its peer has installed the reader, so both have.
LEMMA HeardOfBoth == Inv => HeardFromOpen
<1> SUFFICES ASSUME Inv, NEW r \in Local, ep[r].delivered, NEW q \in Local
             PROVE  ep[q].reader
  BY DEF HeardFromOpen
<1>1. ep[r].reader /\ "data" \in Known(r)
  BY DEF Inv, EndInv, ConsentKept
<1>2. q = r \/ q = Peer(r)
  BY LocalRoles DEF Inv, EndInv, Roles, Peer
<1> QED
  BY <1>1, <1>2 DEF Known

\* SPINE data reaches the application of neither end before both agreed.
THEOREM DeliveredWithConsent == Spec => []DataNeedsBothApprovals
<1>1. Inv => DataNeedsBothApprovals
  <2>1. Inv => \A q \in Local : ep[q].reader => Agreed(q)
    BY DEF Inv, EndInv, ConsentKept, Agreed
  <2> QED
    BY <2>1, HeardOfBoth DEF HeardFromOpen, DataNeedsBothApprovals
<1> QED
  BY <1>1, Promises, PTL

\* The PIN is put on the wire at most once per connection and never after the
\* close was claimed (submitPin).
THEOREM PinIsSentOnce == Spec => PinOnce
<1>1. Inv /\ [Next]_vars =>
         [\A r \in Local : ep'[r].pinWrites # ep[r].pinWrites =>
             ep[r].pinWrites = 0 /\ ~ep[r].closing]_ep
  BY NextInv DEF OneMoves, PinStep
<1> QED
  BY <1>1, Promises, PTL DEF Spec, PinOnce
------------------------------------------------------------------------------
(***************************************************************************)
(* The agreed session.                                                     *)
(***************************************************************************)
\* What the move of an endpoint is for its application: it opens, hears data, claims
\* its close, reports it, or none of these.
LEMMA MovePhases ==
    ASSUME NEW a, NEW c, NEW k, NEW l, Moves(a, c), a \in Conn, c \in Conn,
           CloseKept(a), CloseKept(c), ConsentKept(a, k), ConsentKept(c, l)
    PROVE  \/ /\ Phase(a) = "handshake" /\ Phase(c) = "open"
              /\ ~a.reader /\ c.reader /\ c.state = "Complete"
           \/ /\ Phase(a) = "open" /\ Phase(c) = "open" /\ c.reader = a.reader
              /\ ~a.delivered /\ c.delivered
              /\ c.consent = a.consent /\ c.requested = a.requested
           \/ /\ Phase(a) \in {"handshake", "open"} /\ Phase(c) = "closing"
              /\ c.reader = a.reader /\ c.delivered = a.delivered
           \/ /\ Phase(a) = "closing" /\ Phase(c) = "closed"
              /\ c.reader = a.reader /\ c.delivered = a.delivered
              /\ c.consent = a.consent /\ c.requested = a.requested
           \/ /\ Phase(c) = Phase(a)
              /\ c.reader = a.reader /\ c.delivered = a.delivered
<1>1. /\ a.reported \in {0, 1} /\ c.reported \in {0, 1}
      /\ (a.reported = 1 => a.closing) /\ (c.reported = 1 => c.closing)
  BY DEF CloseKept
<1>2. /\ {a.reader, c.reader, a.closing, c.closing, a.delivered, c.delivered} \subseteq BOOLEAN
      /\ {a.consent, c.consent, a.requested, c.requested} \subseteq BOOLEAN
  BY DEF Conn
<1>3. CASE c.reader # a.reader
  BY <1>1, <1>2, <1>3 DEF Moves, Phase
<1>4. CASE c.reader = a.reader /\ c.delivered # a.delivered
  <2>1. a.reader
    BY <1>2, <1>4 DEF Moves, ConsentKept
  <2> QED
    BY <1>1, <1>2, <1>4, <2>1 DEF Moves, Phase
<1>5. CASE c.reader = a.reader /\ c.delivered = a.delivered /\ c.reported # a.reported
  BY <1>1, <1>2, <1>5 DEF Moves, Phase
<1>6. CASE /\ c.reader = a.reader /\ c.delivered = a.delivered /\ c.reported = a.reported
           /\ c.closing # a.closing
  BY <1>1, <1>2, <1>6 DEF Moves, Phase
<1>7. CASE /\ c.reader = a.reader /\ c.delivered = a.delivered /\ c.reported = a.reported
           /\ c.closing = a.closing
  BY <1>7 DEF Phase
<1> QED
  BY <1>3, <1>4, <1>5, <1>6, <1>7

\* A step of the session is one of AgreedSession, or none that it tells apart.
LEMMA AgreedStep ==
    ASSUME Inv, Inv', CompletionNeedsConsent', HeardFromOpen', OneMoves
    PROVE  [Session!Next]_(Session!vars)
<1>1. PICK r \in Local : Moves(ep[r], ep'[r]) /\ \A q \in Local \ {r} : ep'[q] = ep[q]
  BY DEF OneMoves
<1> DEFINE a == ep[r]
           c == ep'[r]
           phase == [q \in Local |-> Phase(ep[q])]
           trusting == {q \in Local : ep[q].consent}
           agreed == {q \in Local : Agreed(q)}
           opened == {q \in Local : ep[q].reader}
           heard == {q \in Local : ep[q].delivered}
<1>2. /\ Local' = Local /\ Local \subseteq Roles
      /\ a \in Conn /\ CloseKept(a) /\ ConsentKept(a, Known(r))
      /\ c \in Conn /\ CloseKept(c) /\ ConsentKept(c, Known(r)')
  BY <1>1, LocalRoles DEF Inv, EndInv, OneMoves
<1>3. phase' = [phase EXCEPT ![r] = Phase(c)] /\ phase[r] = Phase(a)
  BY <1>1, <1>2
<1>4. /\ opened' = IF c.reader THEN opened \cup {r} ELSE opened
      /\ heard' = IF c.delivered THEN heard \cup {r} ELSE heard
      /\ trusting' = IF c.consent THEN trusting \cup {r} ELSE trusting
  BY <1>1, <1>2 DEF Moves
<1>5. Agreed(r)' <=> c.consent /\ (r \in RequireApproval => c.requested)
  BY DEF Agreed
<1>6. agreed' = IF Agreed(r)' THEN agreed \cup {r} ELSE agreed
  BY <1>1, <1>2, <1>5 DEF Moves, Agreed
<1>7. agreed' \subseteq trusting'
  BY DEF Agreed
<1>8. DOMAIN phase = Local
  OBVIOUS
<1>9. /\ ~c.consent => ~a.consent
      /\ c.consent = a.consent => trusting' = trusting
      /\ c.consent = a.consent /\ c.requested = a.requested => agreed' = agreed
      /\ c.reader = a.reader => opened' = opened
      /\ c.delivered = a.delivered => heard' = heard
  BY <1>1, <1>2, <1>4, <1>5, <1>6 DEF Moves, Agreed
<1> HIDE DEF phase, trusting, agreed, opened, heard
<1>10. Session!Decides(r)
  BY <1>4, <1>6, <1>7 DEF Session!Decides, trusting, agreed
<1>11. CASE /\ Phase(a) = "handshake" /\ Phase(c) = "open"
            /\ ~a.reader /\ c.reader /\ c.state = "Complete"
  <2>1. trusting' = Local
    <3>1. Local \subseteq {r, Peer(r)}
      BY <1>2 DEF Roles, Peer
    <3>2. c.consent /\ (Peer(r) \in Local => ep'[Peer(r)].consent)
      BY <1>2, <1>11 DEF CompletionNeedsConsent, Agreed
    <3> QED
      BY <1>2, <3>1, <3>2 DEF trusting
  <2>2. r \in agreed'
    BY <1>2, <1>11 DEF CompletionNeedsConsent, agreed
  <2>3. c.delivered => opened' = Local
    BY <1>1, <1>2 DEF HeardFromOpen, opened
  <2>4. heard' = heard \/ (heard' = heard \cup {r} /\ opened' = Local)
    BY <1>4, <2>3
  <2>5. Session!Open(r)
    BY <1>3, <1>4, <1>8, <1>10, <1>11, <2>1, <2>2, <2>4
    DEF Session!Open, Session!Passes, Session!Ends, phase, trusting, agreed, opened, heard
  <2> QED
    BY <1>8, <2>5 DEF Session!Next, Session!Ends, phase
<1>12. CASE /\ Phase(a) = "open" /\ Phase(c) = "open" /\ c.reader = a.reader
            /\ ~a.delivered /\ c.delivered
            /\ c.consent = a.consent /\ c.requested = a.requested
  <2>1. opened = Local
    BY <1>1, <1>2, <1>9, <1>12 DEF HeardFromOpen, opened
  <2>2. phase' = phase
    BY <1>3, <1>12 DEF phase
  <2>3. Session!Hear(r)
    BY <1>3, <1>4, <1>8, <1>9, <1>12, <2>1, <2>2
    DEF Session!Hear, Session!Ends, phase, trusting, agreed, opened, heard
  <2> QED
    BY <1>8, <2>3 DEF Session!Next, Session!Ends, phase
<1>13. CASE /\ Phase(a) \in {"handshake", "open"} /\ Phase(c) = "closing"
            /\ c.reader = a.reader /\ c.delivered = a.delivered
  <2>1. Session!Claim(r)
    BY <1>3, <1>9, <1>10, <1>13
    DEF Session!Claim, Session!Passes, phase, opened, heard
  <2> QED
    BY <1>8, <2>1 DEF Session!Next, Session!Ends, phase
<1>14. CASE /\ Phase(a) = "closing" /\ Phase(c) = "closed"
            /\ c.reader = a.reader /\ c.delivered = a.delivered
            /\ c.consent = a.consent /\ c.requested = a.requested
  <2>1. Session!Close(r)
    BY <1>3, <1>9, <1>14
    DEF Session!Close, Session!Passes, phase, trusting, agreed, opened, heard
  <2> QED
    BY <1>8, <2>1 DEF Session!Next, Session!Ends, phase
<1>15. CASE /\ Phase(c) = Phase(a)
            /\ c.reader = a.reader /\ c.delivered = a.delivered
  <2>1. phase' = phase
    BY <1>3, <1>15 DEF phase
  <2>2. Session!Decide(r)
    BY <1>9, <1>10, <1>15, <2>1 DEF Session!Decide, phase, opened, heard
  <2> QED
    BY <1>8, <2>2 DEF Session!Next, Session!Ends, phase
<1> QED
  BY <1>1, <1>2, <1>11, <1>12, <1>13, <1>14, <1>15, MovePhases

\* The handlers, timeouts, calls of the hub and closes of a session implement
\* AgreedSession (ship/handshake.go, ship/hs_*.go, ship/connection.go): no approval
\* comes into effect and nothing is delivered after a close was claimed, an end opens
\* once, with the consent of both users, and closes once.
THEOREM AgreementIsKept == Spec => KeepsAgreement
<1>1. Init => Session!Init
  <2> SUFFICES ASSUME Init PROVE Session!Init
    OBVIOUS
  <2>1. PICK session \in Sessions, paired \in BOOLEAN, may \in Scenarios :
           ep = [r \in session |-> NewConnection(r, paired, may)]
    BY DEF Init
  <2>2. \A r \in Local : ep[r] = NewConnection(r, paired, may)
    BY <2>1 DEF Local
  <2>3. ASSUME NEW r \in Local
        PROVE  /\ ~ep[r].closing /\ ~ep[r].reader /\ ~ep[r].delivered
               /\ ep[r].reported = 0
    <3> DEFINE s == paired \/ r = "client"
    <3>1. ep[r] = [role |-> r, may |-> may, state |-> "InitStart", timer |-> FALSE,
                   timerType |-> "WaitForReady", closing |-> FALSE, finish |-> "none",
                   delayed |-> FALSE, sock |-> "open", reported |-> 0, trusted |-> paired,
                   consent |-> s, requested |-> FALSE, setup |-> FALSE, reader |-> FALSE,
                   buffered |-> 0, delivered |-> FALSE, sent |-> 0, pinSent |-> FALSE,
                   pinWrites |-> 0, run |-> Idle, read |-> Idle, expiry |-> Idle,
                   user |-> Idle, started |-> "no", writeError |-> FALSE, out |-> <<>>]
      BY <2>2 DEF NewConnection
    <3> HIDE DEF s
    <3> QED
      BY <3>1
  <2>4. \A r \in Local : Phase(ep[r]) = "handshake"
    BY <2>3 DEF Phase
  <2> QED
    BY <2>3, <2>4 DEF Session!Init, Session!Ends, Agreed
<1>2. Inv' => CompletionNeedsConsent' /\ HeardFromOpen'
  BY ConsentOfBoth, HeardOfBoth, PTL
<1>3. Inv /\ [Next]_vars => [Session!Next]_(Session!vars)
  BY <1>2, NextInv, AgreedStep
<1> QED
  BY <1>1, <1>3, Promises, PTL DEF Spec, KeepsAgreement, Session!Spec
------------------------------------------------------------------------------
(***************************************************************************)
(* Waits and timers.  A handler that was called on a settled endpoint      *)
(* leaves a settled one, and a callback that finds the endpoint waiting    *)
(* ends the wait or arms the timer again.                                  *)
(***************************************************************************)
\* Arming the timer times a wait, if the endpoint is not closing.
LEMMA StartTimerTimed ==
    ASSUME NEW b, NEW c, NEW k, Stays(b, c, k), NEW type
    PROVE  Timed(StartTimer(c, type))
<1>1. CASE c.closing
  <2>1. StartTimer(c, type).closing = c.closing
    BY <1>1 DEF StartTimer, StopTimer, Stays, Keeps, Conn
  <2> QED
    BY <1>1, <2>1 DEF Timed
<1>2. CASE ~c.closing
  <2>1. StartTimer(c, type).timer = TRUE
    BY <1>2 DEF StartTimer, Stays, Keeps, Conn
  <2> QED
    BY <2>1 DEF Timed
<1> QED
  BY <1>1, <1>2

\* setState: outside the waits the endpoint settles, the four states that arm
\* the timer time themselves, and no state takes a running timer from a wait.
LEMMA SetStateTimed ==
    ASSUME NEW b, NEW c, NEW k, Stays(b, c, k), NEW s \in States
    PROVE  /\ s \notin ListenStates => Settled(SetState(c, s))
           /\ s \in ListenStates /\ Timed(c) => Timed(SetState(c, s))
           /\ s \in {"ReadyInit", "PendingInit", "ClientListenChoice", "AskInit"} =>
                 Timed(SetState(c, s))
<1>1. CASE c.closing
  BY <1>1 DEF SetState, Settled, Timed
<1>2. CASE ~c.closing
  <2> DEFINE t == TimerFor(c, s)
  <2>1. t \in {c, StopTimer(c), StartTimer(c, "WaitForReady")}
    BY DEF TimerFor
  <2>2. s \in ListenStates => t \in {c, StartTimer(c, "WaitForReady")}
    BY DEF TimerFor, ListenStates
  <2>3. s \in {"ReadyInit", "PendingInit", "ClientListenChoice", "AskInit"} =>
           t = StartTimer(c, "WaitForReady")
    BY DEF TimerFor
  <2>4. Stays(b, t, k)
    BY <2>1, Primitives DEF TimerTypes
  <2>5. Timed(StartTimer(c, "WaitForReady"))
    BY StartTimerTimed
  <2> HIDE DEF t
  <2>6. SetState(c, s).state = s /\ SetState(c, s).timer = t.timer
        /\ SetState(c, s).closing = t.closing
    BY <1>2, <2>4 DEF SetState, Report, Stays, Keeps, Conn, t
  <2>7. s \notin ListenStates => Settled(SetState(c, s))
    BY <2>6 DEF Settled
  <2>8. Timed(t) => Timed(SetState(c, s))
    BY <2>6 DEF Timed
  <2> QED
    BY <2>2, <2>3, <2>5, <2>7, <2>8
<1> QED
  BY <1>1, <1>2

\* Claiming the close ends a wait, and scheduling the close changes no wait.
LEMMA ClosesTimed ==
    ASSUME NEW b, NEW c, NEW k, Stays(b, c, k)
    PROVE  /\ Timed(CloseConnection(c, FALSE)) /\ Timed(EndWithError(c))
           /\ Settled(c) => Settled(CloseSoon(c))
<1>1. CloseConnection(c, FALSE).closing
  BY CloseKeeps DEF Stays
<1>2. EndWithError(c).closing
  BY EndWithErrorKeeps DEF Stays
<1>3. /\ CloseSoon(c).closing = c.closing /\ CloseSoon(c).timer = c.timer
      /\ CloseSoon(c).state = c.state
  BY DEF CloseSoon, Stays, Keeps, Conn
<1> QED
  BY <1>1, <1>2, <1>3 DEF Timed, Settled

\* A write leaves a wait timed, and a settled endpoint settled.
LEMMA SendTimed ==
    ASSUME NEW b, NEW c, NEW k, Stays(b, c, k), NEW m, MaySend(b, m)
    PROVE  /\ Timed(c) => Timed(Write(c, m)) /\ Timed(Send(c, m))
           /\ Settled(c) => Settled(Send(c, m))
<1> DEFINE w == Write(c, m)
<1>1. w = CloseConnection(c, FALSE) \/ (w.timer = c.timer /\ w.closing = c.closing
                                       /\ w.state = c.state)
  BY DEF Write, Stays, Keeps, Conn
<1>2. /\ Timed(c) => Timed(w)
      /\ Settled(c) => Settled(w)
  <2>1. CASE w = CloseConnection(c, FALSE)
    BY <2>1, ClosesTimed DEF Settled
  <2>2. CASE w.timer = c.timer /\ w.closing = c.closing /\ w.state = c.state
    BY <2>2 DEF Settled, Timed
  <2> QED
    BY <1>1, <2>1, <2>2
<1>3. Stays(b, NoError(w), k)
  BY Primitives
<1> HIDE DEF w
<1>4. Send(c, m) \in {w, EndWithError(NoError(w))}
  BY DEF Send, w
<1>5. Timed(EndWithError(NoError(w)))
  BY <1>3, ClosesTimed
<1> QED
  BY <1>2, <1>4, <1>5 DEF Settled, w

\* An abort of either end leaves the waits.
LEMMA AbortSettles ==
    ASSUME NEW b, NEW c, NEW k, Stays(b, c, k)
    PROVE  Settled(HelloAbort(c)) /\ Settled(RemoteAbort(c))
<1>1. Stays(b, Send(StopTimer(SetState(c, "Abort")), Aborted), k)
  BY Primitives, PlainStates, PlainMessages
<1>2. ASSUME NEW d, Stays(b, d, k), NEW s \in {"AbortDone", "RemoteAbortDone"}
      PROVE  Settled(CloseSoon(SetState(d, s)))
  <2>1. s \in States \ ListenStates
    BY DEF States, ListenStates
  <2>2. Stays(b, SetState(d, s), k) /\ Settled(SetState(d, s))
    BY <1>2, <2>1, Primitives, PlainStates, SetStateTimed
  <2> QED
    BY <2>2, ClosesTimed
<1> QED
  BY <1>1, <1>2 DEF HelloAbort, RemoteAbort

\* From HelloOk on the endpoint reaches its next wait with the timer armed.
LEMMA HelloOkSettles ==
    ASSUME NEW b, NEW c, NEW k, Stays(b, c, k), Passed(b, k)
    PROVE  Settled(HelloOk(c))
<1> DEFINE h == SetState(c, "HelloOk")
           x == StartTimer(SetState(h, "ServerInit"), "WaitForReady")
           y == Send(SetState(h, "ClientInit"), Control("announceMax"))
<1>1. Stays(b, SetState(h, "ServerInit"), k) /\ Stays(b, y, k)
  BY Primitives, PassedStates, PlainMessages
<1>2. Stays(b, x, k) /\ Timed(x)
  BY <1>1, Primitives, StartTimerTimed DEF TimerTypes
<1>3. HelloOk(c) \in {SetState(x, "ServerListenProposal"), SetState(y, "ClientListenChoice")}
  BY DEF HelloOk, ProtocolInit
<1> HIDE DEF x, y
<1>4. Timed(SetState(x, "ServerListenProposal")) /\ Timed(SetState(y, "ClientListenChoice"))
  BY <1>1, <1>2, SetStateTimed DEF States, ListenStates
<1> QED
  BY <1>3, <1>4 DEF Settled

\* A ready endpoint waits in ReadyListen with the timer ReadyInit armed.
LEMMA ReadyInitSettles ==
    ASSUME NEW b, NEW c, NEW k, Stays(b, c, k), b.consent
    PROVE  Settled(ReadyInit(c))
<1> DEFINE i == SetState(c, "ReadyInit")
           w == Write(i, Ready)
<1>1. Stays(b, i, k) /\ MaySend(b, Ready)
  BY Primitives, ReadyStates DEF MaySend, Written, Ready, Hello
<1>2. Timed(i)
  BY SetStateTimed DEF States
<1> HIDE DEF i
<1>3. Keeps(b, w, k) /\ w.writeError \in BOOLEAN /\ Timed(w) /\ Stays(b, NoError(w), k)
  BY <1>1, <1>2, WriteKeeps, SendTimed, Primitives
<1> HIDE DEF w
<1>4. CASE w.writeError
  <2>1. ReadyInit(c) = HelloAbort(NoError(w))
    BY <1>4 DEF ReadyInit, w, i
  <2> QED
    BY <1>3, <2>1, AbortSettles
<1>5. CASE ~w.writeError
  <2>1. ReadyInit(c) = SetState(w, "ReadyListen")
    BY <1>5 DEF ReadyInit, w, i
  <2>2. Stays(b, w, k)
    BY <1>3, <1>5 DEF Stays
  <2> QED
    BY <1>3, <2>1, <2>2, SetStateTimed DEF States, ListenStates, Settled
<1> QED
  BY <1>4, <1>5

\* Either start of the hello phase arms the timer of its wait.
LEMMA HelloStartSettles ==
    ASSUME NEW b, NEW c, NEW k, Stays(b, c, k), NEW allowed
    PROVE  Settled(HelloStart(c, allowed))
<1> DEFINE h == SetState(c, "Hello")
           i == SetState(h, "PendingInit")
           n == Send(i, Pending)
           p == SetState(n, "PendingListen")
<1>1. Stays(b, h, k) /\ Stays(b, i, k) /\ Stays(b, n, k)
  BY Primitives, PlainStates, PlainMessages
<1>2. CASE c.trusted \/ c.role = "client"
  <2>1. b.consent
    BY <1>2 DEF Stays, Keeps, ConsentKept
  <2> QED
    BY <1>1, <1>2, <2>1, ReadyInitSettles DEF HelloStart
<1>3. CASE ~(c.trusted \/ c.role = "client")
  <2>1. Timed(i)
    BY <1>1, SetStateTimed DEF States
  <2>2. Timed(n)
    BY <1>1, <2>1, SendTimed, PlainMessages
  <2>3. Timed(p)
    BY <1>1, <2>2, SetStateTimed DEF States, ListenStates
  <2>4. MayReach(b, "PendingListen", k)
    <3>1. b.role = "server"
      BY <1>3 DEF Stays, Keeps, Conn, Roles
    <3> QED
      BY <3>1 DEF MayReach, Trusting, Past, States
  <2>5. Stays(b, p, k)
    BY <1>1, <2>4, Primitives
  <2>6. HelloStart(c, allowed) \in {p, HelloAbort(p)}
    BY <1>3 DEF HelloStart, PendingInit
  <2> HIDE DEF p
  <2> QED
    BY <2>3, <2>5, <2>6, AbortSettles DEF Settled
<1> QED
  BY <1>2, <1>3

\* The handlers of the connection mode initialisation arm the timer, or end.
LEMMA InitSettles ==
    ASSUME NEW b, NEW c, NEW k, Stays(b, c, k), NEW m, NEW allowed
    PROVE  /\ Settled(InitStart(c))
           /\ Settled(ServerWait(c, m, allowed))
           /\ Settled(ClientWait(c, m, allowed))
<1> DEFINE x == SetState(Send(SetState(c, "ClientSend"), Control("init")), "ClientWait")
           y == SetState(c, "ServerWait")
           s == SetState(c, "ServerEvaluate")
           e == SetState(c, "ClientEvaluate")
<1>1. /\ Stays(b, x, k) /\ Stays(b, y, k) /\ Stays(b, s, k) /\ Stays(b, e, k)
      /\ Stays(b, Send(s, Control("init")), k)
  BY Primitives, PlainStates, PlainMessages
<1>2. InitStart(c) \in {StartTimer(x, "WaitForReady"), StartTimer(y, "WaitForReady")}
  BY DEF InitStart
<1>3. ServerWait(c, m, allowed) \in
         {EndWithError(s), HelloStart(Send(s, Control("init")), allowed)}
  BY DEF ServerWait
<1>4. ClientWait(c, m, allowed) \in {EndWithError(e), HelloStart(e, allowed)}
  BY DEF ClientWait
<1> HIDE DEF x, y, s, e
<1>5. Settled(InitStart(c))
  BY <1>1, <1>2, StartTimerTimed DEF Settled
<1>6. Settled(ServerWait(c, m, allowed))
  BY <1>1, <1>3, ClosesTimed, HelloStartSettles DEF Settled
<1>7. Settled(ClientWait(c, m, allowed))
  BY <1>1, <1>4, ClosesTimed, HelloStartSettles DEF Settled
<1> QED
  BY <1>5, <1>6, <1>7

\* So do those of the protocol handshake, into the PIN phase.
LEMMA ProtocolSettles ==
    ASSUME NEW b, NEW c, NEW k, Stays(b, c, k), Passed(b, k), NEW m
    PROVE  /\ Settled(ServerListenProposal(c, m))
           /\ Settled(ServerListenConfirm(c, m))
           /\ Settled(ClientListenChoice(c, m))
<1>1. ASSUME NEW d, Stays(b, d, k) PROVE Timed(AbortProtocol(d))
  <2> DEFINE e == SetState(NoError(Write(StopTimer(d), Control("protocolError"))), "Error")
  <2>1. Stays(b, e, k)
    BY <1>1, Primitives, PlainStates, PlainMessages
  <2>2. CASE d.closing
    <3>1. AbortProtocol(d).closing
      BY <1>1, <2>2 DEF AbortProtocol, StopTimer, Stays, Keeps, Conn
    <3> QED
      BY <3>1 DEF Timed
  <2>3. CASE ~d.closing
    <3>1. AbortProtocol(d) = CloseConnection(e, FALSE)
      BY <2>3 DEF AbortProtocol
    <3> QED
      BY <2>1, <3>1, ClosesTimed
  <2> QED
    BY <2>2, <2>3
<1>2. ASSUME NEW d, Stays(b, d, k) PROVE Timed(PinInit(d))
  <2>1. Stays(b, Send(SetState(d, "CheckInit"), Control("pinNone")), k)
    BY <1>2, Primitives, PassedStates, PlainMessages
  <2> QED
    BY <2>1, SetStateTimed DEF PinInit, States
<1> DEFINE t == StopTimer(c)
           x == StartTimer(Send(t, Control("select")), "WaitForReady")
           y == SetState(t, "ServerOk")
           z == SetState(Send(t, Control("select")), "ClientOk")
<1>3. Stays(b, t, k) /\ Stays(b, Send(t, Control("select")), k)
  BY Primitives, PlainMessages
<1>4. Stays(b, x, k) /\ Stays(b, y, k) /\ Stays(b, z, k) /\ Timed(x)
  BY <1>3, Primitives, PassedStates, StartTimerTimed DEF TimerTypes
<1>5. /\ ServerListenProposal(c, m) \in {EndWithError(c), SetState(x, "ServerListenConfirm")}
      /\ ServerListenConfirm(c, m) \in {AbortProtocol(c), PinInit(y)}
      /\ ClientListenChoice(c, m) \in {AbortProtocol(t), PinInit(z)}
  BY DEF ServerListenProposal, ServerListenConfirm, ClientListenChoice
<1> HIDE DEF t, x, y, z
<1>6. Timed(SetState(x, "ServerListenConfirm")) /\ Timed(EndWithError(c))
  BY <1>4, SetStateTimed, ClosesTimed DEF States, ListenStates
<1> QED
  BY <1>1, <1>2, <1>3, <1>4, <1>5, <1>6 DEF Settled

\* A peer of this code asks for no PIN, so the PIN check goes on or ends.
LEMMA PinCheckSettles ==
    ASSUME NEW b, NEW c, NEW k, Stays(b, c, k), Passed(b, k), "foreign" \notin k,
           NEW m, MessageKept(m, k)
    PROVE  Settled(PinCheckListen(c, m))
<1> DEFINE o == SetState(c, "CheckOk")
           x == StartTimer(Send(o, Control("accessMethodsRequest")), "WaitForReady")
<1>1. Stays(b, Send(o, Control("accessMethodsRequest")), k)
  BY Primitives, PassedStates, PlainMessages
<1>2. Stays(b, x, k) /\ Timed(x)
  BY <1>1, Primitives, StartTimerTimed DEF TimerTypes
<1>3. PinOk(c) = SetState(x, "AccessMethodsRequest")
  BY DEF PinOk, AccessMethodsInit
<1> HIDE DEF x
<1>4. Timed(PinOk(c)) /\ Timed(EndWithError(c))
  BY <1>2, <1>3, SetStateTimed, ClosesTimed DEF States, ListenStates
<1>5. m.phase \notin {"pinOk", "pinRequiredBusy", "pinRequiredOk", "pinOptionalBusy",
                      "pinOptionalOk"}
  BY OwnMessages DEF MessageKept
<1>6. PinCheckListen(c, m) \in {PinOk(c), EndWithError(c)}
  BY <1>5 DEF PinCheckListen
<1> QED
  BY <1>4, <1>6 DEF Settled

\* The approval completes the handshake, ends it, or changes nothing.
LEMMA ApproveSettles ==
    ASSUME NEW b, NEW c, NEW k, Stays(b, c, k), Settled(c), NEW ok
    PROVE  Settled(ApproveHandshake(c, ok))
<1>1. CASE c.closing \/ c.setup \/ (c.role \in RequireApproval /\ ~c.requested)
  BY <1>1 DEF ApproveHandshake
<1>2. CASE ~(c.closing \/ c.setup \/ (c.role \in RequireApproval /\ ~c.requested))
  <2>1. CASE ~ok
    <3> DEFINE u == [c EXCEPT !.setup = TRUE]
    <3>1. u.closing = c.closing
      BY DEF Stays, Keeps, Conn
    <3>2. ApproveHandshake(c, ok) = [StopTimer(u) EXCEPT
                                       !.closing = TRUE, !.buffered = 0, !.finish = "plain"]
      BY <1>2, <2>1, <3>1 DEF ApproveHandshake, CloseConnection
    <3>3. ApproveHandshake(c, ok).closing
      BY <3>2 DEF StopTimer, Stays, Keeps, Conn
    <3> QED
      BY <3>3 DEF Settled, Timed
  <2>2. CASE ok
    <3>1. ApproveHandshake(c, ok).state = "Complete"
      BY <1>2, <2>2 DEF ApproveHandshake, StopTimer, Stays, Keeps, Conn
    <3> QED
      BY <3>1 DEF Settled, ListenStates
  <2> QED
    BY <2>1, <2>2
<1> QED
  BY <1>1, <1>2

\* ReadyListen leaves an endpoint as settled as it was, and ends the wait when the
\* timer has expired.
LEMMA ReadyListenSettles ==
    ASSUME NEW b, NEW c, NEW k, Stays(b, c, k), b.consent,
           NEW m, MessageKept(m, k), NEW allowed
    PROVE  Settled(c) \/ m = Timeout => Settled(ReadyListen(c, m, allowed))
<1>1. MaySend(b, Ready)
  BY DEF MaySend, Written, Ready, Hello
<1>2. m.phase = "ready" => Settled(HelloOk(c))
  BY HelloOkSettles DEF MessageKept, Passed
<1>3. Settled(RemoteAbort(c)) /\ Settled(HelloAbort(c))
  BY AbortSettles
<1>4. Settled(Send(StartTimer(c, "WaitForReady"), Ready))
  <2>1. Stays(b, StartTimer(c, "WaitForReady"), k) /\ Timed(StartTimer(c, "WaitForReady"))
    BY Primitives, StartTimerTimed DEF TimerTypes
  <2> QED
    BY <1>1, <2>1, SendTimed DEF Settled
<1>5. Settled(c) => Settled(Send(c, Ready))
  BY <1>1, SendTimed
<1>6. \/ m.phase = "ready" /\ ReadyListen(c, m, allowed) = HelloOk(c)
      \/ m.phase = "pending" /\ ReadyListen(c, m, allowed) \in
            {c, Send(c, Ready), Send(StartTimer(c, "WaitForReady"), Ready)}
      \/ ReadyListen(c, m, allowed) \in {RemoteAbort(c), HelloAbort(c)}
  BY DEF ReadyListen
<1>7. Timeout.phase # "pending"
  BY DEF Timeout, Control
<1> QED
  BY <1>2, <1>3, <1>4, <1>5, <1>6, <1>7

\* PendingListen: an expired timer is replaced or the wait ends; a pending
\* message leaves the wait as it is, answered or with a new timer.
LEMMA PendingListenSettles ==
    ASSUME NEW b, NEW c, NEW k, Stays(b, c, k), "foreign" \notin k,
           NEW m, MessageKept(m, k), NEW allowed
    PROVE  Settled(c) \/ m = Timeout => Settled(PendingListen(c, m, allowed))
<1> DEFINE x == Send(c, ProlongationRequest)
           y == StopTimer(c)
<1>1. Stays(b, x, k) /\ Stays(b, y, k)
  BY Primitives, PlainMessages
<1>2. /\ Timed(StartTimer(x, "ProlongRequestReply"))
      /\ Timed(StartTimer(y, "SendProlongationRequest"))
  BY <1>1, StartTimerTimed
<1>3. Settled(RemoteAbort(c)) /\ Settled(HelloAbort(c))
  BY AbortSettles
<1>4. Settled(c) => Settled(Send(c, Pending))
  BY SendTimed, PlainMessages
<1>5. m.waiting # "short"
  BY OwnMessages DEF MessageKept
<1>6. \/ m # Timeout /\ m.phase = "pending" /\ PendingListen(c, m, allowed) = Send(c, Pending)
      \/ PendingListen(c, m, allowed) \in
            {StartTimer(x, "ProlongRequestReply"), StartTimer(y, "SendProlongationRequest"),
             RemoteAbort(c), HelloAbort(c)}
  BY <1>5 DEF PendingListen, Timeout, Control
<1> HIDE DEF x, y
<1> QED
  BY <1>2, <1>3, <1>4, <1>6 DEF Settled

\* AccessMethodsRequest: the peer's question is answered under the running
\* timer, and its answer ends the wait.
LEMMA AccessMethodsSettles ==
    ASSUME NEW b, NEW c, NEW k, Stays(b, c, k), Passed(b, k), NEW m, NEW ok
    PROVE  Settled(c) \/ m = Timeout => Settled(AccessMethodsRequest(c, m, ok))
<1> DEFINE p == SetState(StopTimer(c), "Approved")
<1>1. Stays(b, p, k) /\ Settled(p)
  BY Primitives, PassedStates, SetStateTimed DEF States, ListenStates
<1>2. Settled(c) => Settled(Send(c, Control("accessMethods")))
  BY SendTimed, PlainMessages
<1>3. Timed(EndWithError(c))
  BY ClosesTimed
<1>4. c.closing => Timed(StopTimer(c))
  BY DEF StopTimer, Timed, Stays, Keeps, Conn
<1>5. \/ m.phase = "accessMethodsRequest"
         /\ AccessMethodsRequest(c, m, ok) = Send(c, Control("accessMethods"))
      \/ AccessMethodsRequest(c, m, ok) = EndWithError(c)
      \/ c.closing /\ AccessMethodsRequest(c, m, ok) = StopTimer(c)
      \/ AccessMethodsRequest(c, m, ok) = ApproveHandshake(p, ok)
  BY DEF AccessMethodsRequest
<1> HIDE DEF p
<1>6. Settled(ApproveHandshake(p, ok))
  BY <1>1, ApproveSettles
<1>7. Timeout.phase # "accessMethodsRequest"
  BY DEF Timeout, Control
<1> QED
  BY <1>2, <1>3, <1>4, <1>5, <1>6, <1>7 DEF Settled

\* handleState, whichever state its thread sampled.
LEMMA HandleStateSettles ==
    ASSUME NEW b, NEW c, NEW k, Stays(b, c, k), "foreign" \notin k, NEW s, SeenKept(b, s, k),
           NEW m \in Heeded, MessageKept(m, k), NEW allowed, NEW ok
    PROVE  Settled(c) \/ (m = Timeout /\ s \in ListenStates) =>
              Settled(HandleState(c, s, m, allowed, ok))
<1>1. s \in Past => Passed(b, k)
  BY DEF SeenKept, Passed, Trusting
<1>2. CASE s \in {"ServerListenProposal", "ServerListenConfirm", "ClientListenChoice",
                  "AskInit", "AskProcess", "AccessMethodsRequest"}
  <2>1. Passed(b, k)
    BY <1>1, <1>2 DEF Past
  <2> QED
    BY <1>2, <2>1, ProtocolSettles, PinCheckSettles, AccessMethodsSettles DEF HandleState
<1>3. CASE s = "ReadyListen"
  <2>1. b.consent
    BY <1>3 DEF SeenKept, Trusting
  <2> QED
    BY <1>3, <2>1, ReadyListenSettles DEF HandleState
<1>4. CASE s = "PendingListen"
  BY <1>4, PendingListenSettles DEF HandleState
<1>5. CASE s \in {"InitStart", "ClientWait", "ServerWait"}
  <2>1. HandleState(c, s, m, allowed, ok) \in
           {InitStart(c), EndWithError(c), ClientWait(c, m, allowed), ServerWait(c, m, allowed)}
    BY <1>5 DEF HandleState
  <2> QED
    BY <2>1, InitSettles, ClosesTimed DEF Settled
<1>6. CASE s \in {"AbortDone", "RemoteAbortDone"}
  BY <1>6, ClosesTimed DEF HandleState, ListenStates
<1>7. CASE s \notin {"ServerListenProposal", "ServerListenConfirm", "ClientListenChoice",
                     "AskInit", "AskProcess", "AccessMethodsRequest", "ReadyListen",
                     "PendingListen", "InitStart", "ClientWait", "ServerWait", "AbortDone",
                     "RemoteAbortDone"}
  BY <1>7 DEF HandleState, ListenStates
<1> QED
  BY <1>2, <1>3, <1>4, <1>5, <1>6, <1>7

\* Whatever the read pump hands over.
LEMMA ReceivedSettles ==
    ASSUME NEW b, NEW c, NEW k, Stays(b, c, k), "foreign" \notin k, NEW s, SeenKept(b, s, k),
           NEW m \in Heeded, MessageKept(m, k), NEW allowed, NEW ok, Settled(c)
    PROVE  Settled(Received(c, s, m, allowed, ok))
<1>0. Timed(CloseConnection(c, FALSE))
  BY ClosesTimed
<1>1. CASE m = EOF
  <2> DEFINE x == SetState(c, "Rejected")
             y == SetState(c, "Error")
  <2>1. Stays(b, x, k) /\ Stays(b, y, k)
    BY Primitives, PlainStates
  <2>2. Received(c, s, m, allowed, ok) = ConnectionError(c, s)
    BY <1>1 DEF Received, EOF, Control
  <2>3. CASE c.closing
    BY <2>2, <2>3 DEF ConnectionError
  <2>4. CASE ~c.closing /\ s = "ReadyListen"
    <3>1. ConnectionError(c, s) = CloseConnection(x, FALSE)
      BY <2>4 DEF ConnectionError
    <3> QED
      BY <2>1, <2>2, <3>1, ClosesTimed DEF Settled
  <2>5. CASE ~c.closing /\ s \in {"RemoteAbortDone", "Abort", "AbortDone"}
    <3>1. ConnectionError(c, s) = CloseConnection(c, FALSE)
      BY <2>5 DEF ConnectionError
    <3> QED
      BY <1>0, <2>2, <3>1 DEF Settled
  <2>6. CASE ~c.closing /\ s \notin {"ReadyListen", "RemoteAbortDone", "Abort", "AbortDone"}
    <3>1. ConnectionError(c, s) = CloseConnection(y, FALSE)
      BY <2>6 DEF ConnectionError
    <3> QED
      BY <2>1, <2>2, <3>1, ClosesTimed DEF Settled
  <2> QED
    BY <2>3, <2>4, <2>5, <2>6
<1>2. CASE m # EOF /\ m.phase = "datagram"
  <2> DEFINE e == [c EXCEPT !.delivered = TRUE]
             f == [c EXCEPT !.buffered = @ + 1]
  <2>1. Settled(e) /\ Settled(f)
    BY DEF Settled, Timed, Stays, Keeps, Conn
  <2>2. HandleDatagram(c) \in {c, CloseConnection(c, FALSE), e, f}
    BY DEF HandleDatagram
  <2>3. Received(c, s, m, allowed, ok) = HandleDatagram(c)
    BY <1>2 DEF Received
  <2> HIDE DEF e, f
  <2> QED
    BY <1>0, <2>1, <2>2, <2>3 DEF Settled
<1>3. CASE m # EOF /\ m.phase # "datagram"
  <2> DEFINE x == NoError(Write(c, Control("confirm")))
  <2>1. Stays(b, x, k)
    BY Primitives, PlainMessages
  <2>2. HandleShipMessage(c, s, m, allowed, ok) \in
           {CloseConnection(x, FALSE), CloseConnection(c, FALSE),
            HandleState(c, s, m, allowed, ok)}
    BY DEF HandleShipMessage
  <2>3. Received(c, s, m, allowed, ok) = HandleShipMessage(c, s, m, allowed, ok)
    BY <1>3 DEF Received
  <2> HIDE DEF x
  <2>4. Timed(CloseConnection(x, FALSE))
    BY <2>1, ClosesTimed
  <2>5. Settled(HandleState(c, s, m, allowed, ok))
    BY HandleStateSettles
  <2> QED
    BY <1>0, <2>2, <2>3, <2>4, <2>5 DEF Settled
<1> QED
  BY <1>1, <1>2, <1>3

\* A step in which the endpoint r becomes a watched one.
LEMMA WatchedStep ==
    ASSUME Inv, TimeInv, NEW r \in Local, NEW d, ep' = [ep EXCEPT ![r] = d], Watched(d)
    PROVE  TimeInv'
<1>1. Local' = Local
  BY DEF Inv, EndInv, Local
<1>2. \A q \in Local : ep'[q] = IF q = r THEN d ELSE ep[q]
  BY DEF Local
<1>3. \A q \in Local : Watched(ep'[q])
  BY <1>2 DEF TimeInv
<1> QED
  BY <1>1, <1>3 DEF TimeInv, Watched, Settled, Timed

\* A step that installs the record a handler returned.
LEMMA WatchedUpdate ==
    ASSUME Inv, TimeInv, NEW r \in Local, NEW c \in Conn, Update(r, c), Watched(c)
    PROVE  TimeInv'
<1>1. Watched([c EXCEPT !.out = <<>>])
  BY DEF Watched, Settled, Timed, Conn
<1> QED
  BY <1>1, WatchedStep DEF Update

\* The endpoint a, seen by a thread that is about to call a handler, ...
Alike(a, b) ==
    /\ b.closing = a.closing /\ b.timer = a.timer /\ b.state = a.state /\ b.expiry = a.expiry

\* ... stays watched by a call that leaves a settled endpoint settled.
LEMMA WatchedCall ==
    ASSUME NEW a, Watched(a), NEW b, Alike(a, b), NEW c, NEW k, Leaves(b, c, k),
           Settled(b) => Settled(c)
    PROVE  c \in Conn /\ Watched(c)
<1>1. Settled(a) => Settled(b)
  BY DEF Alike, Settled, Timed
<1> QED
  BY <1>1 DEF Alike, Watched, Leaves

\* A change of what no wait depends on keeps the endpoint watched.
LEMMA WatchedAlike ==
    ASSUME NEW a, Watched(a), NEW b, Alike(a, b)
    PROVE  Watched(b)
BY DEF Alike, Watched, Settled, Timed

\* Every thread of a session of two instances keeps the endpoints watched.
LEMMA TwoEnds ==
    ASSUME Inv, TimeInv, NEW r \in Local
    PROVE  /\ r \in Roles /\ Peer(r) \in Local /\ "foreign" \notin Known(r)
           /\ Stays(ep[r], ep[r], Known(r)) /\ ep[r] \in Conn /\ Watched(ep[r])
           /\ ep[r].read.seen # "provider"
<1>1. r \in Roles /\ Peer(r) \in Local
  BY PeerRoles DEF TimeInv
<1>2. "foreign" \notin Known(r)
  BY <1>1 DEF Known
<1>3. Stays(ep[r], ep[r], Known(r)) /\ ep[r] \in Conn /\ Watched(ep[r])
  BY OwnPromises DEF Inv, TimeInv
<1>4. ep[r].read.seen # "provider"
  BY <1>2, <1>3 DEF Stays, Keeps, ConsentKept
<1> QED
  BY <1>1, <1>2, <1>3, <1>4

\* The steps that call no handler but set the endpoint's threads.
LEMMA SampleTime ==
    ASSUME Inv, TimeInv, NEW r \in Local,
           RunInit(r) \/ RunSample(r) \/ ReadSample(r) \/ ReadEOF(r) \/ ErrorSample(r)
    PROVE  TimeInv'
<1> DEFINE a == ep[r]
<1>1. Watched(a) /\ a \in Conn
  BY TwoEnds
<1>2. ASSUME NEW d, Alike(a, d), ep' = [ep EXCEPT ![r] = d] PROVE TimeInv'
  BY <1>1, <1>2, WatchedStep, WatchedAlike
<1>3. CASE RunInit(r)
  <2> DEFINE d == [[a EXCEPT !.started = "pumps"] EXCEPT !.out = <<>>]
  <2>1. ep' = [ep EXCEPT ![r] = d]
    BY <1>3 DEF RunInit, Update
  <2>2. Alike(a, d)
    BY <1>1 DEF Alike, Conn
  <2> QED
    BY <1>2, <2>1, <2>2
<1>4. CASE RunSample(r)
  <2> DEFINE t == IF a.closing THEN Idle ELSE [msg |-> NoMessage, seen |-> a.state]
             d == [[a EXCEPT !.started = "yes", !.run = t] EXCEPT !.out = <<>>]
  <2>1. ep' = [ep EXCEPT ![r] = d]
    BY <1>4 DEF RunSample, Update
  <2> HIDE DEF t
  <2>2. Alike(a, d)
    BY <1>1 DEF Alike, Conn
  <2> QED
    BY <1>2, <2>1, <2>2
<1>5. CASE ReadSample(r)
  <2> DEFINE t == [msg |-> Head(wire[r]), seen |-> a.state]
             d == [a EXCEPT !.read = t]
  <2>1. ep' = [ep EXCEPT ![r] = d]
    BY <1>5 DEF ReadSample
  <2> HIDE DEF t
  <2>2. Alike(a, d)
    BY <1>1 DEF Alike, Conn
  <2> QED
    BY <1>2, <2>1, <2>2
<1>6. CASE ReadEOF(r)
  <2> DEFINE t == [msg |-> EOF, seen |-> "broken"]
             d == [[a EXCEPT !.sock = "breaking", !.read = t] EXCEPT !.out = <<>>]
  <2>1. ep' = [ep EXCEPT ![r] = d]
    BY <1>6 DEF ReadEOF, Update
  <2> HIDE DEF t
  <2>2. Alike(a, d)
    BY <1>1 DEF Alike, Conn
  <2> QED
    BY <1>2, <2>1, <2>2
<1>7. CASE ErrorSample(r)
  <2> DEFINE t == [a.read EXCEPT !.seen = a.state]
             d == [[a EXCEPT !.sock = "closed", !.read = t] EXCEPT !.out = <<>>]
  <2>1. [a EXCEPT !.sock = "closed", !.read.seen = a.state]
           = [a EXCEPT !.sock = "closed", !.read = t]
    BY <1>1 DEF Conn
  <2>2. ep' = [ep EXCEPT ![r] = d]
    BY <1>7, <2>1 DEF ErrorSample, Update
  <2> HIDE DEF t
  <2>3. Alike(a, d)
    BY <1>1 DEF Alike, Conn
  <2> QED
    BY <1>2, <2>2, <2>3
<1> QED
  BY <1>3, <1>4, <1>5, <1>6, <1>7

\* The Run goroutine and the read pump inside a handler.
LEMMA CallTime ==
    ASSUME Inv, TimeInv, NEW r \in Local, RunAct(r) \/ ReadAct(r)
    PROVE  TimeInv'
<1> DEFINE a == ep[r]
           k == Known(r)
<1>1. /\ Stays(a, a, k) /\ a \in Conn /\ Watched(a) /\ "foreign" \notin k
  BY TwoEnds
<1> HIDE DEF a, k
<1>2. CASE RunAct(r)
  <2> DEFINE b == [a EXCEPT !.run = Idle]
  <2>1. b \in Returned(a) /\ b.consent = a.consent /\ b.role = a.role /\ Alike(a, b)
    BY <1>1 DEF Returned, Conn, Alike
  <2>2. Stays(b, b, k) /\ SeenKept(b, a.run.seen, k)
    BY <1>1, <2>1, ReturnKeeps DEF Stays, Keeps, ConsentKept, SeenKept
  <2>3. PICK allowed, ok : Update(r, HandleState(b, a.run.seen, NoMessage, allowed, ok))
    BY <1>2 DEF RunAct, a
  <2> HIDE DEF b
  <2> DEFINE c == HandleState(b, a.run.seen, NoMessage, allowed, ok)
  <2>4. Leaves(b, c, k) /\ (Settled(b) => Settled(c))
    BY <1>1, <2>2, HandleStateStays, HandleStateSettles, IdleThread
  <2> HIDE DEF c
  <2>5. c \in Conn /\ Watched(c)
    BY <1>1, <2>1, <2>4, WatchedCall
  <2> QED
    BY <2>3, <2>5, WatchedUpdate DEF c
<1>3. CASE ReadAct(r)
  <2> DEFINE b == [a EXCEPT !.read = Idle]
  <2>1. b \in Returned(a) /\ b.consent = a.consent /\ b.role = a.role /\ Alike(a, b)
    BY <1>1 DEF Returned, Conn, Alike
  <2>2. Stays(b, b, k) /\ SeenKept(b, a.read.seen, k)
    BY <1>1, <2>1, ReturnKeeps DEF Stays, Keeps, ConsentKept, SeenKept
  <2>3. PICK m, allowed, ok : /\ m \in Content(a.read.msg)
                              /\ Update(r, Received(b, a.read.seen, m, allowed, ok))
    BY <1>3 DEF ReadAct, a
  <2>4. m \in Heeded /\ MessageKept(m, k)
    <3>1. /\ a.read.msg \in Messages \cup {NoMessage, Anything, Timeout, EOF}
          /\ MessageKept(a.read.msg, k)
          /\ a.read.msg = Anything => {"consent", "data", "foreign"} \subseteq k
      BY <1>1 DEF Stays, Keeps, ConsentKept, Conn, Thread
    <3> QED
      BY <1>1, <2>3, <3>1 DEF Content, Heeded
  <2> HIDE DEF b
  <2> DEFINE c == Received(b, a.read.seen, m, allowed, ok)
  <2>5. Leaves(b, c, k) /\ (Settled(b) => Settled(c))
    BY <1>1, <2>2, <2>4, ReceivedStays, ReceivedSettles
  <2> HIDE DEF c
  <2>6. c \in Conn /\ Watched(c)
    BY <1>1, <2>1, <2>5, WatchedCall
  <2> QED
    BY <2>3, <2>6, WatchedUpdate DEF c
<1> QED
  BY <1>2, <1>3

\* The timer's callback: a wait that it finds ends or is timed again.
LEMMA TimerTime ==
    ASSUME Inv, TimeInv, NEW r \in Local, TimerExpire(r) \/ TimerThread(r)
    PROVE  TimeInv'
<1> DEFINE a == ep[r]
           k == Known(r)
<1>1. /\ Stays(a, a, k) /\ a \in Conn /\ Watched(a) /\ "foreign" \notin k
  BY TwoEnds
<1> HIDE DEF a, k
<1>2. CASE TimerExpire(r)
  <2> DEFINE t == [msg |-> Timeout, seen |-> "fired"]
             c == [a EXCEPT !.timer = FALSE, !.expiry = t]
             d == [c EXCEPT !.out = <<>>]
  <2>1. [StopTimer(a) EXCEPT !.expiry = t] = c
    BY <1>1 DEF StopTimer, Conn
  <2>2. ep' = [ep EXCEPT ![r] = d]
    BY <1>2, <2>1 DEF TimerExpire, Update, a
  <2>3. t.seen = "fired"
    OBVIOUS
  <2> HIDE DEF t
  <2>4. d.expiry = t
    BY <1>1 DEF Conn
  <2>5. Watched(d)
    BY <2>3, <2>4 DEF Watched
  <2> HIDE DEF d
  <2> QED
    BY <2>2, <2>5, WatchedStep
<1>3. CASE TimerSample(r)
  <2> DEFINE t == IF a.closing THEN Idle ELSE [msg |-> Timeout, seen |-> a.state]
             d == [[a EXCEPT !.expiry = t] EXCEPT !.out = <<>>]
  <2>1. ep' = [ep EXCEPT ![r] = d]
    BY <1>3 DEF TimerSample, Update, a
  <2>2. a.closing \/ t.seen = a.state
    OBVIOUS
  <2> HIDE DEF t
  <2>3. d.expiry = t /\ d.closing = a.closing /\ d.state = a.state
    BY <1>1 DEF Conn
  <2>4. Watched(d)
    BY <2>2, <2>3 DEF Watched, Settled, Timed
  <2> HIDE DEF d
  <2> QED
    BY <2>1, <2>4, WatchedStep
<1>4. CASE TimerAct(r)
  <2> DEFINE b == [a EXCEPT !.expiry = Idle]
  <2>1. /\ b \in Returned(a) /\ b.consent = a.consent /\ b.role = a.role
        /\ b.closing = a.closing /\ b.timer = a.timer /\ b.state = a.state
    BY <1>1 DEF Returned, Conn
  <2>2. Stays(b, b, k) /\ SeenKept(b, a.expiry.seen, k)
    BY <1>1, <2>1, ReturnKeeps DEF Stays, Keeps, ConsentKept, SeenKept
  <2>3. PICK allowed : Update(r, HandleState(b, a.expiry.seen, Timeout, allowed, TRUE))
    BY <1>4 DEF TimerAct, a
  <2>4. Settled(b) \/ a.expiry.seen \in ListenStates
    <3>1. a.expiry.seen # "fired"
      BY <1>4 DEF TimerAct, States, a
    <3> QED
      BY <1>1, <2>1, <3>1 DEF Watched, Settled, Timed
  <2> HIDE DEF b
  <2>5. \A ok : /\ Leaves(b, HandleState(b, a.expiry.seen, Timeout, allowed, ok), k)
                /\ Settled(HandleState(b, a.expiry.seen, Timeout, allowed, ok))
    BY <1>1, <2>2, <2>4, HandleStateStays, HandleStateSettles, IdleThread
  <2> DEFINE c == HandleState(b, a.expiry.seen, Timeout, allowed, TRUE)
  <2>6. Leaves(b, c, k) /\ Settled(c)
    BY <2>5
  <2> HIDE DEF c
  <2>7. c \in Conn /\ Watched(c)
    BY <2>6 DEF Leaves, Watched
  <2> QED
    BY <2>3, <2>7, WatchedUpdate DEF c
<1> QED
  BY <1>2, <1>3, <1>4 DEF TimerThread

\* The user registers the peer or refuses it, and the rest of either call.
LEMMA UserTime ==
    ASSUME Inv, TimeInv, NEW r \in Local, Approve(r) \/ AbortPending(r) \/ UserThread(r)
    PROVE  TimeInv'
<1> DEFINE a == ep[r]
           k == Known(r)
           b == [a EXCEPT !.user = Idle]
<1>1. /\ Stays(a, a, k) /\ a \in Conn /\ Watched(a) /\ a.writeError = FALSE /\ a.role = r
  BY TwoEnds DEF Inv, EndInv
<1> HIDE DEF a, k
<1>2. b \in Returned(a) /\ b.consent = a.consent /\ b.role = a.role /\ Alike(a, b)
  BY <1>1 DEF Returned, Conn, Alike
<1>3. Stays(b, b, k)
  BY <1>1, <1>2, ReturnKeeps
<1>4. ASSUME NEW d \in Conn, Alike(a, d), Update(r, d) PROVE TimeInv'
  BY <1>1, <1>4, WatchedAlike, WatchedUpdate
<1>5. CASE Approve(r)
  <2> DEFINE c == [a EXCEPT !.trusted = TRUE, !.consent = TRUE]
             q == [c EXCEPT !.requested = TRUE]
             t == [msg |-> NoMessage, seen |-> "approve"]
             u == [c EXCEPT !.user = t]
  <2>1. /\ c \in Conn /\ c.writeError = FALSE /\ c.consent = TRUE
        /\ c.role = a.role /\ c.state = a.state /\ Alike(a, c)
    BY <1>1 DEF Conn, Alike
  <2>2. CloseKept(c) /\ ConsentKept(c, k)
    BY <1>1 DEF Stays, Keeps, Conn, CloseKept, ConsentKept, SeenKept, MessageKept
  <2>3. c.state = "Approved" => Passed(c, k)
    BY <2>1, <2>2 DEF ConsentKept, SeenKept, Passed, Trusting, Past
  <2> HIDE DEF c
  <2>4. /\ q \in Conn /\ q.writeError = FALSE /\ q.role = c.role /\ q.consent = c.consent
        /\ Alike(a, q)
    BY <2>1 DEF Conn, Alike
  <2>5. Stays(q, q, k)
    <3>1. CloseKept(q)
      BY <2>1, <2>2 DEF Conn, CloseKept
    <3>2. ConsentKept(q, k)
      BY <2>1, <2>2 DEF Conn, ConsentKept, SeenKept, MessageKept
    <3> QED
      BY <2>4, <3>1, <3>2 DEF Stays, Keeps
  <2>6. t \in Thread
    BY DEF Thread
  <2> HIDE DEF t
  <2>7. u \in Conn /\ Alike(a, u)
    BY <2>1, <2>6 DEF Conn, Alike
  <2> HIDE DEF q, u
  <2>8. PICK ok \in Setups(ep[r]) :
           Update(r, CASE r \in RequireApproval -> ApproveRequired(c, ok)
                       [] r \notin RequireApproval /\ c.state = "PendingListen" -> u
                       [] OTHER -> c)
    BY <1>5 DEF Approve, a, c, u, t
  <2> DEFINE h == ApproveHandshake(q, ok)
  <2>9. CASE Update(r, c) \/ Update(r, q) \/ Update(r, u)
    BY <1>4, <2>1, <2>4, <2>7, <2>9
  <2>10. CASE c.state = "Approved" /\ Update(r, h)
    <3>1. Leaves(q, h, k)
      BY <2>3, <2>4, <2>5, <2>10, ApproveStays DEF Passed
    <3>2. Settled(q) => Settled(h)
      BY <2>5, ApproveSettles
    <3> HIDE DEF h
    <3>3. h \in Conn /\ Watched(h)
      BY <1>1, <2>4, <3>1, <3>2, WatchedCall
    <3> QED
      BY <2>10, <3>3, WatchedUpdate
  <2>11. ApproveRequired(c, ok) \in {c, q}
            \/ (c.state = "Approved" /\ ApproveRequired(c, ok) = h)
    BY DEF ApproveRequired, q
  <2> HIDE DEF h
  <2> QED
    BY <2>8, <2>9, <2>10, <2>11
<1>6. CASE ApproveAct(r)
  <2> DEFINE i == ReadyInit(StopTimer(b))
             c == HelloOk(i)
  <2>1. a.consent /\ a.role = "server"
    BY <1>1, <1>6 DEF ApproveAct, a, Stays, Keeps, ConsentKept
  <2>2. Passed(b, k)
    BY <1>2, <2>1 DEF Passed
  <2>3. Update(r, c)
    BY <1>6 DEF ApproveAct, a
  <2> HIDE DEF b
  <2>4. Stays(b, i, k)
    BY <1>2, <1>3, <2>1, Primitives, ReadyInitStays
  <2> HIDE DEF i
  <2>5. Stays(b, c, k) /\ Settled(c)
    BY <2>2, <2>4, HelloOkStays, HelloOkSettles
  <2> HIDE DEF c
  <2>6. c \in Conn /\ Watched(c)
    BY <2>5 DEF Stays, Keeps, Watched
  <2> QED
    BY <2>3, <2>6, WatchedUpdate
<1>7. CASE AbortPending(r)
  <2> DEFINE t == [msg |-> NoMessage, seen |-> "abort"]
             d == [a EXCEPT !.user = t]
             c == CloseConnection(a, FALSE)
  <2>1. t \in Thread
    BY DEF Thread
  <2> HIDE DEF t
  <2>2. d \in Conn /\ Alike(a, d) /\ Alike(a, a)
    BY <1>1, <2>1 DEF Conn, Alike
  <2>3. Stays(a, c, k) /\ Timed(c)
    BY <1>1, Primitives, ClosesTimed
  <2>4. Update(r, c) \/ Update(r, d) \/ Update(r, a)
    BY <1>7 DEF AbortPending, a, t
  <2> HIDE DEF c, d
  <2>5. c \in Conn /\ Watched(c)
    BY <2>3 DEF Stays, Keeps, Watched, Settled
  <2> QED
    BY <1>1, <1>4, <2>2, <2>4, <2>5, WatchedUpdate
<1>8. CASE AbortAct(r)
  <2> DEFINE c == HelloAbort(StopTimer(b))
  <2>1. Update(r, c)
    BY <1>8 DEF AbortAct, a
  <2> HIDE DEF b
  <2>2. Stays(b, c, k) /\ Settled(c)
    BY <1>3, Primitives, AbortStays, AbortSettles
  <2> HIDE DEF c
  <2>3. c \in Conn /\ Watched(c)
    BY <2>2 DEF Stays, Keeps, Watched
  <2> QED
    BY <2>1, <2>3, WatchedUpdate
<1> QED
  BY <1>5, <1>6, <1>7, <1>8 DEF UserThread

\* The hub closes, the delayed close of an abort, and the SPINE device sends.
LEMMA HubTime ==
    ASSUME Inv, TimeInv, NEW r \in Local, UserClose(r) \/ DelayedClose(r) \/ SendSpine(r)
    PROVE  TimeInv'
<1> DEFINE a == ep[r]
           k == Known(r)
<1>1. Stays(a, a, k) /\ a \in Conn /\ Watched(a) /\ a.writeError = FALSE
  BY TwoEnds DEF Inv, EndInv
<1> HIDE DEF a, k
<1>2. CASE UserClose(r)
  <2>1. PICK safe : Update(r, CloseConnection(a, safe))
    BY <1>2 DEF UserClose, a
  <2> DEFINE c == CloseConnection(a, safe)
  <2>2. Keeps(a, c, k) /\ c.closing
    BY <1>1, CloseKeeps DEF Stays
  <2> HIDE DEF c
  <2>3. c \in Conn /\ Watched(c)
    BY <2>2 DEF Keeps, Watched, Settled, Timed
  <2> QED
    BY <2>1, <2>3, WatchedUpdate DEF c
<1>3. CASE DelayedClose(r)
  <2> DEFINE b == [a EXCEPT !.delayed = FALSE]
             c == CloseConnection(b, FALSE)
  <2>1. /\ b \in Conn /\ b.writeError = FALSE
    BY <1>1 DEF Conn
  <2>2. CloseKept(b) /\ ConsentKept(b, k)
    BY <1>1 DEF Stays, Keeps, Conn, CloseKept, ConsentKept, SeenKept, MessageKept
  <2>3. Update(r, c)
    BY <1>3 DEF DelayedClose, a
  <2> HIDE DEF b
  <2>4. Stays(b, b, k)
    BY <2>1, <2>2 DEF Stays, Keeps
  <2>5. Stays(b, c, k) /\ Timed(c)
    BY <2>4, Primitives, ClosesTimed
  <2> HIDE DEF c
  <2>6. c \in Conn /\ Watched(c)
    BY <2>5 DEF Stays, Keeps, Watched, Settled
  <2> QED
    BY <2>3, <2>6, WatchedUpdate
<1>4. CASE SendSpine(r)
  <2> DEFINE b == [a EXCEPT !.sent = @ + 1]
             w == Write(b, Control("datagram"))
             c == NoError(w)
  <2>1. a.sent + 1 \in 0 .. MaxData /\ a.reader
    BY <1>1, <1>4, BoundAssumption DEF SendSpine, a, Conn, Stays, Keeps, ConsentKept
  <2>2. b \in Conn /\ b.writeError = FALSE /\ b.reader = a.reader /\ Alike(a, b)
    BY <1>1, <2>1 DEF Conn, Alike
  <2>3. CloseKept(b) /\ ConsentKept(b, k)
    BY <1>1 DEF Stays, Keeps, Conn, CloseKept, ConsentKept, SeenKept, MessageKept
  <2>4. MaySend(b, Control("datagram"))
    BY <2>1, <2>2 DEF MaySend, Written, Control
  <2>5. Update(r, c)
    BY <1>4 DEF SendSpine, a
  <2> HIDE DEF b
  <2>6. Stays(b, b, k)
    BY <2>2, <2>3 DEF Stays, Keeps
  <2>7. Stays(b, c, k) /\ Keeps(b, w, k)
    BY <2>4, <2>6, Primitives, WriteKeeps
  <2>8. c.closing = w.closing /\ c.timer = w.timer /\ c.state = w.state
    BY <2>7 DEF NoError, Keeps, Conn
  <2>9. w = CloseConnection(b, FALSE) \/ (w.timer = b.timer /\ w.closing = b.closing
                                         /\ w.state = b.state)
    BY <2>2 DEF Write, Conn
  <2>10. Timed(CloseConnection(b, FALSE))
    BY <2>6, ClosesTimed
  <2> HIDE DEF w, c
  <2>11. Settled(b) => Settled(c)
    BY <2>8, <2>9, <2>10 DEF Settled, Timed
  <2>12. c \in Conn /\ Watched(c)
    BY <1>1, <2>2, <2>7, <2>11, WatchedCall, StaysLeaves
  <2> QED
    BY <2>5, <2>12, WatchedUpdate
<1> QED
  BY <1>2, <1>3, <1>4

\* The rest of a close.
LEMMA CloseTime ==
    ASSUME Inv, TimeInv, NEW r \in Local, CloseThread(r)
    PROVE  TimeInv'
<1> DEFINE a == ep[r]
<1>1. Stays(a, a, Known(r)) /\ a \in Conn /\ a.finish # "none"
  BY TwoEnds DEF CloseThread, FinishClose, GraceClose
<1>2. a.closing
  BY <1>1 DEF Stays, Keeps, CloseKept
<1>3. CASE CloseData(r)
  <2> DEFINE c == [a EXCEPT !.sock = "closed", !.finish = "done", !.reported = @ + 1]
  <2>1. ep' = [ep EXCEPT ![r] = c]
    BY <1>3 DEF CloseData
  <2> HIDE DEF a
  <2>2. c.closing
    BY <1>1, <1>2 DEF Conn
  <2> HIDE DEF c
  <2>3. Watched(c)
    BY <2>2 DEF Watched, Settled, Timed
  <2> QED
    BY <2>1, <2>3, WatchedStep
<1>4. CASE FinishClose(r) /\ ~CloseData(r)
  <2> DEFINE o == IF a.sock = "open" THEN << Control("announce") >> ELSE <<>>
             c == [[a EXCEPT !.finish = "grace", !.out = o] EXCEPT !.out = <<>>]
  <2>1. ep' = [ep EXCEPT ![r] = c]
    BY <1>4 DEF FinishClose, Update
  <2> HIDE DEF a, o
  <2>2. c.closing
    BY <1>1, <1>2 DEF Conn
  <2> HIDE DEF c
  <2>3. Watched(c)
    BY <2>2 DEF Watched, Settled, Timed
  <2> QED
    BY <2>1, <2>3, WatchedStep
<1> QED
  BY <1>3, <1>4 DEF CloseThread, GraceClose

\* Every step keeps the endpoints watched.
LEMMA NextTime ==
    ASSUME Inv, TimeInv, [Next]_vars
    PROVE  TimeInv'
<1>1. ASSUME NEW r \in Local, RunThread(r) PROVE TimeInv'
  BY <1>1, SampleTime, CallTime DEF RunThread
<1>2. ASSUME NEW r \in Local, ReadThread(r) PROVE TimeInv'
  <2>1. ~ProvidePin(r) /\ ~PinWriteFails(r)
    BY TwoEnds DEF ProvidePin, PinWriteFails
  <2> QED
    BY <1>2, <2>1, SampleTime, CallTime DEF ReadThread
<1>3. ASSUME NEW r \in Local PROVE ~ForeignSend(r)
  BY <1>3, TwoEnds DEF ForeignSend
<1>4. CASE \E r \in Local : Code(r)
  BY <1>1, <1>2, <1>4, TimerTime, UserTime, CloseTime, HubTime DEF Code
<1>5. CASE \E r \in Local : Environment(r)
  BY <1>3, <1>5, TimerTime, UserTime, HubTime DEF Environment
<1>6. CASE LinkBreaks \/ UNCHANGED vars
  <2>1. ep' = ep
    BY <1>6 DEF LinkBreaks, vars
  <2> QED
    BY <2>1 DEF TimeInv, Local, Watched, Settled, Timed
<1> QED
  BY <1>4, <1>5, <1>6 DEF Next

\* In a session of two instances of this code a handshake that waits for its peer
\* has a running timer, or one whose callback has not returned.
THEOREM WaitsAreTimed ==
    ASSUME \A s \in Sessions : s = Roles
    PROVE  Spec => []WaitIsTimed
<1>1. Init => TimeInv
  <2> SUFFICES ASSUME Init PROVE TimeInv
    OBVIOUS
  <2>1. PICK session \in Sessions, paired \in BOOLEAN, may \in Scenarios :
           ep = [r \in session |-> NewConnection(r, paired, may)]
    BY DEF Init
  <2>2. Local = Roles /\ \A r \in Local : ep[r] = NewConnection(r, paired, may)
    BY <2>1 DEF Local
  <2>3. ASSUME NEW r \in Local PROVE ep[r].state = "InitStart"
    <3> DEFINE s == paired \/ r = "client"
    <3>1. ep[r] = [role |-> r, may |-> may, state |-> "InitStart", timer |-> FALSE,
                   timerType |-> "WaitForReady", closing |-> FALSE, finish |-> "none",
                   delayed |-> FALSE, sock |-> "open", reported |-> 0, trusted |-> paired,
                   consent |-> s, requested |-> FALSE, setup |-> FALSE, reader |-> FALSE,
                   buffered |-> 0, delivered |-> FALSE, sent |-> 0, pinSent |-> FALSE,
                   pinWrites |-> 0, run |-> Idle, read |-> Idle, expiry |-> Idle,
                   user |-> Idle, started |-> "no", writeError |-> FALSE, out |-> <<>>]
      BY <2>2 DEF NewConnection
    <3> HIDE DEF s
    <3> QED
      BY <3>1
  <2> QED
    BY <2>2, <2>3 DEF TimeInv, Watched, Settled, ListenStates
<1>2. Inv /\ TimeInv /\ [Next]_vars => TimeInv'
  BY NextTime
<1>3. TimeInv => WaitIsTimed
  <2>1. Idle.seen \notin ListenStates \cup {"fired"}
    BY DEF Idle, ListenStates
  <2> QED
    BY <2>1 DEF TimeInv, Watched, Settled, Timed, WaitIsTimed
<1> QED
  BY <1>1, <1>2, <1>3, Promises, PTL DEF Spec
==============================================================================
