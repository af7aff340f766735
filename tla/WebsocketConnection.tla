------------------------- MODULE WebsocketConnection -------------------------
(***************************************************************************)
(* The websocket of one SHIP connection (ws/websocket.go): threads that    *)
(* write messages through a channel of one place, the write pump that      *)
(* takes them from there, pings, the read pump, the thread that writes the *)
(* PIN past the channel, and whoever closes the connection.                *)
(*                                                                         *)
(* A step is one lock section, one choice of a select, or one call of the  *)
(* websocket library.  A message is the pair of its writer and its number. *)
(***************************************************************************)
EXTENDS Naturals, Sequences

CONSTANTS
    Writers,       \* callers of WriteMessageToWebsocketConnection
    MaxMessages,   \* bound: messages they write
    MaxPings,      \* bound: pings
    MayBreak,      \* may the link break?
    MayClose       \* may CloseDataConnection be called?

ASSUME WriterAssumption == Writers \cap {"pump", "reader", "pin", "closer"} = {}
ASSUME BoundAssumption ==
    MaxMessages \in Nat /\ MaxPings \in Nat
    /\ MayBreak \in BOOLEAN /\ MayClose \in BOOLEAN

VARIABLES
    pc,          \* where each thread is
    held,        \* the writer that holds muxShipWrite, or "nobody"
    channel,     \* shipWriteChannel
    hand,        \* the message the write pump has taken from it, in a sequence
    once,        \* shutdownOnce: free, the step close is at, or done
    closed,      \* connectionClosed
    signal,      \* closeChannel is closed
    link,        \* the connection of the library: up, broken or closed
    wire,        \* the messages that went out, the PIN included
    begun,       \* messages begun
    current,     \* the number of each writer's message
    ok,          \* messages whose write returned nil
    reports,     \* ReportConnectionError calls; each has set connectionClosedError
    pings        \* pings begun

traffic == <<channel, hand, wire>>
closing == <<once, closed, signal>>
history == <<begun, current, ok, pings>>
vars    == <<pc, held, traffic, closing, reports, link, history>>

Threads == Writers \cup {"pump", "reader", "pin", "closer"}
PIN     == <<"pin", 1>>
Go(t, place) == pc' = [pc EXCEPT ![t] = place]

\* setConnClosedError(nil), close(closeChannel) and conn.Close, in this order, by
\* the thread that has won shutdownOnce; run waits for muxLifecycle meanwhile.
CloseStep ==
    /\ \/ /\ once = "flag" /\ once' = "signal"
          /\ closed' = TRUE
          /\ UNCHANGED <<signal, link>>
       \/ /\ once = "signal" /\ once' = "conn"
          /\ signal' = TRUE
          /\ UNCHANGED <<closed, link>>
       \/ /\ once = "conn" /\ once' = "done"
          /\ link' = "closed"
          /\ UNCHANGED <<closed, signal>>
    /\ UNCHANGED <<pc, held, traffic, reports, history>>

\* A call of close: the first one starts it.
StartClose(t) ==
    /\ pc[t] \in {"close", "fail", "pingfail"} /\ once = "free"
    /\ once' = "flag"
    /\ UNCHANGED <<pc, held, traffic, closed, signal, reports, link, history>>

\* closeWithError, and the same lines of the read pump, after close has returned.
\* The report of the PIN writer does not return unless the SHIP connection is closing
\* already: its close waits for shipWriteMux, which the PIN writer's caller holds.
ReportConnectionError(t) ==
    /\ pc[t] \in {"fail", "pingfail"} /\ once = "done"
    /\ reports' = reports + 1
    /\ \/ Go(t, IF pc[t] = "pingfail" THEN "select" ELSE "end")
       \/ t = "pin" /\ Go(t, "stuck")
    /\ UNCHANGED <<held, traffic, closing, link, history>>
-------------------------------------------------------------------------------
(* InitDataProcessing, and the pumps.                                      *)

run ==
    /\ pc["pump"] = "off" /\ once \in {"free", "done"}
    /\ pc' = [pc EXCEPT !["pump"] = IF closed THEN "end" ELSE "select",
                        !["reader"] = IF closed THEN "end" ELSE "read"]
    /\ UNCHANGED <<held, traffic, closing, reports, link, history>>

\* The select of the write pump.
writeShipPump ==
    /\ pc["pump"] = "select"
    /\ \/ signal /\ Go("pump", "end") /\ UNCHANGED <<channel, hand, pings>>
       \/ /\ channel # <<>>
          /\ hand' = <<Head(channel)>> /\ channel' = Tail(channel)
          /\ Go("pump", "taken")
          /\ UNCHANGED pings
       \/ /\ pings < MaxPings /\ pings' = pings + 1
          /\ Go("pump", IF closed THEN "select" ELSE "ping")
          /\ UNCHANGED <<channel, hand>>
    /\ UNCHANGED <<held, wire, closing, reports, link, begun, current, ok>>

\* A message taken after the close is dropped.
pumpChecks ==
    /\ pc["pump"] = "taken"
    /\ IF closed THEN Go("pump", "end") /\ hand' = <<>>
                 ELSE Go("pump", "write") /\ UNCHANGED hand
    /\ UNCHANGED <<held, channel, wire, closing, reports, link, history>>

\* writeMessage looks at the flag twice more before the frame goes out.  A close
\* the first look sees ends the pump in silence; one that only the second look
\* sees is an error like that of a link that is gone.
pumpWrites ==
    /\ pc["pump"] = "write"
    /\ hand' = <<>>
    /\ \/ link = "up" /\ wire' = wire \o hand /\ Go("pump", "select")
       \/ closed /\ Go("pump", "end") /\ UNCHANGED wire
       \/ (closed \/ link # "up") /\ Go("pump", "fail") /\ UNCHANGED wire
    /\ UNCHANGED <<held, channel, closing, reports, link, history>>

\* A ping is written in the same way; the pump goes on whatever becomes of it.
handlePing ==
    /\ pc["pump"] = "ping"
    /\ \/ (closed \/ link = "up") /\ Go("pump", "select")
       \/ (closed \/ link # "up") /\ Go("pump", "pingfail")
    /\ UNCHANGED <<held, traffic, closing, reports, link, history>>

\* The read pump stops when it sees the close; ReadMessage fails when the link is
\* gone.  The messages it reads are handed to ShipHandshake and leave no trace here.
readShipPump ==
    /\ pc["reader"] = "read"
    /\ \/ (closed \/ signal) /\ Go("reader", "end")
       \/ link # "up" /\ Go("reader", "error")
    /\ UNCHANGED <<held, traffic, closing, reports, link, history>>

\* checkWebsocketMessage rejects what the peer sent.
readsNoShipMessage ==
    /\ pc["reader"] = "read" /\ link = "up"
    /\ Go("reader", "error")
    /\ UNCHANGED <<held, traffic, closing, reports, link, history>>

\* Mutant: every error of the read pump is ignored.
ReaderIgnores ==
    /\ pc["reader"] = "error"
    /\ Go("reader", "end")
    /\ UNCHANGED <<held, traffic, closing, reports, link, history>>

\* An error that comes after the close is ignored.
readerChecks ==
    /\ pc["reader"] = "error"
    /\ Go("reader", IF closed THEN "end" ELSE "fail")
    /\ UNCHANGED <<held, traffic, closing, reports, link, history>>
-------------------------------------------------------------------------------
(* WriteMessageToWebsocketConnection, by writer w.                         *)

writeBegins(w) ==
    /\ pc[w] = "idle" /\ begun < MaxMessages
    /\ begun' = begun + 1
    /\ current' = [current EXCEPT ![w] = begun + 1]
    /\ Go(w, "lock")
    /\ UNCHANGED <<held, traffic, closing, reports, link, ok, pings>>

lockShipWrite(w) ==
    /\ pc[w] = "lock" /\ held = "nobody"
    /\ held' = w
    /\ Go(w, "check")
    /\ UNCHANGED <<traffic, closing, reports, link, history>>

\* The call returns nil, or the error that the connection is closed.
Return(w, success) ==
    /\ held' = "nobody"
    /\ Go(w, "idle")
    /\ ok' = IF success THEN ok \cup {<<w, current[w]>>} ELSE ok

writeChecks(w) ==
    /\ pc[w] = "check"
    /\ IF closed THEN Return(w, FALSE) ELSE Go(w, "send") /\ UNCHANGED <<held, ok>>
    /\ UNCHANGED <<traffic, closing, reports, link, begun, current, pings>>

\* Mutant: a message in the channel is replaced.
QueueReplaces(w) ==
    /\ pc[w] = "send"
    /\ channel' = <<<<w, current[w]>>>>
    /\ Go(w, "recheck")
    /\ UNCHANGED <<held, hand, wire, closing, reports, link, history>>

\* Mutant: waits for a place only.
QueueDeaf(w) ==
    /\ pc[w] = "send" /\ channel = <<>>
    /\ channel' = <<<<w, current[w]>>>>
    /\ Go(w, "recheck")
    /\ UNCHANGED <<held, hand, wire, closing, reports, link, history>>

\* The select of the writer: it waits for a place or for the close.
writeQueues(w) ==
    /\ pc[w] = "send"
    /\ \/ signal /\ Return(w, FALSE) /\ UNCHANGED channel
       \/ /\ channel = <<>>
          /\ channel' = <<<<w, current[w]>>>>
          /\ Go(w, "recheck")
          /\ UNCHANGED <<held, ok>>
    /\ UNCHANGED <<hand, wire, closing, reports, link, begun, current, pings>>

writeReturns(w) ==
    /\ pc[w] = "recheck"
    /\ Return(w, ~closed)
    /\ UNCHANGED <<traffic, closing, reports, link, begun, current, pings>>
-------------------------------------------------------------------------------
(* The PIN, the close by the SHIP connection, and the link.                *)

WriteSensitiveMessageToWebsocketConnection ==
    /\ pc["pin"] = "idle"
    /\ Go("pin", IF closed THEN "end" ELSE "write")
    /\ UNCHANGED <<held, traffic, closing, reports, link, history>>

writeSensitiveMessage ==
    /\ pc["pin"] = "write"
    /\ \/ link = "up" /\ wire' = Append(wire, PIN) /\ ok' = ok \cup {PIN} /\ Go("pin", "end")
       \/ closed /\ Go("pin", "end") /\ UNCHANGED <<wire, ok>>
       \/ (closed \/ link # "up") /\ Go("pin", "fail") /\ UNCHANGED <<wire, ok>>
    /\ UNCHANGED <<held, channel, hand, closing, reports, link, begun, current, pings>>

CloseDataConnection ==
    /\ MayClose /\ pc["closer"] = "idle"
    /\ Go("closer", "close")
    /\ UNCHANGED <<held, traffic, closing, reports, link, history>>

closeReturns ==
    /\ pc["closer"] = "close" /\ once = "done"
    /\ Go("closer", "end")
    /\ UNCHANGED <<held, traffic, closing, reports, link, history>>

linkBreaks ==
    /\ MayBreak /\ link = "up"
    /\ link' = "broken"
    /\ UNCHANGED <<pc, held, traffic, closing, reports, history>>
-------------------------------------------------------------------------------
Init ==
    /\ pc = [t \in Threads |-> IF t \in {"pump", "reader"} THEN "off" ELSE "idle"]
    /\ held = "nobody" /\ channel = <<>> /\ hand = <<>>
    /\ once = "free" /\ closed = FALSE /\ signal = FALSE
    /\ link = "up" /\ wire = <<>>
    /\ begun = 0 /\ current = [w \in Writers |-> 0] /\ ok = {} /\ reports = 0 /\ pings = 0

Pump   == writeShipPump \/ pumpChecks \/ pumpWrites \/ handlePing
Reader == readShipPump \/ readerChecks
Pin    == writeSensitiveMessage
Write(w) == lockShipWrite(w) \/ writeChecks(w) \/ writeQueues(w) \/ writeReturns(w)
Close(t) == StartClose(t) \/ ReportConnectionError(t)

Next ==
    \/ run \/ Pump \/ Reader \/ readsNoShipMessage \/ CloseStep
    \/ \E w \in Writers : writeBegins(w) \/ Write(w)
    \/ \E t \in Threads : Close(t)
    \/ WriteSensitiveMessageToWebsocketConnection \/ Pin
    \/ CloseDataConnection \/ closeReturns \/ linkBreaks

Spec == Init /\ [][Next]_vars

\* Threads that have begun go on, and a write to the library ends at its deadline; that
\* the peer sends anything is not assumed.
FairSpec ==
    /\ Spec
    /\ WF_vars(run) /\ WF_vars(Pump) /\ WF_vars(Reader) /\ WF_vars(CloseStep)
    /\ WF_vars(Pin) /\ WF_vars(closeReturns)
    /\ \A t \in Threads : WF_vars(Close(t))
    /\ \A w \in Writers : WF_vars(Write(w))
-------------------------------------------------------------------------------
Message == (Writers \X Nat) \cup {PIN}

TypeOK ==
    /\ pc \in [Threads -> {"off", "idle", "end", "select", "taken", "write", "ping", "read",
                           "error", "lock", "check", "send", "recheck",
                           "close", "fail", "pingfail", "stuck"}]
    /\ held \in Writers \cup {"nobody"}
    /\ channel \in Seq(Message) /\ hand \in Seq(Message) /\ wire \in Seq(Message)
    /\ once \in {"free", "flag", "signal", "conn", "done"}
    /\ closed \in BOOLEAN /\ signal \in BOOLEAN
    /\ link \in {"up", "broken", "closed"}
    /\ begun \in Nat /\ current \in [Writers -> Nat] /\ ok \subseteq Message
    /\ reports \in Nat /\ pings \in Nat

\* The types, and what the writers were promised.  A write that returned nil is
\* not lost while the connection lives: its message is on the wire, in the
\* channel or in the hands of the pump, or else the connection is closed or the
\* pump is closing it (websocket.go:279-282, 124).  What has gone out and what is
\* on its way keeps each writer's order and holds nothing twice, whichever
\* writers, pings and PIN compete (websocket.go:265-278).
DeliveryInv ==
    LET all == wire \o hand \o channel
    IN  /\ TypeOK
        /\ \A m \in ok :
               \/ \E i \in 1 .. Len(all) : all[i] = m
               \/ closed \/ pc["pump"] = "fail"
        /\ \A i, j \in 1 .. Len(all) :
               i < j /\ all[i][1] = all[j][1] => all[i][2] < all[j][2]

\* Nobody waits in the channel for ever: a writer that holds the lock returns,
\* also when the pump has gone and the channel is full (websocket.go:273-277).
WritesReturn == held # "nobody" ~> held = "nobody"

\* A link that breaks is reported to the SHIP connection, unless the connection
\* is closed from this side (websocket.go:176-180, 399-401).
BreakIsReported == link = "broken" ~> (reports > 0 \/ pc["closer"] # "idle")
===============================================================================
