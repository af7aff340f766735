--------------------- MODULE WebsocketConnection_proofs ---------------------
(***************************************************************************)
(* Proofs about WebsocketConnection, for any writers and any number of     *)
(* messages and pings.                                                     *)
(*                                                                         *)
(* DeliveryInv speaks of one sequence: what has gone out, what the pump    *)
(* holds and what is in the channel.  The proof takes it apart (OrderInv), *)
(* because the PIN is put into the middle of it, behind what has gone out  *)
(* and before a message that waits.  Two facts make it inductive: a        *)
(* writer's messages on their way are older than the one it is about to    *)
(* queue (AgeInv), and a message whose write is about to return nil is     *)
(* already on its way (SentInv).                                           *)
(***************************************************************************)
EXTENDS WebsocketConnection, SequenceTheorems, TLAPS

Elements(s)  == {s[i] : i \in 1 .. Len(s)}
Ascending(s) == \A i, j \in 1 .. Len(s) : i < j /\ s[i][1] = s[j][1] => s[i][2] < s[j][2]
Before(s, t) == \A m \in Elements(s), n \in Elements(t) : m[1] = n[1] => m[2] < n[2]

Places == {"off", "idle", "end", "select", "taken", "write", "ping", "read", "error",
           "lock", "check", "send", "recheck", "close", "fail", "pingfail", "stuck"}
InFlight == Elements(wire) \cup Elements(hand) \cup Elements(channel)
Lost     == closed \/ pc["pump"] = "fail"

\* The channel has one place, and the pump holds a message only between taking
\* and writing it.
ChannelInv ==
    /\ channel = <<>> \/ \E m \in Message : channel = <<m>>
    /\ hand = <<>> \/ pc["pump"] \in {"taken", "write"}

\* The flag is set before the close goes on.
ClosedInv == once \in {"signal", "conn", "done"} => closed

OrderInv ==
    /\ Ascending(wire) /\ Ascending(hand) /\ Ascending(channel)
    /\ Before(wire, hand) /\ Before(wire, channel) /\ Before(hand, channel)

AgeInv ==
    /\ \A w \in Writers : current[w] <= begun
    /\ \A m \in InFlight : m # PIN =>
           /\ m[2] <= current[m[1]]
           /\ pc[m[1]] \in {"lock", "check", "send"} => m[2] < current[m[1]]
    /\ PIN \in InFlight => pc["pin"] \notin {"idle", "write"}

SentInv ==
    /\ \A m \in ok : m \in InFlight \/ Lost
    /\ \A w \in Writers : pc[w] = "recheck" => <<w, current[w]>> \in InFlight \/ Lost

Inv == TypeOK /\ ChannelInv /\ ClosedInv /\ OrderInv /\ AgeInv /\ SentInv
-------------------------------------------------------------------------------
(* Sequences of messages.                                                  *)

\* What is in a concatenation.
LEMMA ConcatElements ==
    ASSUME NEW S, NEW s \in Seq(S), NEW t \in Seq(S)
    PROVE  Elements(s \o t) = Elements(s) \cup Elements(t)
<1>0. /\ Len(s) \in Nat /\ Len(t) \in Nat /\ Len(s \o t) = Len(s) + Len(t)
      /\ \A i \in 1 .. Len(s) + Len(t) :
             (s \o t)[i] = IF i <= Len(s) THEN s[i] ELSE t[i - Len(s)]
    BY ConcatProperties, LenProperties
<1>1. ASSUME NEW m \in Elements(s \o t)
      PROVE m \in Elements(s) \cup Elements(t)
  <2>1. PICK i \in 1 .. Len(s) + Len(t) : m = (s \o t)[i]
      BY <1>0 DEF Elements
  <2>2. CASE i <= Len(s)
      BY <1>0, <2>1, <2>2 DEF Elements
  <2>3. CASE ~(i <= Len(s))
    <3>1. i - Len(s) \in 1 .. Len(t) /\ m = t[i - Len(s)]
        BY <1>0, <2>1, <2>3
    <3> QED
        BY <3>1 DEF Elements
  <2> QED
      BY <2>2, <2>3
<1>2. ASSUME NEW m \in Elements(s) PROVE m \in Elements(s \o t)
  <2>1. PICK i \in 1 .. Len(s) : m = s[i]
      BY DEF Elements
  <2>2. i \in 1 .. Len(s) + Len(t) /\ (s \o t)[i] = m
      BY <1>0, <2>1
  <2> QED
      BY <1>0, <2>2 DEF Elements
<1>3. ASSUME NEW m \in Elements(t) PROVE m \in Elements(s \o t)
  <2>1. PICK i \in 1 .. Len(t) : m = t[i]
      BY DEF Elements
  <2>2. i + Len(s) \in 1 .. Len(s) + Len(t) /\ ~(i + Len(s) <= Len(s)) /\ i + Len(s) - Len(s) = i
      BY <1>0
  <2>3. (s \o t)[i + Len(s)] = m
      BY <1>0, <2>1, <2>2
  <2> QED
      BY <1>0, <2>2, <2>3 DEF Elements
<1> QED
    BY <1>1, <1>2, <1>3

\* The elements of a sequence with one message more.
LEMMA ConcatOne ==
    ASSUME NEW S, NEW s \in Seq(S), NEW m \in S
    PROVE  Elements(s \o <<m>>) = Elements(s) \cup {m}
<1> DEFINE one == <<m>>
<1>1. one \in Seq(S) /\ Elements(one) = {m}
    BY DEF Elements
<1> HIDE DEF one
<1>2. Elements(s \o one) = Elements(s) \cup Elements(one)
    BY <1>1, ConcatElements
<1> QED
    BY <1>1, <1>2 DEF one

\* When a concatenation ascends.
LEMMA ConcatAscending ==
    ASSUME NEW S, NEW s \in Seq(S), NEW t \in Seq(S),
           Ascending(s), Ascending(t), Before(s, t)
    PROVE  Ascending(s \o t)
<1>0. /\ Len(s) \in Nat /\ Len(t) \in Nat /\ Len(s \o t) = Len(s) + Len(t)
      /\ \A i \in 1 .. Len(s) + Len(t) :
             (s \o t)[i] = IF i <= Len(s) THEN s[i] ELSE t[i - Len(s)]
    BY ConcatProperties, LenProperties
<1> SUFFICES ASSUME NEW i \in 1 .. Len(s) + Len(t), NEW j \in 1 .. Len(s) + Len(t), i < j,
                    (s \o t)[i][1] = (s \o t)[j][1]
             PROVE  (s \o t)[i][2] < (s \o t)[j][2]
    BY <1>0 DEF Ascending
<1>1. CASE j <= Len(s)
  <2>1. i \in 1 .. Len(s) /\ j \in 1 .. Len(s) /\ i <= Len(s)
      BY <1>0, <1>1
  <2>2. (s \o t)[i] = s[i] /\ (s \o t)[j] = s[j]
      BY <1>0, <2>1, <1>1
  <2> QED
      BY <2>1, <2>2 DEF Ascending
<1>2. CASE i <= Len(s) /\ ~(j <= Len(s))
  <2>1. i \in 1 .. Len(s) /\ j - Len(s) \in 1 .. Len(t)
      BY <1>0, <1>2
  <2>2. (s \o t)[i] = s[i] /\ (s \o t)[j] = t[j - Len(s)]
      BY <1>0, <1>2
  <2>3. s[i] \in Elements(s) /\ t[j - Len(s)] \in Elements(t)
      BY <2>1 DEF Elements
  <2> QED
      BY <2>2, <2>3 DEF Before
<1>3. CASE ~(i <= Len(s))
  <2>1. i - Len(s) \in 1 .. Len(t) /\ j - Len(s) \in 1 .. Len(t) /\ i - Len(s) < j - Len(s)
        /\ ~(j <= Len(s))
      BY <1>0, <1>3
  <2>2. (s \o t)[i] = t[i - Len(s)] /\ (s \o t)[j] = t[j - Len(s)]
      BY <1>0, <1>3, <2>1
  <2> QED
      BY <2>1, <2>2 DEF Ascending
<1> QED
    BY <1>1, <1>2, <1>3

\* The empty sequence and a single message.
LEMMA ShortSequences ==
    /\ Elements(<<>>) = {} /\ Ascending(<<>>)
    /\ \A m : Elements(<<m>>) = {m} /\ Ascending(<<m>>) /\ Len(<<m>>) = 1
    /\ \A m : Head(<<m>>) = m /\ Tail(<<m>>) = <<>>
<1>1. Elements(<<>>) = {} /\ Ascending(<<>>)
    BY DEF Elements, Ascending
<1>2. ASSUME NEW m PROVE Elements(<<m>>) = {m} /\ Ascending(<<m>>) /\ Len(<<m>>) = 1
  <2>1. Len(<<m>>) = 1 /\ 1 .. 1 = {1} /\ <<m>>[1] = m
      OBVIOUS
  <2> QED
      BY <2>1 DEF Elements, Ascending
<1>3. ASSUME NEW m PROVE Head(<<m>>) = m /\ Tail(<<m>>) = <<>>
    OBVIOUS
<1> QED
    BY <1>1, <1>2, <1>3
-------------------------------------------------------------------------------
(* Types.                                                                  *)

\* A message of a writer is told apart from the PIN by its writer.
LEMMA Messages ==
    ASSUME NEW m \in Message
    PROVE  m = PIN \/ (m[1] \in Writers /\ m[1] # "pin" /\ m[2] \in Nat)
BY WriterAssumption DEF Message, PIN

\* Everything under way is a message.
LEMMA FlightType ==
    ASSUME TypeOK
    PROVE  InFlight \subseteq Message
<1>1. ASSUME NEW s \in Seq(Message) PROVE Elements(s) \subseteq Message
    BY ElementOfSeq DEF Elements
<1> QED
    BY <1>1 DEF TypeOK, InFlight

\* Moving a thread keeps the types of the places.
LEMMA GoType ==
    ASSUME TypeOK, NEW t \in Threads, NEW place \in Places, Go(t, place)
    PROVE  /\ pc' \in [Threads -> Places] /\ pc'[t] = place
           /\ \A u \in Threads \ {t} : pc'[u] = pc[u]
BY DEF TypeOK, Go, Places

\* The threads are different.
LEMMA ThreadNames ==
    /\ {"pump", "reader", "pin", "closer"} \subseteq Threads /\ Writers \subseteq Threads
    /\ \A w \in Writers : w \notin {"pump", "reader", "pin", "closer"}
BY WriterAssumption DEF Threads

\* The steps of the pumps keep the types.
LEMMA PumpType ==
    ASSUME TypeOK, run \/ Pump \/ Reader \/ readsNoShipMessage
    PROVE  TypeOK'
<1> USE ThreadNames
<1>1. CASE run
  <2>1. pc' \in [Threads -> Places]
      BY <1>1 DEF run, TypeOK, Places
  <2> QED
      BY <1>1, <2>1 DEF run, TypeOK, Places, traffic, closing, history
<1>2. CASE writeShipPump
  <2>1. pc' \in [Threads -> Places]
      BY <1>2, GoType DEF writeShipPump, Places
  <2>2. channel' \in Seq(Message) /\ hand' \in Seq(Message) /\ pings' \in Nat
    <3>1. CASE channel # <<>> /\ hand' = <<Head(channel)>> /\ channel' = Tail(channel) /\ UNCHANGED pings
      <4>1. Head(channel) \in Message /\ Tail(channel) \in Seq(Message)
          BY <3>1, HeadTailProperties DEF TypeOK
      <4>2. <<Head(channel)>> \in Seq(Message)
          BY <4>1
      <4> QED
          BY <3>1, <4>1, <4>2 DEF TypeOK
    <3>2. CASE UNCHANGED <<channel, hand>>
        BY <1>2, <3>2 DEF writeShipPump, TypeOK
    <3> QED
        BY <1>2, <3>1, <3>2 DEF writeShipPump
  <2> QED
      BY <1>2, <2>1, <2>2 DEF writeShipPump, TypeOK, Places, closing
<1>3. CASE pumpChecks
  <2>1. pc' \in [Threads -> Places]
      BY <1>3, GoType DEF pumpChecks, Places
  <2>2. hand' \in Seq(Message)
      BY <1>3, EmptySeq DEF pumpChecks, TypeOK
  <2> QED
      BY <1>3, <2>1, <2>2 DEF pumpChecks, TypeOK, Places, closing, history
<1>4. CASE pumpWrites
  <2>1. pc' \in [Threads -> Places]
      BY <1>4, GoType DEF pumpWrites, Places
  <2>2. hand' \in Seq(Message) /\ wire' \in Seq(Message)
    <3>1. wire \o hand \in Seq(Message) /\ <<>> \in Seq(Message)
        BY ConcatProperties DEF TypeOK
    <3>2. hand' = <<>> /\ wire' \in {wire, wire \o hand}
        BY <1>4 DEF pumpWrites
    <3> QED
        BY <3>1, <3>2 DEF TypeOK
  <2> QED
      BY <1>4, <2>1, <2>2 DEF pumpWrites, TypeOK, Places, closing, history
<1>5. CASE handlePing \/ Reader \/ readsNoShipMessage
  <2>1. pc' \in [Threads -> Places]
    <3>1. CASE handlePing
        BY <3>1, GoType DEF handlePing, Places
    <3>2. CASE readShipPump \/ readsNoShipMessage
        BY <3>2, GoType DEF readShipPump, readsNoShipMessage, Places
    <3>3. CASE readerChecks
        BY <3>3, GoType DEF readerChecks, Places
    <3> QED
        BY <1>5, <3>1, <3>2, <3>3 DEF Reader
  <2> QED
      BY <1>5, <2>1 DEF handlePing, Reader, readShipPump, readsNoShipMessage, readerChecks, TypeOK, Places,
         traffic, closing, history
<1> QED
    BY <1>1, <1>2, <1>3, <1>4, <1>5 DEF Pump

\* The steps of a writer keep the types.
LEMMA WriterType ==
    ASSUME TypeOK, NEW w \in Writers, writeBegins(w) \/ Write(w)
    PROVE  TypeOK'
<1> USE ThreadNames
<1>0. pc' \in [Threads -> Places]
    BY GoType DEF writeBegins, Write, lockShipWrite, writeChecks, writeQueues, writeReturns,
       Return, Places
<1>1. CASE writeBegins(w)
    BY <1>0, <1>1 DEF writeBegins, TypeOK, Places, traffic, closing
<1>2. CASE lockShipWrite(w)
    BY <1>0, <1>2 DEF lockShipWrite, TypeOK, Places, traffic, closing, history
<1>3. <<w, current[w]>> \in Message
    BY DEF TypeOK, Message
<1>4. CASE writeChecks(w) \/ writeReturns(w)
  <2>1. held' \in Writers \cup {"nobody"} /\ ok' \subseteq Message
      BY <1>3, <1>4 DEF writeChecks, writeReturns, Return, TypeOK
  <2> QED
      BY <1>0, <1>4, <2>1 DEF writeChecks, writeReturns, TypeOK, Places, traffic, closing
<1>5. CASE writeQueues(w)
  <2>1. held' \in Writers \cup {"nobody"} /\ ok' \subseteq Message
      BY <1>3, <1>5 DEF writeQueues, Return, TypeOK
  <2>2. <<<<w, current[w]>>>> \in Seq(Message)
      BY <1>3
  <2>3. channel' \in Seq(Message)
      BY <1>5, <2>2 DEF writeQueues, TypeOK
  <2> QED
      BY <1>0, <1>5, <2>1, <2>3 DEF writeQueues, TypeOK, Places, closing
<1> QED
    BY <1>1, <1>2, <1>4, <1>5 DEF Write

\* The other steps keep the types.
LEMMA OtherType ==
    ASSUME TypeOK,
           \/ CloseStep \/ (\E t \in Threads : Close(t))
           \/ WriteSensitiveMessageToWebsocketConnection \/ Pin
           \/ CloseDataConnection \/ closeReturns \/ linkBreaks
    PROVE  TypeOK'
<1> USE ThreadNames
<1>1. CASE CloseStep
    BY <1>1 DEF CloseStep, TypeOK, traffic, history
<1>2. ASSUME NEW t \in Threads, Close(t) PROVE TypeOK'
  <2>1. CASE StartClose(t)
      BY <2>1 DEF StartClose, TypeOK, traffic, history
  <2>2. CASE ReportConnectionError(t)
    <3>1. pc' \in [Threads -> Places]
        BY <2>2, GoType DEF ReportConnectionError, Places
    <3> QED
        BY <2>2, <3>1 DEF ReportConnectionError, TypeOK, Places, traffic, closing, history
  <2> QED
      BY <1>2, <2>1, <2>2 DEF Close
<1>3. CASE WriteSensitiveMessageToWebsocketConnection \/ CloseDataConnection \/ closeReturns
  <2>1. pc' \in [Threads -> Places]
    <3>1. CASE WriteSensitiveMessageToWebsocketConnection
        BY <3>1, GoType DEF WriteSensitiveMessageToWebsocketConnection, Places
    <3>2. CASE CloseDataConnection
        BY <3>2, GoType DEF CloseDataConnection, Places
    <3>3. CASE closeReturns
        BY <3>3, GoType DEF closeReturns, Places
    <3> QED
        BY <1>3, <3>1, <3>2, <3>3
  <2> QED
      BY <1>3, <2>1 DEF WriteSensitiveMessageToWebsocketConnection, CloseDataConnection,
         closeReturns, TypeOK, Places, traffic, closing, history
<1>4. CASE Pin
  <2>1. pc' \in [Threads -> Places]
      BY <1>4, GoType DEF Pin, writeSensitiveMessage, Places
  <2>2. PIN \in Message
      BY DEF Message
  <2>3. wire' \in Seq(Message) /\ ok' \subseteq Message
    <3>1. Append(wire, PIN) \in Seq(Message)
        BY <2>2, AppendProperties DEF TypeOK
    <3>2. wire' \in {wire, Append(wire, PIN)} /\ ok' \in {ok, ok \cup {PIN}}
        BY <1>4 DEF Pin, writeSensitiveMessage
    <3> QED
        BY <2>2, <3>1, <3>2 DEF TypeOK
  <2> QED
      BY <1>4, <2>1, <2>3 DEF Pin, writeSensitiveMessage, TypeOK, Places, closing
<1>5. CASE linkBreaks
    BY <1>5 DEF linkBreaks, TypeOK, traffic, closing, history
<1> QED
    BY <1>1, <1>2, <1>3, <1>4, <1>5

\* Every step keeps the types.
LEMMA NextType ==
    ASSUME TypeOK, [Next]_vars
    PROVE  TypeOK'
<1>1. CASE UNCHANGED vars
    BY <1>1 DEF TypeOK, vars, traffic, closing, history
<1> QED
    BY <1>1, PumpType, WriterType, OtherType DEF Next
-------------------------------------------------------------------------------
(* What is under way.                                                      *)

\* The close and the end of the pump stay known.
LEMMA LostStays ==
    ASSUME TypeOK, ClosedInv, [Next]_vars
    PROVE  (closed => closed') /\ (Lost => Lost') /\ ClosedInv'
<1> USE ThreadNames
<1>1. (closed => closed') /\ ClosedInv'
  <2>1. CASE CloseStep
      BY <2>1 DEF CloseStep, ClosedInv
  <2>2. CASE \E t \in Threads : StartClose(t)
      BY <2>2 DEF StartClose, ClosedInv
  <2>3. CASE UNCHANGED <<once, closed>>
      BY <2>3 DEF ClosedInv
  <2> QED
      BY <2>1, <2>2, <2>3 DEF Next, vars, closing, run, Pump, writeShipPump, pumpChecks, pumpWrites,
         handlePing, Reader, readShipPump, readsNoShipMessage, readerChecks, writeBegins, Write, lockShipWrite,
         writeChecks, writeQueues, writeReturns, Close, ReportConnectionError, Pin,
         WriteSensitiveMessageToWebsocketConnection, writeSensitiveMessage,
         CloseDataConnection, closeReturns, linkBreaks
<1>2. ASSUME pc["pump"] = "fail" PROVE Lost'
  <2>1. CASE ReportConnectionError("pump")
      BY <1>1, <2>1 DEF ReportConnectionError, ClosedInv, Lost
  <2>2. CASE pc'["pump"] = pc["pump"]
      BY <1>2, <2>2 DEF Lost
  <2>3. CASE run \/ Pump
      BY <1>2, <2>3 DEF run, Pump, writeShipPump, pumpChecks, pumpWrites, handlePing
  <2>4. ASSUME NEW t \in Threads \ {"pump"}, NEW place, Go(t, place)
        PROVE pc'["pump"] = pc["pump"]
      BY <2>4 DEF Go, TypeOK
  <2>5. CASE Reader \/ readsNoShipMessage
      BY <2>2, <2>4, <2>5 DEF Reader, readShipPump, readsNoShipMessage, readerChecks
  <2>6. CASE \E w \in Writers : writeBegins(w) \/ Write(w)
      BY <2>2, <2>4, <2>6 DEF writeBegins, Write, lockShipWrite, writeChecks, writeQueues,
         writeReturns, Return
  <2>7. CASE \E t \in Threads : Close(t)
      BY <2>1, <2>2, <2>4, <2>7 DEF Close, StartClose, ReportConnectionError
  <2>8. CASE WriteSensitiveMessageToWebsocketConnection \/ Pin \/ CloseDataConnection \/ closeReturns
      BY <2>2, <2>4, <2>8 DEF WriteSensitiveMessageToWebsocketConnection, Pin,
         writeSensitiveMessage, CloseDataConnection, closeReturns
  <2>9. CASE CloseStep \/ linkBreaks \/ UNCHANGED vars
      BY <2>2, <2>9 DEF CloseStep, linkBreaks, vars
  <2> QED
      BY <2>3, <2>5, <2>6, <2>7, <2>8, <2>9 DEF Next
<1> QED
    BY <1>1, <1>2 DEF Lost

\* How the traffic moves: it rests, the pump takes, drops or writes a message, a
\* writer queues one, or the PIN goes out.
LEMMA TrafficStep ==
    ASSUME TypeOK, ChannelInv, [Next]_vars
    PROVE  \/ UNCHANGED traffic
           \/ hand = <<>> /\ hand' = channel /\ channel' = <<>> /\ UNCHANGED wire
           \/ hand' = <<>> /\ Lost' /\ UNCHANGED <<channel, wire>>
           \/ hand' = <<>> /\ wire' = wire \o hand /\ UNCHANGED channel
           \/ \E w \in Writers :
                  /\ writeQueues(w) /\ channel = <<>> /\ channel' = <<<<w, current[w]>>>>
                  /\ UNCHANGED <<hand, wire>>
           \/ /\ writeSensitiveMessage /\ wire' = wire \o <<PIN>> /\ pc["pin"] = "write"
              /\ pc'["pin"] = "end" /\ UNCHANGED <<hand, channel>>
<1> USE ThreadNames
<1>1. CASE writeShipPump
  <2>1. CASE UNCHANGED <<hand, channel>>
      BY <1>1, <2>1 DEF writeShipPump, traffic
  <2>2. CASE channel # <<>> /\ hand' = <<Head(channel)>> /\ channel' = Tail(channel)
    <3>1. PICK m : channel = <<m>>
        BY <2>2 DEF ChannelInv
    <3>2. hand' = channel /\ channel' = <<>>
        BY <2>2, <3>1, ShortSequences
    <3>3. hand = <<>>
        BY <1>1 DEF writeShipPump, ChannelInv
    <3> QED
        BY <1>1, <3>2, <3>3 DEF writeShipPump
  <2> QED
      BY <1>1, <2>1, <2>2 DEF writeShipPump
<1>2. CASE pumpChecks
    BY <1>2 DEF pumpChecks, Lost, traffic, closing
<1>3. CASE pumpWrites
  <2>1. \/ wire' = wire \o hand
        \/ closed /\ UNCHANGED wire
        \/ Go("pump", "fail") /\ UNCHANGED wire
      BY <1>3 DEF pumpWrites
  <2>2. Go("pump", "fail") => pc'["pump"] = "fail"
      BY GoType DEF Places
  <2> QED
      BY <1>3, <2>1, <2>2 DEF pumpWrites, Lost, closing
<1>4. CASE \E w \in Writers : writeQueues(w)
  <2>1. PICK w \in Writers : writeQueues(w)
      BY <1>4
  <2>2. UNCHANGED <<hand, wire>>
      BY <2>1 DEF writeQueues
  <2>3. UNCHANGED channel \/ (channel = <<>> /\ channel' = <<<<w, current[w]>>>>)
      BY <2>1 DEF writeQueues
  <2> QED
      BY <2>1, <2>2, <2>3 DEF traffic
<1>5. CASE writeSensitiveMessage
  <2>1. CASE UNCHANGED wire
      BY <1>5, <2>1 DEF writeSensitiveMessage, traffic
  <2>2. CASE wire' = Append(wire, PIN) /\ Go("pin", "end")
    <3>1. Append(wire, PIN) = wire \o <<PIN>>
        BY AppendIsConcat DEF TypeOK, Message
    <3>2. pc'["pin"] = "end"
        BY <2>2, GoType DEF Places
    <3> QED
        BY <1>5, <2>2, <3>1, <3>2 DEF writeSensitiveMessage
  <2> QED
      BY <1>5, <2>1, <2>2 DEF writeSensitiveMessage
<1>6. CASE ~(writeShipPump \/ pumpChecks \/ pumpWrites \/ writeSensitiveMessage
             \/ \E w \in Writers : writeQueues(w))
    BY <1>6 DEF Next, vars, traffic, CloseStep, run, Pump, handlePing, Reader, readShipPump, readsNoShipMessage,
       readerChecks, writeBegins, Write, lockShipWrite, writeChecks, writeReturns,
       Close, StartClose, ReportConnectionError, Pin, CloseDataConnection, closeReturns,
       WriteSensitiveMessageToWebsocketConnection, linkBreaks
<1> QED
    BY <1>1, <1>2, <1>3, <1>4, <1>5, <1>6
\* What a step adds to the messages under way, and that it loses none unnoticed.
LEMMA FlightStep ==
    ASSUME TypeOK, ChannelInv, [Next]_vars
    PROVE  \/ InFlight' \subseteq InFlight /\ (InFlight' = InFlight \/ Lost')
           \/ \E w \in Writers : writeQueues(w) /\ InFlight' = InFlight \cup {<<w, current[w]>>}
           \/ /\ writeSensitiveMessage /\ InFlight' = InFlight \cup {PIN}
              /\ pc["pin"] = "write" /\ pc'["pin"] = "end"
<1>0. /\ wire \in Seq(Message) /\ hand \in Seq(Message) /\ <<PIN>> \in Seq(Message)
      /\ Elements(<<>>) = {} /\ \A m : Elements(<<m>>) = {m}
    BY ShortSequences DEF TypeOK, Message
<1>1. CASE UNCHANGED traffic
    BY <1>1 DEF traffic, InFlight, Elements
<1>2. CASE hand = <<>> /\ hand' = channel /\ channel' = <<>> /\ UNCHANGED wire
  <2>1. /\ Elements(hand) = {} /\ Elements(hand') = Elements(channel)
        /\ Elements(channel') = {} /\ Elements(wire') = Elements(wire)
      BY <1>0, <1>2
  <2>2. InFlight' = InFlight
      BY <2>1 DEF InFlight, Elements
  <2> QED
      BY <2>2
<1>3. CASE hand' = <<>> /\ Lost' /\ UNCHANGED <<channel, wire>>
  <2>1. /\ Elements(hand') = {} /\ Elements(channel') = Elements(channel)
        /\ Elements(wire') = Elements(wire)
      BY <1>0, <1>3
  <2>2. InFlight' \subseteq InFlight
      BY <2>1 DEF InFlight, Elements
  <2> QED
      BY <1>3, <2>2
<1>4. CASE hand' = <<>> /\ wire' = wire \o hand /\ UNCHANGED channel
  <2>1. Elements(wire') = Elements(wire) \cup Elements(hand)
      BY <1>0, <1>4, ConcatElements
  <2>2. Elements(hand') = {} /\ Elements(channel') = Elements(channel)
      BY <1>0, <1>4
  <2>3. InFlight' = InFlight
      BY <2>1, <2>2 DEF InFlight, Elements
  <2> QED
      BY <2>3
<1>5. ASSUME NEW w \in Writers, writeQueues(w), channel = <<>>,
             channel' = <<<<w, current[w]>>>>, UNCHANGED <<hand, wire>>
      PROVE InFlight' = InFlight \cup {<<w, current[w]>>}
  <2>1. /\ Elements(channel') = {<<w, current[w]>>} /\ Elements(channel) = {}
        /\ Elements(hand') = Elements(hand) /\ Elements(wire') = Elements(wire)
      BY <1>0, <1>5
  <2> QED
      BY <2>1 DEF InFlight, Elements
<1>6. ASSUME wire' = wire \o <<PIN>>, UNCHANGED <<hand, channel>>
      PROVE InFlight' = InFlight \cup {PIN}
  <2>1. Elements(wire') = Elements(wire) \cup {PIN}
    <3>1. Elements(wire \o <<PIN>>) = Elements(wire) \cup {PIN}
        BY <1>0, ConcatOne
    <3> QED
        BY <1>0, <1>6, <3>1
  <2>2. Elements(hand') = Elements(hand) /\ Elements(channel') = Elements(channel)
      BY <1>6
  <2> QED
      BY <2>1, <2>2 DEF InFlight, Elements
<1> QED
    BY <1>1, <1>2, <1>3, <1>4, <1>5, <1>6, TrafficStep
-------------------------------------------------------------------------------
(* The parts of the invariant.                                             *)

\* The channel keeps its one place.
LEMMA NextChannel ==
    ASSUME TypeOK, ChannelInv, [Next]_vars
    PROVE  ChannelInv'
<1> USE ThreadNames
<1>1. channel' = <<>> \/ \E m \in Message : channel' = <<m>>
  <2>1. \A w \in Writers : <<w, current[w]>> \in Message
      BY DEF TypeOK, Message
  <2> QED
      BY <2>1, TrafficStep DEF ChannelInv, traffic
<1>2. hand' = <<>> \/ pc'["pump"] \in {"taken", "write"}
  <2>1. CASE run
      BY <2>1 DEF run, ChannelInv, traffic
  <2>2. CASE writeShipPump
    <3>1. hand = <<>>
        BY <2>2 DEF writeShipPump, ChannelInv
    <3>2. UNCHANGED hand \/ Go("pump", "taken")
        BY <2>2 DEF writeShipPump
    <3>3. Go("pump", "taken") => pc'["pump"] = "taken"
        BY GoType DEF Places
    <3> QED
        BY <3>1, <3>2, <3>3
  <2>3. CASE pumpChecks \/ pumpWrites
    <3>1. Go("pump", "write") => pc'["pump"] = "write"
        BY GoType DEF Places
    <3> QED
        BY <2>3, <3>1 DEF pumpChecks, pumpWrites
  <2>4. CASE handlePing \/ ReportConnectionError("pump")
      BY <2>4 DEF handlePing, ReportConnectionError, ChannelInv, traffic
  <2>5. ASSUME NEW t \in Threads \ {"pump"}, NEW place, Go(t, place)
        PROVE pc'["pump"] = pc["pump"]
      BY <2>5 DEF Go, TypeOK
  <2>6. CASE UNCHANGED hand /\ pc'["pump"] = pc["pump"]
      BY <2>6 DEF ChannelInv
  <2>7. CASE Reader \/ readsNoShipMessage
      BY <2>5, <2>6, <2>7 DEF Reader, readShipPump, readsNoShipMessage, readerChecks, traffic
  <2>8. CASE \E w \in Writers : writeBegins(w) \/ Write(w)
      BY <2>5, <2>6, <2>8 DEF writeBegins, Write, lockShipWrite, writeChecks, writeQueues,
         writeReturns, Return, traffic
  <2>9. CASE \E t \in Threads : Close(t)
      BY <2>4, <2>5, <2>6, <2>9 DEF Close, StartClose, ReportConnectionError, traffic
  <2>10. CASE WriteSensitiveMessageToWebsocketConnection \/ Pin \/ CloseDataConnection \/ closeReturns
      BY <2>5, <2>6, <2>10 DEF WriteSensitiveMessageToWebsocketConnection, Pin,
         writeSensitiveMessage, CloseDataConnection, closeReturns, traffic
  <2>11. CASE CloseStep \/ linkBreaks \/ UNCHANGED vars
      BY <2>6, <2>11 DEF CloseStep, linkBreaks, vars, traffic
  <2> QED
      BY <2>1, <2>2, <2>3, <2>4, <2>7, <2>8, <2>9, <2>10, <2>11 DEF Next, Pump
<1> QED
    BY <1>1, <1>2 DEF ChannelInv

\* The three parts keep their order among each other.
LEMMA NextOrder ==
    ASSUME TypeOK, ChannelInv, OrderInv, AgeInv, [Next]_vars
    PROVE  OrderInv'
<1>0. /\ wire \in Seq(Message) /\ hand \in Seq(Message) /\ <<PIN>> \in Seq(Message)
      /\ Elements(<<>>) = {} /\ Ascending(<<>>)
      /\ \A m : Elements(<<m>>) = {m} /\ Ascending(<<m>>)
    BY ShortSequences DEF TypeOK, Message
<1>1. CASE UNCHANGED traffic
    BY <1>1 DEF traffic, OrderInv, Ascending, Before, Elements
<1>2. CASE hand = <<>> /\ hand' = channel /\ channel' = <<>> /\ UNCHANGED wire
  <2>1. Ascending(wire') /\ Ascending(hand') /\ Ascending(channel')
      BY <1>0, <1>2 DEF OrderInv
  <2>2. Before(wire', hand') /\ Before(wire', channel') /\ Before(hand', channel')
    <3>1. Before(wire', hand')
        BY <1>2 DEF OrderInv
    <3>2. Elements(channel') = {}
        BY <1>0, <1>2
    <3> QED
        BY <3>1, <3>2 DEF Before
  <2> QED
      BY <2>1, <2>2 DEF OrderInv, Ascending, Before, Elements
<1>3. CASE hand' = <<>> /\ UNCHANGED <<channel, wire>>
  <2>1. Ascending(wire') /\ Ascending(hand') /\ Ascending(channel')
      BY <1>0, <1>3 DEF OrderInv
  <2>2. Before(wire', hand') /\ Before(wire', channel') /\ Before(hand', channel')
    <3>1. Before(wire', channel')
        BY <1>3 DEF OrderInv
    <3>2. Elements(hand') = {}
        BY <1>0, <1>3
    <3> QED
        BY <3>1, <3>2 DEF Before
  <2> QED
      BY <2>1, <2>2 DEF OrderInv, Ascending, Before, Elements
<1>4. CASE hand' = <<>> /\ wire' = wire \o hand /\ UNCHANGED channel
  <2>1. Elements(wire') = Elements(wire) \cup Elements(hand) /\ Elements(hand') = {}
        /\ Elements(channel') = Elements(channel)
      BY <1>0, <1>4, ConcatElements
  <2>2. Ascending(wire') /\ Ascending(hand') /\ Ascending(channel')
      BY <1>0, <1>4, ConcatAscending DEF OrderInv
  <2>3. Before(wire', hand') /\ Before(wire', channel') /\ Before(hand', channel')
      BY <2>1 DEF OrderInv, Before
  <2> QED
      BY <2>2, <2>3 DEF OrderInv, Ascending, Before, Elements
<1>5. ASSUME NEW w \in Writers, writeQueues(w), channel' = <<<<w, current[w]>>>>,
             UNCHANGED <<hand, wire>>
      PROVE OrderInv'
  <2> DEFINE new == <<w, current[w]>>
  <2>1. Elements(channel') = {new} /\ Ascending(channel')
      BY <1>0, <1>5
  <2>2. Elements(hand') = Elements(hand) /\ Elements(wire') = Elements(wire)
        /\ Ascending(hand') /\ Ascending(wire') /\ Before(wire', hand')
      BY <1>5 DEF OrderInv
  <2>3. \A m \in InFlight : m[1] = w => m[2] < current[w]
    <3>1. pc[w] = "send"
        BY <1>5 DEF writeQueues
    <3>2. \A m \in InFlight : m[1] = w => m # PIN
        BY WriterAssumption DEF PIN
    <3> QED
        BY <3>1, <3>2 DEF AgeInv
  <2>4. new[1] = w /\ new[2] = current[w]
      OBVIOUS
  <2> HIDE DEF new
  <2>5. Before(wire', channel') /\ Before(hand', channel')
      BY <2>1, <2>2, <2>3, <2>4 DEF Before, InFlight
  <2> QED
      BY <2>1, <2>2, <2>5 DEF OrderInv, Ascending, Before, Elements
<1>6. ASSUME wire' = wire \o <<PIN>>, pc["pin"] = "write", UNCHANGED <<hand, channel>>
      PROVE OrderInv'
  <2>1. \A m \in InFlight : m[1] # PIN[1]
    <3>1. PIN \notin InFlight /\ PIN[1] = "pin"
        BY <1>6 DEF AgeInv, PIN
    <3> QED
        BY <3>1, FlightType, Messages
  <2>2. Elements(wire') = Elements(wire) \cup {PIN} /\ Elements(hand') = Elements(hand)
        /\ Elements(channel') = Elements(channel)
    <3>1. Elements(wire \o <<PIN>>) = Elements(wire) \cup {PIN}
        BY <1>0, ConcatOne
    <3> QED
        BY <1>0, <1>6, <3>1
  <2>3. Before(wire, <<PIN>>)
      BY <1>0, <2>1 DEF Before, InFlight
  <2>4. Ascending(wire') /\ Ascending(hand') /\ Ascending(channel')
      BY <1>0, <1>6, <2>3, ConcatAscending DEF OrderInv
  <2>5. Before(wire', hand') /\ Before(wire', channel') /\ Before(hand', channel')
      BY <2>1, <2>2 DEF OrderInv, Before, InFlight
  <2> QED
      BY <2>4, <2>5 DEF OrderInv, Ascending, Before, Elements
<1> QED
    BY <1>1, <1>2, <1>3, <1>4, <1>5, <1>6, TrafficStep
\* What the steps do to the places of the writers and the numbers of their messages.
LEMMA WriterStep ==
    ASSUME TypeOK, [Next]_vars
    PROVE  \/ \E w \in Writers : writeBegins(w)
           \/ /\ UNCHANGED <<begun, current>>
              /\ \A w \in Writers :
                     \/ pc'[w] = pc[w]
                     \/ pc'[w] \notin {"lock", "check", "send", "recheck"}
                     \/ pc[w] \in {"lock", "check"} /\ pc'[w] \in {"check", "send"}
                     \/ writeQueues(w) /\ pc[w] = "send" /\ pc'[w] = "recheck"
<1> USE ThreadNames
<1>1. ASSUME NEW t \in Threads, NEW place \in Places, Go(t, place)
      PROVE  pc'[t] = place /\ \A w \in Threads \ {t} : pc'[w] = pc[w]
    BY <1>1, GoType
<1>2. CASE run
    BY <1>2 DEF run, TypeOK, history
<1>3. ASSUME NEW t \in Threads,
             NEW place \in {"end", "select", "taken", "write", "ping", "error", "fail",
                             "pingfail", "close", "idle", "stuck"},
             Go(t, place)
      PROVE  \A w \in Writers : pc'[w] = pc[w] \/ pc'[w] \notin {"lock", "check", "send", "recheck"}
  <2>1. place \in Places
      BY DEF Places
  <2> QED
      BY <1>1, <1>3, <2>1
<1>4. CASE Pump
  <2>1. /\ UNCHANGED <<begun, current>>
        /\ \E place \in {"end", "select", "taken", "write", "ping", "error", "fail",
                           "pingfail", "close", "idle"} : Go("pump", place)
      BY <1>4 DEF Pump, writeShipPump, pumpChecks, pumpWrites, handlePing, history
  <2> QED
      BY <1>3, <2>1
<1>5. CASE Reader \/ readsNoShipMessage
  <2>1. /\ UNCHANGED <<begun, current>>
        /\ \E place \in {"end", "select", "taken", "write", "ping", "error", "fail",
                           "pingfail", "close", "idle"} : Go("reader", place)
      BY <1>5 DEF Reader, readShipPump, readsNoShipMessage, readerChecks, history
  <2> QED
      BY <1>3, <2>1
<1>6. ASSUME NEW w \in Writers, Write(w)
      PROVE  /\ UNCHANGED <<begun, current>>
             /\ \A v \in Writers \ {w} : pc'[v] = pc[v]
             /\ \/ pc'[w] \notin {"lock", "check", "send", "recheck"}
                \/ pc[w] \in {"lock", "check"} /\ pc'[w] \in {"check", "send"}
                \/ writeQueues(w) /\ pc[w] = "send" /\ pc'[w] = "recheck"
  <2>1. CASE lockShipWrite(w)
      BY <1>1, <2>1 DEF lockShipWrite, history, Places
  <2>2. CASE writeChecks(w)
      BY <1>1, <2>2 DEF writeChecks, Return, Places
  <2>3. CASE writeQueues(w)
      BY <1>1, <2>3 DEF writeQueues, Return, Places
  <2>4. CASE writeReturns(w)
      BY <1>1, <2>4 DEF writeReturns, Return, Places
  <2> QED
      BY <1>6, <2>1, <2>2, <2>3, <2>4 DEF Write
<1>7. CASE \E t \in Threads : Close(t)
  <2>1. PICK t \in Threads : Close(t)
      BY <1>7
  <2>2. CASE StartClose(t)
      BY <2>2 DEF StartClose, history
  <2>3. CASE ReportConnectionError(t)
    <3>1. /\ UNCHANGED <<begun, current>>
          /\ Go(t, "select") \/ Go(t, "end") \/ Go(t, "stuck")
        BY <2>3 DEF ReportConnectionError, history
    <3> QED
        BY <1>3, <3>1
  <2> QED
      BY <2>1, <2>2, <2>3 DEF Close
<1>8. CASE WriteSensitiveMessageToWebsocketConnection \/ Pin
  <2>1. UNCHANGED <<begun, current>> /\ (Go("pin", "end") \/ Go("pin", "write") \/ Go("pin", "fail"))
      BY <1>8 DEF WriteSensitiveMessageToWebsocketConnection, Pin, writeSensitiveMessage, history
  <2> QED
      BY <1>3, <2>1
<1>9. CASE CloseDataConnection \/ closeReturns
  <2>1. UNCHANGED <<begun, current>> /\ (Go("closer", "close") \/ Go("closer", "end"))
      BY <1>9 DEF CloseDataConnection, closeReturns, history
  <2> QED
      BY <1>3, <2>1
<1>10. CASE CloseStep \/ linkBreaks \/ UNCHANGED vars
    BY <1>10 DEF CloseStep, linkBreaks, vars, history
<1>11. CASE \E w \in Writers : Write(w)
    BY <1>6, <1>11
<1> QED
    BY <1>2, <1>4, <1>5, <1>7, <1>8, <1>9, <1>10, <1>11 DEF Next

\* The thread of the PIN writes once.
LEMMA PinStep ==
    ASSUME TypeOK, [Next]_vars, pc["pin"] \notin {"idle", "write"}
    PROVE  pc'["pin"] \notin {"idle", "write"}
<1> USE ThreadNames
<1>1. ASSUME NEW t \in Threads \ {"pin"}, NEW place, Go(t, place)
      PROVE  pc'["pin"] = pc["pin"]
    BY <1>1 DEF Go, TypeOK
<1>2. CASE run
    BY <1>2 DEF run, TypeOK
<1>3. CASE Pump \/ Reader \/ readsNoShipMessage
    BY <1>1, <1>3 DEF Pump, writeShipPump, pumpChecks, pumpWrites, handlePing, Reader,
       readShipPump, readsNoShipMessage, readerChecks
<1>4. CASE \E w \in Writers : writeBegins(w) \/ Write(w)
    BY <1>1, <1>4 DEF writeBegins, Write, lockShipWrite, writeChecks, writeQueues,
       writeReturns, Return
<1>5. CASE \E t \in Threads : Close(t)
  <2>1. PICK t \in Threads : Close(t)
      BY <1>5
  <2>2. UNCHANGED pc \/ Go(t, "select") \/ Go(t, "end") \/ Go(t, "stuck")
      BY <2>1 DEF Close, StartClose, ReportConnectionError
  <2>3. CASE t = "pin"
      BY <2>2, <2>3, GoType DEF Places
  <2> QED
      BY <1>1, <2>2, <2>3
<1>6. CASE CloseDataConnection \/ closeReturns
    BY <1>1, <1>6 DEF CloseDataConnection, closeReturns
<1>7. CASE WriteSensitiveMessageToWebsocketConnection \/ Pin
    BY <1>7 DEF WriteSensitiveMessageToWebsocketConnection, Pin, writeSensitiveMessage
<1>8. CASE CloseStep \/ linkBreaks \/ UNCHANGED vars
    BY <1>8 DEF CloseStep, linkBreaks, vars
<1> QED
    BY <1>2, <1>3, <1>4, <1>5, <1>6, <1>7, <1>8 DEF Next

\* A writer's messages under way stay older than the one it is about to queue.
LEMMA NextAge ==
    ASSUME TypeOK, ChannelInv, AgeInv, [Next]_vars
    PROVE  AgeInv'
<1>0. InFlight \subseteq Message /\ current \in [Writers -> Nat] /\ begun \in Nat
    BY FlightType DEF TypeOK
<1>1. ASSUME NEW m \in InFlight, m # PIN
      PROVE /\ m[1] \in Writers /\ m[2] \in Nat /\ m[2] <= current[m[1]]
            /\ pc[m[1]] \in {"lock", "check", "send"} => m[2] < current[m[1]]
    BY <1>0, <1>1, Messages DEF AgeInv
<1>2. PIN \in InFlight' => pc'["pin"] \notin {"idle", "write"}
  <2>1. \A w \in Writers : <<w, current[w]>> # PIN
      BY WriterAssumption DEF PIN
  <2> QED
      BY <2>1, FlightStep, PinStep DEF AgeInv
<1>3. CASE \E w \in Writers : writeBegins(w)
  <2>1. PICK w \in Writers : writeBegins(w)
      BY <1>3
  <2>2. /\ begun' = begun + 1 /\ current' = [current EXCEPT ![w] = begun + 1]
        /\ InFlight' = InFlight /\ Go(w, "lock")
      BY <2>1 DEF writeBegins, traffic, InFlight, Elements
  <2>3. \A v \in Writers \ {w} : pc'[v] = pc[v] /\ current'[v] = current[v]
      BY <1>0, <2>2, ThreadNames, GoType DEF Places
  <2>4. current'[w] = begun + 1 /\ \A v \in Writers : current[v] \in Nat /\ current[v] <= begun
      BY <1>0, <2>2 DEF AgeInv
  <2>5. ASSUME NEW m \in InFlight', m # PIN
        PROVE m[2] <= current'[m[1]] /\ (pc'[m[1]] \in {"lock", "check", "send"} => m[2] < current'[m[1]])
    <3>1. m \in InFlight /\ m[1] \in Writers /\ m[2] \in Nat /\ m[2] <= current[m[1]]
        BY <1>1, <2>2, <2>5
    <3>2. CASE m[1] = w
        BY <1>0, <2>4, <3>1, <3>2
    <3>3. CASE m[1] # w
        BY <1>1, <2>3, <2>5, <3>1, <3>3
    <3> QED
        BY <3>2, <3>3
  <2>6. \A v \in Writers : current'[v] <= begun'
      BY <1>0, <2>2, <2>3, <2>4
  <2> QED
      BY <1>2, <2>5, <2>6 DEF AgeInv
<1>4. CASE ~\E w \in Writers : writeBegins(w)
  <2>1. /\ UNCHANGED <<begun, current>>
        /\ \A w \in Writers :
               \/ pc'[w] = pc[w]
               \/ pc'[w] \notin {"lock", "check", "send", "recheck"}
               \/ pc[w] \in {"lock", "check"} /\ pc'[w] \in {"check", "send"}
               \/ writeQueues(w) /\ pc[w] = "send" /\ pc'[w] = "recheck"
      BY <1>4, WriterStep
  <2>2. ASSUME NEW m \in InFlight', m # PIN
        PROVE m[2] <= current'[m[1]] /\ (pc'[m[1]] \in {"lock", "check", "send"} => m[2] < current'[m[1]])
    <3>1. CASE m \in InFlight
        BY <1>1, <2>1, <2>2, <3>1
    <3>2. CASE m \notin InFlight
      <4>1. PICK w \in Writers : writeQueues(w) /\ m = <<w, current[w]>>
                                 /\ InFlight' = InFlight \cup {<<w, current[w]>>}
          BY <2>2, <3>2, FlightStep
      <4>2. m[1] = w /\ m[2] = current'[w] /\ current[w] \in Nat
          BY <1>0, <2>1, <4>1
      <4>3. pc'[w] \notin {"lock", "check", "send"}
        <5>1. Go(w, "recheck") \/ Go(w, "idle")
            BY <4>1 DEF writeQueues, Return
        <5> QED
            BY <5>1, GoType, ThreadNames DEF Places
      <4> QED
          BY <2>1, <4>2, <4>3
    <3> QED
        BY <3>1, <3>2
  <2> QED
      BY <1>2, <2>1, <2>2 DEF AgeInv
<1> QED
    BY <1>3, <1>4

\* A message whose write returned nil, or is about to, is not lost unnoticed.
LEMMA NextSent ==
    ASSUME TypeOK, ChannelInv, ClosedInv, SentInv, [Next]_vars
    PROVE  SentInv'
<1>1. ASSUME NEW m, m \in InFlight \/ Lost
      PROVE  m \in InFlight' \/ Lost'
    BY <1>1, FlightStep, LostStays
<1>2. \A m \in ok' : \/ m \in ok
                       \/ (\E w \in Writers : pc[w] = "recheck" /\ m = <<w, current[w]>>)
                       \/ m \in InFlight'
  <2>1. CASE \E w \in Writers : Write(w)
      BY <2>1 DEF Write, lockShipWrite, writeChecks, writeQueues, writeReturns, Return, history
  <2>2. CASE Pin
    <3>1. UNCHANGED ok \/ (ok' = ok \cup {PIN} /\ wire' = Append(wire, PIN))
        BY <2>2 DEF Pin, writeSensitiveMessage
    <3>2. PIN \in Elements(Append(wire, PIN))
      <4>1. /\ Len(wire) \in Nat /\ Len(Append(wire, PIN)) = Len(wire) + 1
            /\ Append(wire, PIN)[Len(wire) + 1] = PIN
          BY AppendProperties, LenProperties DEF TypeOK, Message
      <4>2. Len(wire) + 1 \in 1 .. Len(Append(wire, PIN))
          BY <4>1
      <4> QED
          BY <4>1, <4>2 DEF Elements
    <3>3. wire' = Append(wire, PIN) => PIN \in InFlight'
        BY <3>2 DEF InFlight, Elements
    <3> QED
        BY <3>1, <3>3
  <2>3. CASE UNCHANGED ok
      BY <2>3
  <2> QED
      BY <2>1, <2>2, <2>3 DEF Next, vars, CloseStep, run, Pump, writeShipPump, pumpChecks,
         pumpWrites, handlePing, Reader, readShipPump, readsNoShipMessage, readerChecks, writeBegins,
         Close, StartClose, ReportConnectionError, CloseDataConnection, closeReturns,
         WriteSensitiveMessageToWebsocketConnection, linkBreaks, history
<1>3. \A m \in ok' : m \in InFlight' \/ Lost'
    BY <1>1, <1>2 DEF SentInv
<1>4. ASSUME NEW w \in Writers, pc'[w] = "recheck"
      PROVE  <<w, current'[w]>> \in InFlight' \/ Lost'
  <2>1. CASE \E v \in Writers : writeBegins(v)
    <3>1. PICK v \in Writers : writeBegins(v)
        BY <2>1
    <3>2. v # w /\ pc'[w] = pc[w]
        BY <1>4, <3>1, GoType, ThreadNames DEF writeBegins, Places
    <3>3. current'[w] = current[w]
        BY <3>1, <3>2 DEF writeBegins, TypeOK
    <3> QED
        BY <1>1, <1>4, <3>2, <3>3 DEF SentInv
  <2>2. CASE UNCHANGED current /\ pc[w] = "recheck"
      BY <1>1, <2>2 DEF SentInv
  <2>3. CASE UNCHANGED current /\ writeQueues(w)
    <3>1. channel' = <<<<w, current[w]>>>>
      <4>1. ~Go(w, "idle")
          BY <1>4, GoType, ThreadNames DEF Places
      <4> QED
          BY <2>3, <4>1 DEF writeQueues, Return
    <3>2. <<w, current[w]>> \in Elements(channel')
        BY <3>1, ShortSequences
    <3> QED
        BY <2>3, <3>2 DEF InFlight, Elements
  <2> QED
      BY <1>4, <2>1, <2>2, <2>3, WriterStep
<1> QED
    BY <1>3, <1>4 DEF SentInv
-------------------------------------------------------------------------------
\* The parts of the invariant hold.
LEMMA InvHolds == Spec => []Inv
<1>1. Init => Inv
  <2> SUFFICES ASSUME Init PROVE Inv
      OBVIOUS
  <2>1. TypeOK
    <3>1. <<>> \in Seq(Message)
        OBVIOUS
    <3>2. pc \in [Threads -> Places] /\ current \in [Writers -> Nat]
        BY DEF Init, Places
    <3> QED
        BY <3>1, <3>2 DEF Init, TypeOK, Places
  <2>2. ChannelInv /\ ClosedInv
      BY DEF Init, ChannelInv, ClosedInv
  <2>3. InFlight = {} /\ OrderInv
      BY ShortSequences DEF Init, InFlight, OrderInv, Before
  <2>4. AgeInv /\ SentInv
    <3>1. \A w \in Writers : pc[w] = "idle" /\ current[w] = 0
        BY ThreadNames DEF Init
    <3> QED
        BY <2>3, <3>1 DEF Init, AgeInv, SentInv
  <2> QED
      BY <2>1, <2>2, <2>3, <2>4 DEF Inv
<1>2. Inv /\ [Next]_vars => Inv'
    BY NextType, NextChannel, LostStays, NextOrder, NextAge, NextSent DEF Inv
<1> QED
    BY <1>1, <1>2, PTL DEF Spec

\* A write that returned nil is not lost while the connection lives, and what has
\* gone out and is on its way keeps each writer's order and holds nothing twice,
\* whichever writers, pings, errors, closes and PIN compete (websocket.go:265-282).
THEOREM NothingIsLost == Spec => []DeliveryInv
<1>1. Inv => DeliveryInv
  <2> SUFFICES ASSUME Inv PROVE DeliveryInv
      OBVIOUS
  <2> DEFINE all == wire \o hand \o channel
  <2>1. /\ wire \in Seq(Message) /\ hand \in Seq(Message) /\ channel \in Seq(Message)
        /\ wire \o hand \in Seq(Message)
      BY ConcatProperties DEF Inv, TypeOK
  <2>2. Elements(wire \o hand) = Elements(wire) \cup Elements(hand)
      BY <2>1, ConcatElements
  <2>3. Elements(all) = InFlight
    <3>1. Elements((wire \o hand) \o channel) = Elements(wire \o hand) \cup Elements(channel)
        BY <2>1, ConcatElements
    <3> QED
        BY <2>2, <3>1 DEF InFlight
  <2>4. Ascending(wire \o hand)
      BY <2>1, ConcatAscending DEF Inv, OrderInv
  <2>5. Before(wire \o hand, channel)
      BY <2>2 DEF Inv, OrderInv, Before
  <2>6. Ascending(all)
      BY <2>1, <2>4, <2>5, ConcatAscending DEF Inv, OrderInv
  <2>7. \A m \in ok : (\E i \in 1 .. Len(all) : all[i] = m) \/ closed \/ pc["pump"] = "fail"
    <3> HIDE DEF all
    <3> QED
        BY <2>3 DEF Inv, SentInv, Lost, Elements
  <2> QED
      BY <2>6, <2>7 DEF Inv, DeliveryInv, Ascending
<1> QED
    BY <1>1, InvHolds, PTL
===============================================================================
