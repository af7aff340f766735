------------------------ MODULE HubConnections_proofs ------------------------
(***************************************************************************)
(* What the registry of connections promises for any number of requests,   *)
(* attempts and calls of the user: TypeOK, RegistrySound, NoOrphan,        *)
(* ReplacedIsSilent and HigherSKIWins of HubConnections.  No part of them  *)
(* is inductive alone: what the map may hold depends on where the thread   *)
(* of each connection is (MetInv, PlaceInv), and what a revocation reaches *)
(* on how attempts move from the gate to the cancellations (GateInv).      *)
(***************************************************************************)
EXTENDS HubConnections, TLAPS

Places ==
    {"idle", "reserve", "claim", "abandon", "check", "launched", "enter", "launch",
     "dial", "keep", "bind", "register", "block", "drain", "run", "leave", "handoff",
     "failed", "denied", "done"}

\* Where a thread is whose connection is made, or that is past that.
Formed == {"register", "block", "drain", "run", "leave", "handoff", "denied", "done"}

Live == {"made", "running"}

\* The connections that the registry has, or had, or is about to close.
Met == ({connections} \cup superseded \cup doomed \cup swept
           \cup {victim[c] : c \in Conns}) \ {Nobody}

\* The types, the places, and the order of the authorities: none is newer than
\* the epoch, an outgoing thread under way has one, and a candidate holds back
\* the rotation its retirement will make.
TypeInv ==
    /\ TypeOK
    /\ pc \in [Conns -> Places]
    /\ epoch + (IF candidate = 0 THEN 0 ELSE 1) <= 1 + 2 * (MaxCalls - budget)
    /\ candidate <= epoch /\ reservation.authority <= epoch
    /\ \A c \in Conns : authority[c] <= epoch
    /\ \A a \in retiring : a <= epoch
    /\ \A o \in Outbound : authority[o] = 0 => pc[o] \in {"idle", "done"} /\ life[o] = "none"

\* A connection exists only once its thread has come to make it, and the one of
\* an attempt that waits to be registered ended, if it did, by its cancellation.
PlaceInv ==
    \A c \in Conns :
        /\ life[c] # "none" => pc[c] \in Formed
        /\ pc[c] = "register" /\ c \in Inbound => life[c] = "none"
        /\ pc[c] = "register" /\ c \in Outbound =>
               life[c] = "made" \/ (life[c] = "reported" /\ c \in cancelled)

\* The registry knows no connection that is not made yet or not registered yet.
MetInv == \A c \in Met : life[c] # "none" /\ pc[c] # "register"

\* What is registered is alive and not replaced; a mark belongs to a live
\* connection; only what has ended is announced.
MapInv ==
    /\ connections # Nobody => life[connections] \in Live /\ connections \notin superseded
    /\ \A c \in superseded : life[c] \in Live
    /\ \A c \in announced : life[c] = "reported"
    /\ IF HasShutdown THEN connections = Nobody ELSE swept = {}

\* An attempt leaves the gate only for the cancellations, and the gate knows the
\* connection of every attempt that has one.
GateInv ==
    /\ \A o \in Outbound : life[o] # "none" => o \in attempts \cup cancelling \cup cancelled
    /\ \A o \in attempts : life[o] # "none" => o \in bound
    /\ removing \subseteq cancelling

\* A thread replaces a connection between its registration and its end; the
\* replaced connection is marked until it reports its end,
\* which is not announced.
VictimInv ==
    \A c \in Conns :
        /\ victim[c] # Nobody => pc[c] \in {"block", "drain", "run", "leave", "denied", "done"}
        /\ pc[c] \in {"block", "drain"} => victim[c] # Nobody
        /\ victim[c] # Nobody => (victim[c] \in superseded \/ life[victim[c]] = "reported")
        /\ victim[c] \notin announced

\* The callbacks of a replaced attempt that is still registered are blocked first
\* and over afterwards, even if it loses its registration in between; whatever
\* calls the application for a replaced attempt did so when it was replaced.
SilenceInv ==
    \A c \in Conns :
        /\ victim[c] \in attempts /\ pc[c] \in {"drain", "run", "leave", "denied", "done"}
               => victim[c] \in blocked
        /\ victim[c] \in attempts \cup blocked /\ pc[c] \in {"run", "leave", "denied", "done"}
               => callback[victim[c]] = "idle"
        /\ victim[c] \in Outbound /\ callback[victim[c]] = "calling"
               => victim[c] \in overtaken

\* Only the lower side reserves a pairing over an existing connection.
ReserveInv == reservation.replaced # Nobody => ~localHigher

Inv ==
    /\ TypeInv /\ PlaceInv /\ MetInv /\ MapInv /\ GateInv /\ VictimInv
    /\ SilenceInv /\ ReserveInv /\ NoOrphan

USE DEF con, stop, gate, service, ship, calls, revoke, caller

\* A thread goes to a place.
LEMMA GoType ==
    ASSUME pc \in [Conns -> Places], NEW c \in Conns, NEW l \in Places, Go(c, l)
    PROVE  /\ pc' \in [Conns -> Places] /\ pc'[c] = l
           /\ \A d \in Conns \ {c} : pc'[d] = pc[d]
BY DEF Go

\* Threads stay in their places.
LEMMA PlaceType ==
    ASSUME TypeInv, Next
    PROVE  pc' \in [Conns -> Places]
<1>0. pc \in [Conns -> Places] /\ Inbound \subseteq Conns /\ Outbound \subseteq Conns
    BY DEF TypeInv, Conns
<1>1. \A c \in Conns, l \in Places : Go(c, l) => pc' \in [Conns -> Places]
    BY <1>0, GoType
<1>2. ASSUME NEW i \in Inbound,
             Arrive(i) \/ Reserve(i) \/ RegisterReserved(i) \/ Abandon(i) \/ Check(i)
                \/ RegisterInbound(i)
      PROVE  pc' \in [Conns -> Places]
    BY <1>0, <1>1, <1>2 DEF Places, Arrive, Reserve, RegisterReserved, Abandon, Check,
       RegisterInbound, Register
<1>3. ASSUME NEW d \in Dialers, StartReconnect(d) PROVE pc' \in [Conns -> Places]
    BY <1>0, <1>1, <1>3 DEF Places, StartReconnect, Outbound
<1>4. ASSUME NEW p \in Pairers, LaunchCandidate(p) \/ CandidateActive(p)
      PROVE  pc' \in [Conns -> Places]
    BY <1>0, <1>1, <1>4 DEF Places, LaunchCandidate, CandidateActive, Outbound
<1>5. ASSUME NEW o \in Outbound,
             Enter(o) \/ Launch(o) \/ Dial(o) \/ Keep(o) \/ Bind(o) \/ RegisterOutgoing(o)
                \/ Leave(o)
      PROVE  pc' \in [Conns -> Places]
    BY <1>0, <1>1, <1>5 DEF Places, Enter, Launch, Dial, Keep, Bind, RegisterOutgoing,
       Leave, Register
<1>6. ASSUME NEW c \in Conns, Block(c) \/ Replace(c) \/ Run(c)
      PROVE  pc' \in [Conns -> Places]
    BY <1>0, <1>1, <1>6 DEF Places, Block, Replace, Run
<1>7. ASSUME UNCHANGED pc PROVE pc' \in [Conns -> Places]
    BY <1>0, <1>7
<1>8. CASE \/ \E i \in Inbound : CloseInbound(i) \/ HelloStart(i) \/ HelloOk(i) \/ StateUpdate(i)
           \/ \E o \in Outbound :
                 Cancel(o) \/ CloseOutbound(o) \/ BeginCallback(o) \/ OwnsCallbacks(o)
                 \/ EndCallback(o)
           \/ \E a \in retiring : RetirePairingCandidate(a)
           \/ Admit \/ RemoveConnections \/ RegisterRemoteSKI \/ ApproveOrQueue
           \/ CloseRevoked \/ DisconnectSKI \/ BeginShutdown \/ ShutdownGate
           \/ \E call \in {"unregister", "cancel"} : RevokeOutboundAttempts(call)
    BY <1>7, <1>8 DEF CloseInbound, HelloStart, HelloOk, StateUpdate, Cancel, CloseOutbound, BeginCallback,
       OwnsCallbacks, EndCallback, RetirePairingCandidate, Admit, RemoveConnections,
       RegisterRemoteSKI, ApproveOrQueue, CloseRevoked, DisconnectSKI, BeginShutdown,
       ShutdownGate, RevokeOutboundAttempts
<1> QED
    BY <1>2, <1>3, <1>4, <1>5, <1>6, <1>8 DEF Next

\* The order of the SKIs never changes.
LEMMA LocalStays ==
    ASSUME Next
    PROVE  localHigher' = localHigher
<1> USE DEF Arrive, Reserve, RegisterReserved, Abandon, Check, RegisterInbound,
        CloseInbound, HelloStart, HelloOk, StateUpdate, StartReconnect, LaunchCandidate,
        CandidateActive, Enter, Launch, Dial, Keep, Bind, RegisterOutgoing, Leave,
        Cancel, CloseOutbound, BeginCallback, OwnsCallbacks, EndCallback, Block,
        Replace, Run, RetirePairingCandidate, Admit, RemoveConnections,
        RegisterRemoteSKI, ApproveOrQueue, CloseRevoked, DisconnectSKI,
        RevokeOutboundAttempts, BeginShutdown, ShutdownGate
<1> QED
    BY DEF Next

\* The flags are Booleans.
LEMMA BooleanType ==
    ASSUME TypeInv, Next
    PROVE  /\ localHigher' \in BOOLEAN /\ initiating' \in BOOLEAN
           /\ trusted' \in BOOLEAN /\ queued' \in BOOLEAN
<1>0. /\ localHigher \in BOOLEAN /\ initiating \in BOOLEAN
      /\ trusted \in BOOLEAN /\ queued \in BOOLEAN
    BY DEF TypeInv, TypeOK
<1>1. localHigher' = localHigher
    BY LocalStays
<1>2. initiating' \in {initiating, TRUE, FALSE} /\ trusted' \in {trusted, TRUE, FALSE}
  <2>1. CASE \E i \in Inbound :
                 \/ Arrive(i) \/ Reserve(i) \/ RegisterReserved(i) \/ Abandon(i) \/ Check(i)
                 \/ RegisterInbound(i) \/ CloseInbound(i) \/ HelloStart(i) \/ HelloOk(i) \/ StateUpdate(i)
      BY <2>1 DEF Arrive, Reserve, RegisterReserved, Abandon, Check, RegisterInbound,
         CloseInbound, HelloStart, HelloOk, StateUpdate, ClaimClosed
  <2>2. CASE \/ \E d \in Dialers : StartReconnect(d)
             \/ \E p \in Pairers : LaunchCandidate(p) \/ CandidateActive(p)
             \/ \E c \in Conns : Block(c) \/ Replace(c) \/ Run(c)
      BY <2>2 DEF StartReconnect, LaunchCandidate, CandidateActive, Block, Replace, Run
  <2>3. CASE \E o \in Outbound :
                 \/ Enter(o) \/ Launch(o) \/ Dial(o) \/ Keep(o) \/ Bind(o)
                 \/ RegisterOutgoing(o) \/ Leave(o) \/ Cancel(o)
      BY <2>3 DEF Enter, Launch, Dial, Keep, Bind, RegisterOutgoing, Leave, Cancel
  <2>4. CASE \E o \in Outbound :
                 CloseOutbound(o) \/ BeginCallback(o) \/ OwnsCallbacks(o) \/ EndCallback(o)
      BY <2>4 DEF CloseOutbound, BeginCallback, OwnsCallbacks, EndCallback
  <2>5. CASE \/ \E a \in retiring : RetirePairingCandidate(a)
             \/ Admit \/ RemoveConnections \/ RegisterRemoteSKI \/ ApproveOrQueue
             \/ CloseRevoked \/ DisconnectSKI \/ BeginShutdown \/ ShutdownGate
             \/ \E call \in {"unregister", "cancel"} : RevokeOutboundAttempts(call)
      BY <2>5 DEF RetirePairingCandidate, Admit, RemoveConnections, RegisterRemoteSKI,
         ApproveOrQueue, CloseRevoked, DisconnectSKI, BeginShutdown, ShutdownGate,
         RevokeOutboundAttempts
  <2> QED
      BY <2>1, <2>2, <2>3, <2>4, <2>5 DEF Next
<1>3. queued' \in BOOLEAN
  <2>1. ASSUME UNCHANGED queued PROVE queued' \in BOOLEAN
      BY <1>0, <2>1
  <2>2. CASE \E i \in Inbound :
                 \/ Arrive(i) \/ Reserve(i) \/ RegisterReserved(i) \/ Abandon(i) \/ Check(i)
                 \/ RegisterInbound(i) \/ CloseInbound(i) \/ HelloStart(i)
      BY <2>1, <2>2 DEF Arrive, Reserve, RegisterReserved, Abandon, Check, RegisterInbound,
         CloseInbound, HelloStart, ClaimClosed
  <2>3. CASE \/ \E d \in Dialers : StartReconnect(d)
             \/ \E p \in Pairers : CandidateActive(p)
             \/ \E c \in Conns : Block(c) \/ Replace(c)
      BY <2>1, <2>3 DEF StartReconnect, CandidateActive, Block, Replace
  <2>4. CASE \E o \in Outbound :
                 \/ Enter(o) \/ Launch(o) \/ Dial(o) \/ Keep(o) \/ Bind(o)
                 \/ RegisterOutgoing(o) \/ Leave(o) \/ Cancel(o)
      BY <2>1, <2>4 DEF Enter, Launch, Dial, Keep, Bind, RegisterOutgoing, Leave, Cancel
  <2>5. CASE \E o \in Outbound : BeginCallback(o) \/ OwnsCallbacks(o)
      BY <2>1, <2>5 DEF BeginCallback, OwnsCallbacks
  <2>6. CASE \/ RemoveConnections \/ RegisterRemoteSKI
             \/ CloseRevoked \/ DisconnectSKI \/ BeginShutdown \/ ShutdownGate
      BY <2>1, <2>6 DEF RemoveConnections, RegisterRemoteSKI, CloseRevoked, DisconnectSKI,
         BeginShutdown, ShutdownGate
  <2>7. ASSUME queued' \in {queued, TRUE, FALSE} PROVE queued' \in BOOLEAN
      BY <1>0, <2>7
  <2>8. CASE \/ \E i \in Inbound : HelloOk(i) \/ StateUpdate(i)
             \/ \E p \in Pairers : LaunchCandidate(p)
             \/ \E o \in Outbound : EndCallback(o)
             \/ \E a \in retiring : RetirePairingCandidate(a)
             \/ \E call \in {"unregister", "cancel"} : RevokeOutboundAttempts(call)
             \/ Admit
      BY <2>7, <2>8 DEF HelloOk, StateUpdate, LaunchCandidate, EndCallback, RetirePairingCandidate,
         RevokeOutboundAttempts, Admit
  <2>9. CASE \/ \E c \in Conns : Run(c)
             \/ \E o \in Outbound : CloseOutbound(o)
             \/ ApproveOrQueue
      BY <2>9 DEF Run, CloseOutbound, ApproveOrQueue
  <2> QED
      BY <2>2, <2>3, <2>4, <2>5, <2>6, <2>8, <2>9 DEF Next
<1> QED
    BY <1>0, <1>1, <1>2, <1>3

\* The tables hold connections.
LEMMA TableType ==
    ASSUME TypeInv, Next
    PROVE  /\ connections' \in Conns \cup {Nobody}
           /\ superseded' \subseteq Conns /\ swept' \subseteq Conns
           /\ attempts' \subseteq Outbound /\ bound' \subseteq Outbound
           /\ cancelled' \subseteq Outbound /\ removing' \subseteq Outbound
           /\ cancelling' \subseteq Outbound /\ hello' \subseteq Inbound
           /\ pairing' \subseteq Inbound /\ announced' \subseteq Conns
           /\ overtaken' \subseteq Outbound
<1> USE DEF Arrive, Reserve, RegisterReserved, Abandon, Check, RegisterInbound,
        CloseInbound, HelloStart, HelloOk, StateUpdate, StartReconnect, LaunchCandidate,
        CandidateActive, Enter, Launch, Dial, Keep, Bind, RegisterOutgoing, Leave,
        Cancel, CloseOutbound, BeginCallback, OwnsCallbacks, EndCallback, Block,
        Replace, Run, RetirePairingCandidate, Admit, RemoveConnections,
        RegisterRemoteSKI, ApproveOrQueue, CloseRevoked, DisconnectSKI,
        RevokeOutboundAttempts, BeginShutdown, ShutdownGate
<1> USE DEF Register, InACall, Registered, ClaimClosed, Terminal, RevokeAll, Sweep
<1>0. TypeOK /\ Inbound \subseteq Conns /\ Outbound \subseteq Conns
    BY DEF TypeInv, Conns
<1>1. connections' \in Conns \cup {Nobody}
    BY <1>0 DEF Next, TypeOK
<1>2. superseded' \subseteq Conns /\ swept' \subseteq Conns
    BY <1>0 DEF Next, TypeOK
<1>3. attempts' \subseteq Outbound /\ bound' \subseteq Outbound
    BY <1>0 DEF Next, TypeOK
<1>4. cancelled' \subseteq Outbound /\ removing' \subseteq Outbound
    BY <1>0 DEF Next, TypeOK
<1>5. cancelling' \subseteq Outbound /\ hello' \subseteq Inbound
    BY <1>0 DEF Next, TypeOK
<1>6. pairing' \subseteq Inbound /\ announced' \subseteq Conns
    BY <1>0 DEF Next, TypeOK
<1>7. overtaken' \subseteq Outbound
    BY <1>0 DEF Next, TypeOK
<1> QED
    BY <1>1, <1>2, <1>3, <1>4, <1>5, <1>6, <1>7

\* What is kept for each connection keeps its type, and what is closed or
\* blocked is a connection: a replacing thread has replaced one.
LEMMA ThreadType ==
    ASSUME TypeInv, VictimInv, Next
    PROVE  /\ victim' \in [Conns -> Conns \cup {Nobody}]
           /\ life' \in [Conns -> {"none", "made", "running", "reported"}]
           /\ callback' \in [Outbound -> {"idle", "begun", "active", "calling"}]
           /\ doomed' \subseteq Conns /\ blocked' \subseteq Outbound
           /\ shutdown' \in {"no", "claimed", "done"}
           /\ user' \in {"idle", "register", "unregister", "cancel"}
<1> USE DEF Arrive, Reserve, RegisterReserved, Abandon, Check, RegisterInbound,
        CloseInbound, HelloStart, HelloOk, StateUpdate, StartReconnect, LaunchCandidate,
        CandidateActive, Enter, Launch, Dial, Keep, Bind, RegisterOutgoing, Leave,
        Cancel, CloseOutbound, BeginCallback, OwnsCallbacks, EndCallback, Block,
        Replace, Run, RetirePairingCandidate, Admit, RemoveConnections,
        RegisterRemoteSKI, ApproveOrQueue, CloseRevoked, DisconnectSKI,
        RevokeOutboundAttempts, BeginShutdown, ShutdownGate
<1> USE DEF Register, Registered, ClaimClosed, Call, Return
<1>0. TypeOK /\ Inbound \subseteq Conns /\ Outbound \subseteq Conns
    BY DEF TypeInv, Conns
<1>1. victim' \in [Conns -> Conns \cup {Nobody}]
    BY <1>0 DEF Next, TypeOK
<1>2. life' \in [Conns -> {"none", "made", "running", "reported"}]
    BY <1>0 DEF Next, TypeOK
<1>3. callback' \in [Outbound -> {"idle", "begun", "active", "calling"}]
    BY <1>0 DEF Next, TypeOK
<1>4. doomed' \subseteq Conns /\ blocked' \subseteq Outbound
    BY <1>0 DEF Next, TypeOK, VictimInv
<1>5. shutdown' \in {"no", "claimed", "done"}
    BY <1>0 DEF Next, TypeOK
<1>6. user' \in {"idle", "register", "unregister", "cancel"}
    BY <1>0 DEF Next, TypeOK
<1> QED
    BY <1>1, <1>2, <1>3, <1>4, <1>5, <1>6

\* The reservation keeps its type; its authority is no newer than the epoch.
LEMMA ReservationType ==
    ASSUME TypeInv, Next
    PROVE  /\ reservation' \in [owner : Inbound \cup {Nobody}, replaced : Conns \cup {Nobody},
                                won : BOOLEAN, authority : 0..MaxEpoch]
           /\ reservation'.authority \in {0, candidate, reservation.authority}
<1> USE DEF Arrive, Reserve, RegisterReserved, Abandon, Check, RegisterInbound,
        CloseInbound, HelloStart, HelloOk, StateUpdate, StartReconnect, LaunchCandidate,
        CandidateActive, Enter, Launch, Dial, Keep, Bind, RegisterOutgoing, Leave,
        Cancel, CloseOutbound, BeginCallback, OwnsCallbacks, EndCallback, Block,
        Replace, Run, RetirePairingCandidate, Admit, RemoveConnections,
        RegisterRemoteSKI, ApproveOrQueue, CloseRevoked, DisconnectSKI,
        RevokeOutboundAttempts, BeginShutdown, ShutdownGate
<1> USE DEF ClaimClosed
<1>0. /\ reservation \in [owner : Inbound \cup {Nobody}, replaced : Conns \cup {Nobody},
                          won : BOOLEAN, authority : 0..MaxEpoch]
      /\ connections \in Conns \cup {Nobody} /\ candidate \in 0..MaxEpoch
      /\ NoReservation \in [owner : Inbound \cup {Nobody}, replaced : Conns \cup {Nobody},
                            won : BOOLEAN, authority : 0..MaxEpoch]
      /\ NoReservation.authority = 0
    BY BoundAssumption DEF TypeInv, TypeOK, NoReservation, MaxEpoch
<1>1. \/ reservation' \in {reservation, NoReservation}
      \/ reservation' = [reservation EXCEPT !.won = TRUE]
      \/ \E i \in Inbound : reservation' = [owner |-> i, replaced |-> connections,
                                            won |-> FALSE, authority |-> candidate]
  <2>1. \A i \in Inbound : Reserve(i) =>
            \/ reservation' = reservation
            \/ reservation' = [owner |-> i, replaced |-> connections,
                               won |-> FALSE, authority |-> candidate]
      OBVIOUS
  <2>2. \A i \in Inbound : RegisterReserved(i) =>
            \/ reservation' = reservation
            \/ reservation' = [reservation EXCEPT !.won = TRUE]
      OBVIOUS
  <2>3. \A c \in Conns : ClaimClosed(c) => reservation' \in {reservation, NoReservation}
      OBVIOUS
  <2>4. Inbound \subseteq Conns /\ Outbound \subseteq Conns
      BY DEF Conns
  <2> HIDE DEF Reserve, RegisterReserved, ClaimClosed
  <2>5. \/ \E i \in Inbound : Reserve(i) \/ RegisterReserved(i)
        \/ \E c \in Conns : ClaimClosed(c)
        \/ reservation' \in {reservation, NoReservation}
      BY <2>4 DEF Next
  <2> QED
      BY <2>1, <2>2, <2>3, <2>5
<1>2. CASE reservation' = [reservation EXCEPT !.won = TRUE]
    BY <1>0, <1>2
<1>3. ASSUME NEW i \in Inbound,
             reservation' = [owner |-> i, replaced |-> connections,
                             won |-> FALSE, authority |-> candidate]
      PROVE  /\ reservation' \in [owner : Inbound \cup {Nobody}, replaced : Conns \cup {Nobody},
                                  won : BOOLEAN, authority : 0..MaxEpoch]
             /\ reservation'.authority \in {0, candidate, reservation.authority}
    BY <1>0, <1>3
<1>4. CASE reservation' \in {reservation, NoReservation}
    BY <1>0, <1>4
<1> QED
    BY <1>1, <1>2, <1>3, <1>4

\* The authorities: the epoch never decreases, grows by one at a time, and a step
\* that makes it grow is a call of the user or the end of the candidate.
LEMMA EpochType ==
    ASSUME TypeInv, Next
    PROVE  /\ epoch' \in 1..(1 + 2 * (MaxCalls - budget')) /\ budget' \in 0..MaxCalls
           /\ candidate' \in 0..epoch' /\ epoch <= epoch'
           /\ epoch' + (IF candidate' = 0 THEN 0 ELSE 1) <= 1 + 2 * (MaxCalls - budget')
<1> USE DEF Arrive, Reserve, RegisterReserved, Abandon, Check, RegisterInbound,
        CloseInbound, HelloStart, HelloOk, StateUpdate, StartReconnect, LaunchCandidate,
        CandidateActive, Enter, Launch, Dial, Keep, Bind, RegisterOutgoing, Leave,
        Cancel, CloseOutbound, BeginCallback, OwnsCallbacks, EndCallback, Block,
        Replace, Run, RetirePairingCandidate, Admit, RemoveConnections,
        RegisterRemoteSKI, ApproveOrQueue, CloseRevoked, DisconnectSKI,
        RevokeOutboundAttempts, BeginShutdown, ShutdownGate
<1> USE DEF Call, Return, MayRetire
<1>0. /\ epoch \in Nat \ {0} /\ budget \in 0..MaxCalls /\ candidate \in 0..epoch
      /\ epoch + (IF candidate = 0 THEN 0 ELSE 1) <= 1 + 2 * (MaxCalls - budget)
      /\ 0 \notin retiring
    BY BoundAssumption DEF TypeInv, TypeOK
<1>1. \/ UNCHANGED <<epoch, candidate, budget>>
      \/ UNCHANGED <<epoch, candidate>> /\ budget > 0 /\ budget' = budget - 1
      \/ epoch' = epoch + 1 /\ budget > 0 /\ budget' = budget - 1
         /\ (candidate' = 0 \/ (candidate = 0 /\ candidate' = epoch + 1))
      \/ epoch' = epoch + 1 /\ budget' = budget /\ candidate # 0 /\ candidate' = 0
      \/ epoch' = epoch /\ candidate' = 0 /\ budget' = budget
      \/ epoch' = epoch /\ candidate' = 0 /\ budget > 0 /\ budget' = budget - 1
  <2>1. ASSUME NEW o \in Outbound, CloseOutbound(o), candidate = authority[o] PROVE candidate # 0
    <3>1. life[o] # "none"
        BY <2>1 DEF MayClose
    <3> QED
        BY <2>1, <3>1 DEF TypeInv
  <2>2. \A o \in Outbound : CloseOutbound(o) =>
            \/ UNCHANGED <<epoch, candidate, budget>>
            \/ epoch' = epoch + 1 /\ budget' = budget /\ candidate # 0 /\ candidate' = 0
      BY <2>1
  <2>3. \A a \in retiring : RetirePairingCandidate(a) =>
            \/ UNCHANGED <<epoch, candidate, budget>>
            \/ epoch' = epoch + 1 /\ budget' = budget /\ candidate # 0 /\ candidate' = 0
      BY <1>0
  <2>4. CASE \E call \in {"unregister", "cancel"} : RevokeOutboundAttempts(call)
      BY <2>4
  <2>5. CASE \/ Admit \/ RegisterRemoteSKI \/ ApproveOrQueue \/ CloseRevoked
             \/ DisconnectSKI \/ BeginShutdown
      BY <2>5
  <2>6. CASE \E i \in Inbound :
                 \/ Arrive(i) \/ Reserve(i) \/ RegisterReserved(i) \/ Abandon(i) \/ Check(i)
                 \/ RegisterInbound(i) \/ CloseInbound(i) \/ HelloStart(i) \/ HelloOk(i) \/ StateUpdate(i)
      BY <2>6
  <2>7. CASE \E o \in Outbound :
                 \/ Enter(o) \/ Launch(o) \/ Dial(o) \/ Keep(o) \/ Bind(o)
                 \/ RegisterOutgoing(o) \/ Leave(o) \/ Cancel(o)
                 \/ BeginCallback(o) \/ OwnsCallbacks(o) \/ EndCallback(o)
      BY <2>7
  <2>8. CASE \/ \E d \in Dialers : StartReconnect(d)
             \/ \E p \in Pairers : LaunchCandidate(p) \/ CandidateActive(p)
             \/ \E c \in Conns : Block(c) \/ Replace(c) \/ Run(c)
             \/ RemoveConnections \/ ShutdownGate
      BY <2>8
  <2>9. CASE \/ \E o \in Outbound : CloseOutbound(o)
             \/ \E a \in retiring : RetirePairingCandidate(a)
      BY <2>2, <2>3, <2>9
  <2> HIDE DEF Arrive, Reserve, RegisterReserved, Abandon, Check, RegisterInbound,
          CloseInbound, HelloStart, HelloOk, StateUpdate, StartReconnect, LaunchCandidate,
          CandidateActive, Enter, Launch, Dial, Keep, Bind, RegisterOutgoing, Leave,
          Cancel, CloseOutbound, BeginCallback, OwnsCallbacks, EndCallback, Block,
          Replace, Run, RetirePairingCandidate, Admit, RemoveConnections,
          RegisterRemoteSKI, ApproveOrQueue, CloseRevoked, DisconnectSKI,
          RevokeOutboundAttempts, BeginShutdown, ShutdownGate
  <2> QED
      BY <2>4, <2>5, <2>6, <2>7, <2>8, <2>9 DEF Next
<1> QED
    BY <1>0, <1>1, BoundAssumption

\* The authorities of the threads and of the retirements are those of an epoch
\* that was, and an outgoing thread under way has one.
LEMMA AuthorityType ==
    ASSUME TypeInv, PlaceInv, Next
    PROVE  /\ authority' \in [Conns -> Nat] /\ \A c \in Conns : authority'[c] <= epoch
           /\ retiring' \subseteq 1..epoch
           /\ \A o \in Outbound :
                  authority'[o] = 0 => pc'[o] \in {"idle", "done"} /\ life'[o] = "none"
<1> USE DEF Arrive, Reserve, RegisterReserved, Abandon, Check, RegisterInbound,
        CloseInbound, HelloStart, HelloOk, StateUpdate, StartReconnect, LaunchCandidate,
        CandidateActive, Enter, Launch, Dial, Keep, Bind, RegisterOutgoing, Leave,
        Cancel, CloseOutbound, BeginCallback, OwnsCallbacks, EndCallback, Block,
        Replace, Run, RetirePairingCandidate, Admit, RemoveConnections,
        RegisterRemoteSKI, ApproveOrQueue, CloseRevoked, DisconnectSKI,
        RevokeOutboundAttempts, BeginShutdown, ShutdownGate
<1>0. /\ epoch \in Nat \ {0} /\ candidate \in 0..epoch /\ authority \in [Conns -> Nat]
      /\ \A c \in Conns : authority[c] <= epoch
      /\ retiring \subseteq 1..epoch /\ reservation.authority \in 0..epoch
      /\ Inbound \subseteq Conns /\ Outbound \subseteq Conns
    BY BoundAssumption DEF TypeInv, TypeOK, Conns, MaxEpoch
<1>1. /\ authority' \in [Conns -> Nat] /\ \A c \in Conns : authority'[c] <= epoch
  <2>1. \/ authority' = authority
        \/ \E c \in Conns : authority' = [authority EXCEPT ![c] = epoch]
        \/ \E c \in Conns : authority' = [authority EXCEPT ![c] = candidate]
      BY <1>0 DEF Next, Outbound
  <2> QED
      BY <1>0, <2>1
<1>2. retiring' \subseteq 1..epoch
  <2>1. ASSUME NEW o \in Outbound, pc[o] \notin {"idle", "done"}
        PROVE Failed(o) \subseteq 1..epoch
    <3>1. authority[o] \in 1..epoch
      <4>1. authority[o] # 0
          BY <2>1 DEF TypeInv
      <4> QED
          BY <1>0, <4>1
    <3> QED
        BY <1>0, <3>1 DEF Failed
  <2>2. ASSUME NEW o \in Outbound, Enter(o) \/ Leave(o) PROVE retiring' \subseteq 1..epoch
      BY <1>0, <2>1, <2>2
  <2> HIDE DEF Enter, Leave
  <2>3. CASE \E o \in Outbound : Enter(o) \/ Leave(o)
      BY <2>2, <2>3
  <2>4. CASE ~\E o \in Outbound : Enter(o) \/ Leave(o)
    <3>1. retiring' \subseteq retiring \cup ({reservation.authority} \ {0})
        BY <2>4 DEF Next
    <3> QED
        BY <1>0, <3>1
  <2> QED
      BY <2>3, <2>4
<1>3. \A o \in Outbound : authority'[o] = 0 => pc'[o] \in {"idle", "done"} /\ life'[o] = "none"
  <2> SUFFICES ASSUME NEW o \in Outbound, authority'[o] = 0
               PROVE pc'[o] \in {"idle", "done"} /\ life'[o] = "none"
      OBVIOUS
  <2>1. authority[o] = 0 => pc[o] \in {"idle", "done"} /\ life[o] = "none"
      BY DEF TypeInv
  <2>2. authority[o] = 0
    <3>1. ASSUME NEW d \in Dialers, StartReconnect(d) PROVE authority[o] = 0
        BY <1>0, <3>1 DEF Outbound
    <3>2. ASSUME NEW p \in Pairers, LaunchCandidate(p) PROVE authority[o] = 0
        BY <1>0, <3>2 DEF Outbound
    <3>3. ASSUME NEW i \in Inbound, Reserve(i) PROVE authority[o] = 0
        BY <1>0, <3>3, ConnectionAssumption DEF Outbound
    <3> QED
        BY <3>1, <3>2, <3>3 DEF Next
  <2>3. pc'[o] = pc[o] \/ pc'[o] = "done" \/ (authority'[o] # 0)
    <3>1. pc \in [Conns -> Places]
        BY DEF TypeInv
    <3>2. ASSUME NEW c \in Conns, pc[c] \notin {"idle", "done"},
                 pc' = [pc EXCEPT ![c] = pc'[c]]
          PROVE  pc'[o] = pc[o]
        BY <1>0, <2>1, <2>2, <3>1, <3>2
    <3>3. ASSUME NEW i \in Inbound, Arrive(i) PROVE pc'[o] = pc[o]
        BY <1>0, <3>1, <3>3, ConnectionAssumption DEF Go, Outbound
    <3>4. ASSUME NEW d \in Dialers, StartReconnect(d) PROVE pc'[o] = pc[o]
        BY <1>0, <3>1, <3>4 DEF Go, Outbound, TypeInv, TypeOK
    <3>5. ASSUME NEW p \in Pairers, LaunchCandidate(p) PROVE pc'[o] = pc[o]
        BY <1>0, <3>1, <3>5 DEF Go, Outbound, TypeInv, TypeOK
    <3> HIDE DEF Arrive, StartReconnect, LaunchCandidate
    <3> QED
        BY <1>0, <3>1, <3>2, <3>3, <3>4, <3>5 DEF Next, Go, Register
  <2>4. life'[o] = "none"
    <3>1. life \in [Conns -> {"none", "made", "running", "reported"}]
        BY DEF TypeInv, TypeOK
    <3>2. ASSUME NEW c \in Conns, pc[c] \notin {"idle", "done"},
                 life' = [life EXCEPT ![c] = life'[c]]
          PROVE  life'[o] = "none"
        BY <1>0, <2>1, <2>2, <3>1, <3>2
    <3>3. ASSUME NEW c \in Conns, ClaimClosed(c), MayClose(c) PROVE life'[o] = "none"
        BY <1>0, <2>1, <2>2, <3>1, <3>3 DEF ClaimClosed, MayClose
    <3> QED
        BY <1>0, <2>1, <2>2, <3>1, <3>2, <3>3 DEF Next, Register
  <2> QED
      BY <2>1, <2>2, <2>3, <2>4
<1> QED
    BY <1>1, <1>2, <1>3

\* Two rotations for each call made are at most two for each call there is.
LEMMA EpochBound ==
    ASSUME NEW e, NEW b, b \in 0..MaxCalls, e \in 1..(1 + 2 * (MaxCalls - b))
    PROVE  MaxEpoch \in Nat /\ e <= MaxEpoch
BY BoundAssumption DEF MaxEpoch

\* TypeInv is kept.
LEMMA TypeStep ==
    ASSUME TypeInv, PlaceInv, VictimInv, Next
    PROVE  TypeInv'
<1>1. /\ epoch' \in 1..MaxEpoch /\ candidate' \in 0..MaxEpoch /\ epoch' <= MaxEpoch
      /\ candidate' <= epoch' /\ candidate \in 0..epoch /\ MaxEpoch \in Nat
  <2>1. epoch' \in 1..(1 + 2 * (MaxCalls - budget')) /\ budget' \in 0..MaxCalls
        /\ candidate' \in 0..epoch'
      BY EpochType
  <2>2. candidate \in 0..epoch
      BY DEF TypeInv, TypeOK, MaxEpoch
  <2>3. epoch' <= MaxEpoch /\ MaxEpoch \in Nat
      BY <2>1, EpochBound
  <2> QED
      BY <2>1, <2>2, <2>3
<1>2. epoch \in Nat /\ epoch <= epoch'
    BY EpochType DEF TypeInv, TypeOK
<1>3. authority' \in [Conns -> 0..MaxEpoch] /\ \A c \in Conns : authority'[c] <= epoch'
    BY <1>1, <1>2, AuthorityType
<1>4. retiring' \subseteq 1..MaxEpoch /\ \A a \in retiring' : a <= epoch'
    BY <1>1, <1>2, AuthorityType
<1>5. reservation'.authority <= epoch'
  <2>1. reservation.authority \in 0..epoch
      BY DEF TypeInv, TypeOK, MaxEpoch
  <2>2. reservation'.authority \in {0, candidate, reservation.authority}
      BY ReservationType
  <2> QED
      BY <1>1, <1>2, <2>1, <2>2
<1>6. TypeOK'
  <2>1. DOMAIN pc' = Conns
      BY PlaceType
  <2>2. epoch' \in 1..(1 + 2 * (MaxCalls - budget')) /\ budget' \in 0..MaxCalls
      BY EpochType
  <2>3. reservation' \in [owner : Inbound \cup {Nobody}, replaced : Conns \cup {Nobody},
                          won : BOOLEAN, authority : 0..MaxEpoch]
      BY ReservationType
  <2> QED
      BY <1>1, <1>3, <1>4, <2>1, <2>2, <2>3, BooleanType, TableType, ThreadType, Zenon
         DEF TypeOK
<1> QED
    BY <1>1, <1>3, <1>4, <1>5, <1>6, PlaceType, EpochType, AuthorityType DEF TypeInv

\* A connection is made at the places PlaceInv names only, and ends before its
\* registration only by a cancellation: nobody else knows it yet (MetInv).
LEMMA PlaceStep ==
    ASSUME TypeInv, PlaceInv, MetInv, Next
    PROVE  PlaceInv'
<1>0. /\ pc \in [Conns -> Places]
      /\ life \in [Conns -> {"none", "made", "running", "reported"}]
      /\ Inbound \subseteq Conns /\ Outbound \subseteq Conns /\ Inbound \cap Outbound = {}
      /\ Nobody \notin Conns
    BY ConnectionAssumption DEF TypeInv, TypeOK, Conns, Outbound
<1>1. ASSUME NEW i \in Inbound,
             Arrive(i) \/ Reserve(i) \/ RegisterReserved(i) \/ Abandon(i) \/ Check(i)
                \/ RegisterInbound(i)
      PROVE  PlaceInv'
    BY <1>0, <1>1 DEF PlaceInv, Formed, Go, Arrive, Reserve, RegisterReserved, Abandon, Check,
       RegisterInbound, Register
<1>2. ASSUME NEW d \in Dialers, StartReconnect(d) PROVE PlaceInv'
    BY <1>0, <1>2 DEF PlaceInv, Formed, Go, StartReconnect, Outbound
<1>3. ASSUME NEW p \in Pairers, LaunchCandidate(p) \/ CandidateActive(p)
      PROVE  PlaceInv'
    BY <1>0, <1>3 DEF PlaceInv, Formed, Go, LaunchCandidate, CandidateActive, Outbound
<1>4. ASSUME NEW o \in Outbound, Enter(o) \/ Launch(o) \/ Dial(o) \/ Keep(o) \/ Leave(o)
      PROVE  PlaceInv'
    BY <1>0, <1>4 DEF PlaceInv, Formed, Go, Enter, Launch, Dial, Keep, Leave, Terminal
<1>5. ASSUME NEW o \in Outbound, Bind(o) \/ RegisterOutgoing(o)
      PROVE  PlaceInv'
    BY <1>0, <1>5 DEF PlaceInv, Formed, Go, Bind, RegisterOutgoing, Register, Terminal
<1>6. ASSUME NEW c \in Conns, Block(c) \/ Replace(c) \/ Run(c)
      PROVE  PlaceInv'
    BY <1>0, <1>6 DEF PlaceInv, Formed, Go, Block, Replace, Run
<1>7. ASSUME NEW c \in Conns, CloseInbound(c) \/ CloseOutbound(c) PROVE PlaceInv'
    BY <1>0, <1>7 DEF PlaceInv, MetInv, Met, Formed, CloseInbound, CloseOutbound, ClaimClosed,
       MayClose
<1>8. ASSUME NEW o \in Outbound, Cancel(o) PROVE PlaceInv'
    BY <1>0, <1>8 DEF PlaceInv, Cancel
<1>9. ASSUME UNCHANGED <<pc, life, cancelled>> PROVE PlaceInv'
    BY <1>9 DEF PlaceInv
<1>10. CASE \/ \E i \in Inbound : HelloStart(i) \/ HelloOk(i) \/ StateUpdate(i)
            \/ \E o \in Outbound : BeginCallback(o) \/ OwnsCallbacks(o) \/ EndCallback(o)
            \/ \E a \in retiring : RetirePairingCandidate(a)
            \/ Admit \/ RemoveConnections \/ RegisterRemoteSKI \/ ApproveOrQueue
            \/ CloseRevoked \/ DisconnectSKI \/ BeginShutdown \/ ShutdownGate
            \/ \E call \in {"unregister", "cancel"} : RevokeOutboundAttempts(call)
    BY <1>9, <1>10 DEF HelloStart, HelloOk, StateUpdate, BeginCallback, OwnsCallbacks, EndCallback,
       RetirePairingCandidate, Admit, RemoveConnections, RegisterRemoteSKI, ApproveOrQueue,
       CloseRevoked, DisconnectSKI, BeginShutdown, ShutdownGate, RevokeOutboundAttempts
<1> QED
    BY <1>0, <1>1, <1>2, <1>3, <1>4, <1>5, <1>6, <1>7, <1>8, <1>10 DEF Next

\* The types that every step below uses.
Typed ==
    /\ pc \in [Conns -> Places]
    /\ life \in [Conns -> {"none", "made", "running", "reported"}]
    /\ victim \in [Conns -> Conns \cup {Nobody}]
    /\ callback \in [Outbound -> {"idle", "begun", "active", "calling"}]
    /\ connections \in Conns \cup {Nobody} /\ superseded \subseteq Conns
    /\ attempts \subseteq Outbound /\ announced \subseteq Conns
    /\ blocked \subseteq Outbound
    /\ Inbound \subseteq Conns /\ Outbound \subseteq Conns /\ Inbound \cap Outbound = {}
    /\ Nobody \notin Conns

\* They follow from TypeInv.
LEMMA TypedHolds ==
    ASSUME TypeInv PROVE Typed
BY ConnectionAssumption DEF TypeInv, TypeOK, Typed, Conns, Outbound

\* A connection that is made and past its registration stays so.
LEMMA StaysMade ==
    ASSUME TypeInv, PlaceInv, Next, NEW c \in Conns, life[c] # "none", pc[c] # "register"
    PROVE  life'[c] # "none" /\ pc'[c] # "register"
<1>0. Typed /\ pc[c] \in Formed \ {"register"}
    BY TypedHolds DEF PlaceInv
<1>1. ASSUME NEW i \in Inbound,
             Arrive(i) \/ Reserve(i) \/ RegisterReserved(i) \/ Abandon(i) \/ Check(i)
                \/ RegisterInbound(i)
      PROVE  life'[c] # "none" /\ pc'[c] # "register"
    BY <1>0, <1>1 DEF Typed, Formed, Go, Arrive, Reserve, RegisterReserved, Abandon, Check,
       RegisterInbound, Register
<1>2. ASSUME NEW d \in Dialers, StartReconnect(d)
      PROVE  life'[c] # "none" /\ pc'[c] # "register"
    BY <1>0, <1>2 DEF Typed, Go, StartReconnect, Outbound
<1>3. ASSUME NEW p \in Pairers, LaunchCandidate(p) \/ CandidateActive(p)
      PROVE  life'[c] # "none" /\ pc'[c] # "register"
    BY <1>0, <1>3 DEF Typed, Go, LaunchCandidate, CandidateActive, Outbound
<1>4. ASSUME NEW o \in Outbound,
             Enter(o) \/ Launch(o) \/ Dial(o) \/ Keep(o) \/ Leave(o) \/ Bind(o)
                \/ RegisterOutgoing(o)
      PROVE  life'[c] # "none" /\ pc'[c] # "register"
    BY <1>0, <1>4 DEF Typed, Formed, Go, Enter, Launch, Dial, Keep, Leave, Bind,
       RegisterOutgoing, Register
<1>5. ASSUME NEW d \in Conns, Block(d) \/ Replace(d) \/ Run(d)
      PROVE  life'[c] # "none" /\ pc'[c] # "register"
    BY <1>0, <1>5 DEF Typed, Go, Block, Replace, Run
<1>6. ASSUME NEW d \in Conns, CloseInbound(d) \/ CloseOutbound(d)
      PROVE  life'[c] # "none" /\ pc'[c] # "register"
    BY <1>0, <1>6 DEF Typed, CloseInbound, CloseOutbound, ClaimClosed
<1>7. CASE \/ \E i \in Inbound : HelloStart(i) \/ HelloOk(i) \/ StateUpdate(i)
           \/ \E o \in Outbound :
                 Cancel(o) \/ BeginCallback(o) \/ OwnsCallbacks(o) \/ EndCallback(o)
           \/ \E a \in retiring : RetirePairingCandidate(a)
           \/ Admit \/ RemoveConnections \/ RegisterRemoteSKI \/ ApproveOrQueue
           \/ CloseRevoked \/ DisconnectSKI \/ BeginShutdown \/ ShutdownGate
           \/ \E call \in {"unregister", "cancel"} : RevokeOutboundAttempts(call)
    BY <1>7 DEF HelloStart, HelloOk, StateUpdate, Cancel, BeginCallback, OwnsCallbacks, EndCallback,
       RetirePairingCandidate, Admit, RemoveConnections, RegisterRemoteSKI, ApproveOrQueue,
       CloseRevoked, DisconnectSKI, BeginShutdown, ShutdownGate, RevokeOutboundAttempts
<1> QED
    BY <1>0, <1>1, <1>2, <1>3, <1>4, <1>5, <1>6, <1>7 DEF Next, Typed

\* The registry meets a connection when it is registered, gives way or is refused.
LEMMA MetStep ==
    ASSUME TypeInv, PlaceInv, MetInv, VictimInv, Next
    PROVE  MetInv'
<1>0. Typed
    BY TypedHolds
<1>1. Met \subseteq Conns /\ Nobody \notin Conns
    BY <1>0 DEF Met, Typed, TypeInv, TypeOK
<1>2. ASSUME NEW c \in Met PROVE life'[c] # "none" /\ pc'[c] # "register"
    BY <1>1, <1>2, StaysMade DEF MetInv
<1>3. ASSUME Met' \subseteq Met PROVE MetInv'
    BY <1>2, <1>3 DEF MetInv
<1>4. ASSUME NEW i \in Inbound, RegisterReserved(i) \/ RegisterInbound(i) PROVE MetInv'
  <2>1. CASE Register(i)
    <3>1. Met' \subseteq Met \cup {i}
        BY <1>0, <1>4, <2>1 DEF Met, Typed, RegisterReserved, RegisterInbound, Register,
           Registered
    <3>2. life'[i] # "none" /\ pc'[i] # "register"
        BY <1>0, <2>1 DEF Typed, Register, Go
    <3> QED
        BY <1>2, <3>1, <3>2 DEF MetInv
  <2>2. CASE ~Register(i)
    <3>1. Met' \subseteq Met
        BY <1>0, <1>4, <2>2 DEF Met, RegisterReserved, RegisterInbound
    <3> QED
        BY <1>3, <3>1
  <2> QED
      BY <2>1, <2>2
<1>5. ASSUME NEW o \in Outbound, RegisterOutgoing(o) PROVE MetInv'
  <2>1. Met' \subseteq Met \cup {o}
      BY <1>0, <1>5 DEF Met, Typed, RegisterOutgoing, Register, Registered
  <2>2. life'[o] # "none" /\ pc'[o] # "register"
      BY <1>0, <1>5 DEF Typed, RegisterOutgoing, Register, Go, PlaceInv
  <2> QED
      BY <1>2, <2>1, <2>2 DEF MetInv
<1>6. ASSUME UNCHANGED <<connections, superseded, doomed, swept, victim>> PROVE Met' \subseteq Met
    BY <1>6 DEF Met
<1>7. CASE \/ \E i \in Inbound :
                 \/ Arrive(i) \/ Reserve(i) \/ Abandon(i) \/ Check(i)
                 \/ HelloStart(i) \/ HelloOk(i) \/ StateUpdate(i)
           \/ \E d \in Dialers : StartReconnect(d)
           \/ \E p \in Pairers : LaunchCandidate(p) \/ CandidateActive(p)
           \/ \E o \in Outbound :
                 \/ Enter(o) \/ Launch(o) \/ Dial(o) \/ Bind(o) \/ Leave(o)
                 \/ Cancel(o) \/ BeginCallback(o) \/ OwnsCallbacks(o) \/ EndCallback(o)
           \/ \E c \in Conns : Block(c) \/ Run(c)
           \/ \E a \in retiring : RetirePairingCandidate(a)
           \/ Admit \/ RegisterRemoteSKI \/ ApproveOrQueue
           \/ \E call \in {"unregister", "cancel"} : RevokeOutboundAttempts(call)
    BY <1>3, <1>6, <1>7 DEF Arrive, Reserve, Abandon, Check, HelloStart, HelloOk, StateUpdate,
       StartReconnect, LaunchCandidate, CandidateActive, Enter, Launch, Dial, Bind, Leave,
       Cancel, BeginCallback, OwnsCallbacks, EndCallback, Block, Run, RetirePairingCandidate,
       Admit, RegisterRemoteSKI, ApproveOrQueue, RevokeOutboundAttempts
<1>8. CASE \/ \E o \in Outbound : Keep(o)
           \/ \E c \in Conns : Replace(c)
           \/ \E c \in Conns : CloseInbound(c) \/ CloseOutbound(c)
           \/ RemoveConnections \/ CloseRevoked \/ DisconnectSKI \/ BeginShutdown
           \/ ShutdownGate
  <2>1. Met' \subseteq Met
      BY <1>0, <1>8 DEF Met, Typed, Keep, Replace, CloseInbound, CloseOutbound, ClaimClosed,
         RemoveConnections, CloseRevoked, DisconnectSKI, BeginShutdown, ShutdownGate,
         Registered, Sweep
  <2> QED
      BY <1>3, <2>1
<1> QED
    BY <1>0, <1>4, <1>5, <1>7, <1>8 DEF Next, Typed

\* A thread that registers its connection has one the registry did not know, and
\* that has not ended.
LEMMA Newcomer ==
    ASSUME TypeInv, PlaceInv, MetInv, NEW c \in Conns,
           \/ c \in Inbound /\ pc[c] \in {"claim", "register"}
           \/ c \in Outbound /\ pc[c] = "register"
    PROVE  /\ c # connections /\ c \notin superseded /\ c \notin doomed
           /\ \A d \in Conns : victim[d] # c
           /\ c \in Inbound => life[c] = "none"
           /\ c \in Outbound /\ c \notin cancelled => life[c] = "made"
<1>0. Typed
    BY TypedHolds
<1>1. c \in Inbound => life[c] = "none"
    BY DEF PlaceInv, Formed
<1>2. c \notin Met
    BY <1>1 DEF MetInv
<1>3. c # Nobody
    BY <1>0 DEF Typed
<1> QED
    BY <1>0, <1>1, <1>2, <1>3 DEF Met, PlaceInv, Typed

\* The map and the marks: what they name is alive.
LEMMA MapStep ==
    ASSUME TypeInv, PlaceInv, MetInv, MapInv, Next
    PROVE  MapInv'
<1>0. Typed
    BY TypedHolds
<1>1. ASSUME NEW i \in Inbound, RegisterReserved(i) \/ RegisterInbound(i) PROVE MapInv'
  <2>1. i # connections /\ i \notin superseded /\ life[i] = "none"
      BY <1>0, <1>1, Newcomer DEF RegisterReserved, RegisterInbound, Typed
  <2>2. CASE Register(i)
      BY <1>0, <1>1, <2>1, <2>2 DEF MapInv, Live, Typed, RegisterReserved, RegisterInbound,
         InboundAccepted, Register, Registered, HasShutdown
  <2>3. CASE ~Register(i)
      BY <1>1, <2>3 DEF MapInv, RegisterReserved, RegisterInbound, HasShutdown
  <2> QED
      BY <2>2, <2>3
<1>2. ASSUME NEW o \in Outbound, RegisterOutgoing(o) PROVE MapInv'
  <2>1. o # connections /\ o \notin superseded /\ (o \notin cancelled => life[o] = "made")
      BY <1>0, <1>2, Newcomer DEF RegisterOutgoing, Typed
  <2> QED
      BY <1>0, <1>2, <2>1 DEF MapInv, Live, Typed, RegisterOutgoing, Refused, Register,
         Registered, HasShutdown
<1>3. ASSUME NEW o \in Outbound, Bind(o) PROVE MapInv'
  <2>1. o # connections /\ o \notin superseded /\ o \notin announced
      BY <1>0, <1>3 DEF MapInv, Live, Typed, Bind, PlaceInv, Formed
  <2> QED
      BY <1>0, <1>3, <2>1 DEF MapInv, Live, Typed, Bind, HasShutdown
<1>4. ASSUME NEW c \in Conns, Run(c) PROVE MapInv'
    BY <1>0, <1>4 DEF MapInv, Live, Typed, Run, HasShutdown
<1>5. ASSUME NEW c \in Conns, CloseInbound(c) \/ CloseOutbound(c) PROVE MapInv'
    BY <1>0, <1>5 DEF MapInv, Live, Typed, CloseInbound, CloseOutbound, ClaimClosed, HasShutdown
<1>6. CASE RemoveConnections \/ BeginShutdown \/ ShutdownGate
    BY <1>0, <1>6 DEF MapInv, RemoveConnections, BeginShutdown, ShutdownGate, HasShutdown
<1>7. ASSUME UNCHANGED <<connections, superseded, life, announced, shutdown, swept>>
      PROVE  MapInv'
    BY <1>7 DEF MapInv, HasShutdown
<1>8. CASE \/ \E i \in Inbound :
                 \/ Arrive(i) \/ Reserve(i) \/ Abandon(i) \/ Check(i)
                 \/ HelloStart(i) \/ HelloOk(i) \/ StateUpdate(i)
           \/ \E d \in Dialers : StartReconnect(d)
           \/ \E p \in Pairers : LaunchCandidate(p) \/ CandidateActive(p)
           \/ \E o \in Outbound :
                 \/ Enter(o) \/ Launch(o) \/ Dial(o) \/ Keep(o) \/ Leave(o)
                 \/ Cancel(o) \/ BeginCallback(o) \/ OwnsCallbacks(o) \/ EndCallback(o)
           \/ \E c \in Conns : Block(c) \/ Replace(c)
           \/ \E a \in retiring : RetirePairingCandidate(a)
           \/ Admit \/ RegisterRemoteSKI \/ ApproveOrQueue \/ CloseRevoked \/ DisconnectSKI
           \/ \E call \in {"unregister", "cancel"} : RevokeOutboundAttempts(call)
    BY <1>7, <1>8 DEF Arrive, Reserve, Abandon, Check, HelloStart, HelloOk, StateUpdate,
       StartReconnect, LaunchCandidate, CandidateActive, Enter, Launch, Dial, Keep, Leave,
       Cancel, BeginCallback, OwnsCallbacks, EndCallback, Block, Replace,
       RetirePairingCandidate, Admit, RegisterRemoteSKI, ApproveOrQueue, CloseRevoked,
       DisconnectSKI, RevokeOutboundAttempts
<1> QED
    BY <1>0, <1>1, <1>2, <1>3, <1>4, <1>5, <1>6, <1>8 DEF Next, Typed

\* The gate: an attempt with a connection is registered there, or being
\* cancelled, or cancelled.
LEMMA GateStep ==
    ASSUME TypeInv, PlaceInv, MetInv, GateInv, Next
    PROVE  GateInv'
<1>0. Typed
    BY TypedHolds
<1>1. ASSUME NEW i \in Inbound, RegisterReserved(i) \/ RegisterInbound(i) PROVE GateInv'
    BY <1>0, <1>1 DEF GateInv, Typed, RegisterReserved, RegisterInbound, Register
<1>2. ASSUME NEW o \in Outbound, RegisterOutgoing(o) PROVE GateInv'
    BY <1>0, <1>2 DEF GateInv, Typed, RegisterOutgoing, Register
<1>3. ASSUME NEW o \in Outbound, Launch(o) \/ Dial(o) \/ Keep(o) PROVE GateInv'
  <2>1. life[o] = "none"
      BY <1>0, <1>3 DEF Typed, Launch, Dial, Keep, PlaceInv, Formed
  <2> QED
      BY <1>0, <1>3, <2>1 DEF GateInv, Typed, Launch, Dial, Keep, Terminal
<1>4. ASSUME NEW o \in Outbound, Bind(o) PROVE GateInv'
    BY <1>0, <1>4 DEF GateInv, Typed, Bind, Terminal
<1>5. ASSUME NEW c \in Conns, Run(c) PROVE GateInv'
    BY <1>0, <1>5 DEF GateInv, Typed, Run
<1>6. ASSUME NEW c \in Conns, CloseInbound(c) \/ CloseOutbound(c) PROVE GateInv'
  <2>1. life[c] # "none"
      BY <1>6 DEF CloseInbound, CloseOutbound, MayClose
  <2> QED
      BY <1>0, <1>6, <2>1 DEF GateInv, Typed, CloseInbound, CloseOutbound, ClaimClosed
<1>7. ASSUME NEW o \in Outbound, Cancel(o) PROVE GateInv'
    BY <1>0, <1>7 DEF GateInv, Typed, Cancel, MuxRegFree
<1>8. CASE \/ RemoveConnections \/ ShutdownGate
           \/ \E a \in retiring : RetirePairingCandidate(a)
           \/ \E call \in {"unregister", "cancel"} : RevokeOutboundAttempts(call)
    BY <1>0, <1>8 DEF GateInv, Typed, RemoveConnections, ShutdownGate, RetirePairingCandidate,
       RevokeOutboundAttempts, RevokeAll
<1>9. ASSUME UNCHANGED <<life, attempts, bound, cancelled, cancelling, removing>> PROVE GateInv'
    BY <1>9 DEF GateInv
<1>10. CASE \/ \E i \in Inbound :
                  \/ Arrive(i) \/ Reserve(i) \/ Abandon(i) \/ Check(i)
                  \/ HelloStart(i) \/ HelloOk(i) \/ StateUpdate(i)
            \/ \E d \in Dialers : StartReconnect(d)
            \/ \E p \in Pairers : LaunchCandidate(p) \/ CandidateActive(p)
            \/ \E o \in Outbound :
                  \/ Enter(o) \/ Leave(o)
                  \/ BeginCallback(o) \/ OwnsCallbacks(o) \/ EndCallback(o)
            \/ \E c \in Conns : Block(c) \/ Replace(c)
            \/ Admit \/ RegisterRemoteSKI \/ ApproveOrQueue \/ CloseRevoked \/ DisconnectSKI
            \/ BeginShutdown
    BY <1>9, <1>10 DEF Arrive, Reserve, Abandon, Check, HelloStart, HelloOk, StateUpdate,
       StartReconnect, LaunchCandidate, CandidateActive, Enter, Leave,
       BeginCallback, OwnsCallbacks, EndCallback, Block, Replace,
       Admit, RegisterRemoteSKI, ApproveOrQueue, CloseRevoked, DisconnectSKI, BeginShutdown
<1>11. CASE \E o \in Outbound :
                 \/ Enter(o) \/ Launch(o) \/ Dial(o) \/ Keep(o) \/ Bind(o)
                 \/ RegisterOutgoing(o) \/ Leave(o) \/ Cancel(o)
                 \/ CloseOutbound(o) \/ BeginCallback(o) \/ OwnsCallbacks(o) \/ EndCallback(o)
    BY <1>0, <1>2, <1>3, <1>4, <1>6, <1>7, <1>10, <1>11 DEF Typed
<1> QED
    BY <1>0, <1>1, <1>5, <1>6, <1>8, <1>10, <1>11 DEF Next, Typed

\* A replaced connection stays marked until it ends, and its successor stays where
\* a successor may be.
LEMMA VictimStep ==
    ASSUME TypeInv, PlaceInv, MetInv, MapInv, VictimInv, Next
    PROVE  VictimInv'
<1>0. Typed
    BY TypedHolds
<1>1. ASSUME NEW i \in Inbound, RegisterReserved(i) \/ RegisterInbound(i) PROVE VictimInv'
  <2>1. i # connections /\ (\A d \in Conns : victim[d] # i) /\ victim[i] = Nobody
      BY <1>0, <1>1, Newcomer DEF RegisterReserved, RegisterInbound, Typed, VictimInv
  <2>2. CASE Register(i)
      BY <1>0, <1>1, <2>1, <2>2 DEF VictimInv, Typed, RegisterReserved, RegisterInbound,
         Register, Registered, Go, MapInv, Live
  <2>3. CASE ~Register(i)
      BY <1>0, <1>1, <2>1, <2>3 DEF VictimInv, Typed, RegisterReserved, RegisterInbound, Go
  <2> QED
      BY <2>2, <2>3
<1>2. ASSUME NEW o \in Outbound, RegisterOutgoing(o) PROVE VictimInv'
  <2>1. o # connections /\ (\A d \in Conns : victim[d] # o) /\ victim[o] = Nobody
      BY <1>0, <1>2, Newcomer DEF RegisterOutgoing, Typed, VictimInv
  <2> QED
      BY <1>0, <1>2, <2>1 DEF VictimInv, Typed, RegisterOutgoing, Register, Registered, Go,
         MapInv, Live
<1>3. ASSUME NEW o \in Outbound, Bind(o) PROVE VictimInv'
  <2>1. victim[o] = Nobody /\ \A d \in Conns : victim[d] # o
      BY <1>0, <1>3 DEF VictimInv, MetInv, Met, Typed, Bind, PlaceInv, Formed
  <2> QED
      BY <1>0, <1>3, <2>1 DEF VictimInv, Typed, Bind, Go
<1>4. ASSUME NEW c \in Conns, Run(c) PROVE VictimInv'
  <2>1. \A d \in Conns : life[d] = "reported" => life'[d] = "reported"
      BY <1>0, <1>4 DEF Typed, Run
  <2> QED
      BY <1>0, <1>4, <2>1 DEF VictimInv, Typed, Run, Go
<1>5. ASSUME NEW c \in Conns, CloseInbound(c) \/ CloseOutbound(c) PROVE VictimInv'
    BY <1>0, <1>5 DEF VictimInv, Typed, CloseInbound, CloseOutbound, ClaimClosed, MayClose
<1>6. ASSUME NEW c \in Conns, NEW l \in Places, Go(c, l),
             UNCHANGED <<victim, superseded, life, announced>>,
             \/ victim[c] = Nobody /\ l \notin {"block", "drain"}
             \/ l = "drain" /\ pc[c] = "block"
             \/ l \in {"run", "done"}
      PROVE  VictimInv'
    BY <1>0, <1>6 DEF VictimInv, Typed, Go
<1>7. CASE \/ \E i \in Inbound : Arrive(i) \/ Reserve(i) \/ Abandon(i) \/ Check(i)
           \/ \E d \in Dialers : StartReconnect(d)
           \/ \E p \in Pairers : LaunchCandidate(p) \/ CandidateActive(p)
           \/ \E o \in Outbound : Enter(o) \/ Launch(o) \/ Dial(o) \/ Keep(o) \/ Leave(o)
           \/ \E c \in Conns : Block(c) \/ Replace(c)
    BY <1>0, <1>6, <1>7 DEF VictimInv, Typed, Places, Outbound, Arrive, Reserve, Abandon, Check,
       StartReconnect, LaunchCandidate, CandidateActive, Enter, Launch, Dial, Keep, Leave,
       Block, Replace
<1>8. ASSUME UNCHANGED <<pc, life, victim, superseded, announced>> PROVE VictimInv'
    BY <1>8 DEF VictimInv
<1>9. CASE \/ \E i \in Inbound : HelloStart(i) \/ HelloOk(i) \/ StateUpdate(i)
           \/ \E o \in Outbound :
                 Cancel(o) \/ BeginCallback(o) \/ OwnsCallbacks(o) \/ EndCallback(o)
           \/ \E a \in retiring : RetirePairingCandidate(a)
           \/ Admit \/ RemoveConnections \/ RegisterRemoteSKI \/ ApproveOrQueue
           \/ CloseRevoked \/ DisconnectSKI \/ BeginShutdown \/ ShutdownGate
           \/ \E call \in {"unregister", "cancel"} : RevokeOutboundAttempts(call)
    BY <1>8, <1>9 DEF HelloStart, HelloOk, StateUpdate, Cancel, BeginCallback, OwnsCallbacks, EndCallback,
       RetirePairingCandidate, Admit, RemoveConnections, RegisterRemoteSKI, ApproveOrQueue,
       CloseRevoked, DisconnectSKI, BeginShutdown, ShutdownGate, RevokeOutboundAttempts
<1> QED
    BY <1>0, <1>1, <1>2, <1>3, <1>4, <1>5, <1>7, <1>9 DEF Next, Typed

\* Callbacks of a replaced attempt are blocked, then drained, and none begins: the
\* registered connection has not been replaced.
LEMMA SilenceStep ==
    ASSUME TypeInv, PlaceInv, MetInv, MapInv, GateInv, VictimInv, SilenceInv, Next
    PROVE  SilenceInv'
<1>0. Typed
    BY TypedHolds
<1>1. ASSUME NEW i \in Inbound, RegisterReserved(i) \/ RegisterInbound(i) PROVE SilenceInv'
    BY <1>0, <1>1 DEF SilenceInv, Typed, RegisterReserved, RegisterInbound, Register,
       InACall, VictimInv, Go
<1>2. ASSUME NEW o \in Outbound, RegisterOutgoing(o) PROVE SilenceInv'
    BY <1>0, <1>2 DEF SilenceInv, Typed, RegisterOutgoing, Register, InACall, VictimInv, Go
<1>3. ASSUME NEW o \in Outbound, Launch(o) \/ Dial(o) \/ Keep(o) \/ Bind(o) \/ Enter(o)
      PROVE SilenceInv'
  <2>1. victim[o] = Nobody /\ \A d \in Conns : victim[d] # o
      BY <1>0, <1>3 DEF VictimInv, MetInv, Met, Typed, Launch, Dial, Keep, Bind, Enter,
         PlaceInv, Formed
  <2> QED
      BY <1>0, <1>3, <2>1 DEF SilenceInv, Typed, Launch, Dial, Keep, Bind, Enter, Terminal, Go
<1>4. ASSUME NEW c \in Conns, Block(c) PROVE SilenceInv'
  <2>1. victim[c] \in attempts => victim[c] \in bound
      BY <1>0, <1>4 DEF GateInv, MetInv, Met, Typed
  <2> QED
      BY <1>0, <1>4, <2>1 DEF SilenceInv, Typed, Block, Go
<1>5. ASSUME NEW c \in Conns, Replace(c) PROVE SilenceInv'
    BY <1>0, <1>5 DEF SilenceInv, Typed, Replace, Drained, Go
<1>6. ASSUME NEW c \in Conns, Run(c) PROVE SilenceInv'
    BY <1>0, <1>6 DEF SilenceInv, Typed, Run, Go
<1>7. ASSUME NEW o \in Outbound, Leave(o) PROVE SilenceInv'
    BY <1>0, <1>7 DEF SilenceInv, Typed, Leave, VictimInv, Go
<1>8. ASSUME NEW o \in Outbound, BeginCallback(o) \/ OwnsCallbacks(o) \/ EndCallback(o)
      PROVE SilenceInv'
  <2>1. attempts' \subseteq attempts /\ UNCHANGED <<pc, victim, blocked>>
      BY <1>8 DEF BeginCallback, OwnsCallbacks, EndCallback
  <2>2. \A p \in Outbound : callback[p] = "idle" /\ p \in blocked => callback'[p] = "idle"
      BY <1>0, <1>8 DEF Typed, BeginCallback, OwnsCallbacks, EndCallback
  <2>3. \A c \in Conns : victim[c] \in Outbound => victim[c] # connections \/ connections \in superseded
      BY <1>0 DEF VictimInv, MapInv, Live, Typed
  <2>4. \A c \in Conns : victim[c] \in Outbound /\ callback'[victim[c]] = "calling"
                              => victim[c] \in overtaken'
      BY <1>0, <1>8, <2>3 DEF SilenceInv, Typed, BeginCallback, OwnsCallbacks, EndCallback
  <2> QED
      BY <1>0, <2>1, <2>2, <2>4 DEF SilenceInv, Typed
<1>9. ASSUME NEW i \in Inbound, Arrive(i) \/ Reserve(i) \/ Abandon(i) \/ Check(i)
      PROVE SilenceInv'
  <2>1. victim[i] = Nobody
      BY <1>0, <1>9 DEF VictimInv, Typed, Arrive, Reserve, Abandon, Check
  <2> QED
      BY <1>0, <1>9, <2>1 DEF SilenceInv, Typed, Arrive, Reserve, Abandon, Check, Go
<1>10. CASE \/ \E d \in Dialers : StartReconnect(d)
            \/ \E p \in Pairers : LaunchCandidate(p) \/ CandidateActive(p)
    BY <1>0, <1>10 DEF SilenceInv, VictimInv, Typed, StartReconnect, LaunchCandidate,
       CandidateActive, Outbound, Go
<1>11. ASSUME attempts' \subseteq attempts,
              UNCHANGED <<pc, victim, blocked, callback, overtaken>>
       PROVE SilenceInv'
    BY <1>11 DEF SilenceInv
<1>12. CASE \/ \E c \in Conns : CloseInbound(c) \/ CloseOutbound(c)
            \/ \E i \in Inbound : HelloStart(i) \/ HelloOk(i) \/ StateUpdate(i)
            \/ \E o \in Outbound : Cancel(o)
            \/ \E a \in retiring : RetirePairingCandidate(a)
            \/ Admit \/ RemoveConnections \/ RegisterRemoteSKI \/ ApproveOrQueue
            \/ CloseRevoked \/ DisconnectSKI \/ BeginShutdown \/ ShutdownGate
            \/ \E call \in {"unregister", "cancel"} : RevokeOutboundAttempts(call)
  <2>1. attempts' \subseteq attempts /\ UNCHANGED <<pc, victim, blocked, callback, overtaken>>
      BY <1>12 DEF CloseInbound, CloseOutbound, HelloStart, HelloOk, StateUpdate, Cancel,
         RetirePairingCandidate, Admit, RemoveConnections, RegisterRemoteSKI, ApproveOrQueue,
         CloseRevoked, DisconnectSKI, BeginShutdown, ShutdownGate, RevokeOutboundAttempts,
         RevokeAll
  <2> QED
      BY <1>11, <2>1
<1>13. CASE \E o \in Outbound :
                 \/ Enter(o) \/ Launch(o) \/ Dial(o) \/ Keep(o) \/ Bind(o)
                 \/ RegisterOutgoing(o) \/ Leave(o) \/ Cancel(o)
                 \/ CloseOutbound(o) \/ BeginCallback(o) \/ OwnsCallbacks(o) \/ EndCallback(o)
    BY <1>0, <1>2, <1>3, <1>7, <1>8, <1>12, <1>13 DEF Typed
<1> QED
    BY <1>0, <1>1, <1>4, <1>5, <1>6, <1>9, <1>10, <1>12, <1>13 DEF Next, Typed

\* Only the lower side reserves a pairing over an existing connection.
LEMMA ReserveStep ==
    ASSUME TypeInv, ReserveInv, Next
    PROVE  ReserveInv'
<1>1. localHigher' = localHigher
    BY LocalStays
<1>2. ASSUME NEW i \in Inbound, Reserve(i) PROVE ReserveInv'
    BY <1>1, <1>2 DEF ReserveInv, Reserve
<1>3. ASSUME NEW i \in Inbound, RegisterReserved(i) PROVE ReserveInv'
  <2>1. reservation'.replaced = reservation.replaced
    <3>1. reservation' \in {reservation, [reservation EXCEPT !.won = TRUE]}
        BY <1>3 DEF RegisterReserved
    <3> QED
        BY <3>1 DEF TypeInv, TypeOK
  <2> QED
      BY <1>1, <2>1 DEF ReserveInv
<1>4. ASSUME reservation' \in {reservation, NoReservation} PROVE ReserveInv'
    BY <1>1, <1>4 DEF ReserveInv, NoReservation
<1>5. ASSUME NEW c \in Conns, ClaimClosed(c) PROVE ReserveInv'
    BY <1>4, <1>5 DEF ClaimClosed
<1>6. CASE \/ \E i \in Inbound :
                 \/ Arrive(i) \/ Abandon(i) \/ Check(i) \/ RegisterInbound(i)
                 \/ HelloStart(i) \/ HelloOk(i) \/ StateUpdate(i)
           \/ \E d \in Dialers : StartReconnect(d)
           \/ \E p \in Pairers : LaunchCandidate(p) \/ CandidateActive(p)
           \/ \E o \in Outbound :
                 \/ Enter(o) \/ Launch(o) \/ Dial(o) \/ Keep(o) \/ Bind(o)
                 \/ RegisterOutgoing(o) \/ Leave(o) \/ Cancel(o)
                 \/ BeginCallback(o) \/ OwnsCallbacks(o) \/ EndCallback(o)
    BY <1>4, <1>6 DEF Arrive, Abandon, Check, RegisterInbound, HelloStart, HelloOk, StateUpdate,
       StartReconnect, LaunchCandidate, CandidateActive, Enter, Launch, Dial, Keep, Bind,
       RegisterOutgoing, Leave, Cancel, BeginCallback, OwnsCallbacks, EndCallback
<1>7. CASE \/ \E c \in Conns : Block(c) \/ Replace(c) \/ Run(c)
           \/ \E a \in retiring : RetirePairingCandidate(a)
           \/ Admit \/ RemoveConnections \/ RegisterRemoteSKI \/ ApproveOrQueue
           \/ CloseRevoked \/ DisconnectSKI \/ BeginShutdown \/ ShutdownGate
           \/ \E call \in {"unregister", "cancel"} : RevokeOutboundAttempts(call)
    BY <1>4, <1>7 DEF Block, Replace, Run, RetirePairingCandidate, Admit, RemoveConnections,
       RegisterRemoteSKI, ApproveOrQueue, CloseRevoked, DisconnectSKI, BeginShutdown,
       ShutdownGate, RevokeOutboundAttempts
<1>8. CASE \/ \E i \in Inbound : CloseInbound(i)
           \/ \E o \in Outbound : CloseOutbound(o)
    BY <1>5, <1>8 DEF CloseInbound, CloseOutbound, Conns
<1> QED
    BY <1>2, <1>3, <1>6, <1>7, <1>8 DEF Next

\* No connection is forgotten open.
LEMMA OrphanStep ==
    ASSUME TypeInv, PlaceInv, MetInv, MapInv, GateInv, VictimInv, NoOrphan, Next
    PROVE  NoOrphan'
<1>0. Typed
    BY TypedHolds
<1> DEFINE Seen(c) == \/ c \in doomed \cup cancelled \cup cancelling \cup swept
                      \/ \E r \in Conns : victim[r] = c /\ pc[r] \in {"block", "drain"}
           Open(c) == life[c] \in Live /\ c # connections /\ pc[c] # "register"
<1>1. NoOrphan <=> \A c \in Conns : Open(c) => Seen(c)
    BY DEF NoOrphan, Live
<1>2. NoOrphan' <=> \A c \in Conns : Open(c)' => Seen(c)'
    BY DEF NoOrphan, Live
<1> HIDE DEF Seen, Open
<1>3. ASSUME NEW i \in Inbound, RegisterReserved(i) \/ RegisterInbound(i) PROVE NoOrphan'
  <2>1. i # connections /\ victim[i] = Nobody /\ life[i] = "none"
      BY <1>0, <1>3, Newcomer DEF RegisterReserved, RegisterInbound, Typed, VictimInv
  <2>2. CASE Register(i)
    <3>1. ASSUME NEW c \in Conns, Open(c)' PROVE Seen(c)'
      <4>1. c # i
          BY <2>2, <3>1 DEF Open, Register
      <4>2. CASE c = connections
        <5>1. victim'[i] = c /\ pc'[i] = "block"
            BY <1>0, <2>2, <4>2 DEF Register, Typed, Go
        <5> QED
            BY <1>0, <5>1 DEF Seen, Typed
      <4>3. CASE c # connections
        <5>1. Open(c)
            BY <1>0, <2>2, <3>1, <4>1, <4>3 DEF Open, Register, Typed, Go
        <5>2. Seen(c)
            BY <1>1, <5>1
        <5>3. UNCHANGED <<doomed, cancelled, cancelling, swept>>
            BY <1>3 DEF RegisterReserved, RegisterInbound
        <5> QED
            BY <1>0, <2>1, <2>2, <5>2, <5>3 DEF Seen, Register, Typed, Go
      <4> QED
          BY <4>2, <4>3
    <3> QED
        BY <1>2, <3>1
  <2>3. CASE ~Register(i)
    <3>1. ASSUME NEW c \in Conns, Open(c)' PROVE Seen(c)'
      <4>1. Open(c)
          BY <1>0, <1>3, <2>1, <2>3, <3>1 DEF Open, RegisterReserved, RegisterInbound, Live,
             Typed, Go
      <4>2. Seen(c)
          BY <1>1, <4>1
      <4> QED
          BY <1>0, <1>3, <2>1, <2>3, <4>2 DEF Seen, RegisterReserved, RegisterInbound, Typed, Go
    <3> QED
        BY <1>2, <3>1
  <2> QED
      BY <2>2, <2>3
<1>4. ASSUME NEW o \in Outbound, RegisterOutgoing(o) PROVE NoOrphan'
  <2>1. o # connections /\ victim[o] = Nobody
      BY <1>0, <1>4, Newcomer DEF RegisterOutgoing, Typed, VictimInv
  <2>2. ASSUME NEW c \in Conns, Open(c)' PROVE Seen(c)'
    <3>1. CASE c = o
        BY <1>0, <1>4, <2>2, <3>1 DEF Seen, Open, RegisterOutgoing, Register
    <3>2. CASE c # o /\ c = connections /\ connections' # connections
      <4>1. victim'[o] = c /\ pc'[o] = "block"
          BY <1>0, <1>4, <3>2 DEF RegisterOutgoing, Register, Typed, Go
      <4> QED
          BY <1>0, <4>1 DEF Seen, Typed
    <3>3. CASE c # o /\ ~(c = connections /\ connections' # connections)
      <4>1. Open(c)
          BY <1>0, <1>4, <2>2, <3>3 DEF Open, RegisterOutgoing, Register, Typed, Go
      <4>2. Seen(c)
          BY <1>1, <4>1
      <4> QED
          BY <1>0, <1>4, <2>1, <4>2 DEF Seen, RegisterOutgoing, Register, Typed, Go
    <3> QED
        BY <3>1, <3>2, <3>3
  <2> QED
      BY <1>2, <2>2
<1>5. ASSUME \A c \in Conns : Open(c)' => Open(c) \/ Seen(c)',
             \A c \in Conns : Seen(c) => Seen(c)' \/ ~Open(c)'
      PROVE NoOrphan'
    BY <1>1, <1>2, <1>5
<1>6. ASSUME NEW o \in Outbound, Launch(o) \/ Dial(o) \/ Keep(o) \/ Bind(o) \/ Enter(o) \/ Leave(o)
      PROVE NoOrphan'
  <2>1. \/ victim[o] = Nobody /\ life[o] = "none"
        \/ Leave(o) /\ pc[o] \notin {"block", "drain"}
      BY <1>0, <1>6 DEF VictimInv, Typed, Launch, Dial, Keep, Bind, Enter, Leave, PlaceInv, Formed
  <2>2. \A c \in Conns : Open(c)' => Open(c) \/ Seen(c)'
      BY <1>0, <1>6, <2>1 DEF Open, Seen, Typed, Launch, Dial, Keep, Bind, Enter, Leave,
         Terminal, Go, Live
  <2>3. \A c \in Conns : Seen(c) => Seen(c)' \/ ~Open(c)'
      BY <1>0, <1>6, <2>1 DEF Open, Seen, Typed, Launch, Dial, Keep, Bind, Enter, Leave,
         Terminal, Go, Live
  <2> QED
      BY <1>5, <2>2, <2>3
<1>7. ASSUME NEW d \in Conns, Block(d) \/ Replace(d) \/ Run(d) PROVE NoOrphan'
  <2>1. \A c \in Conns : Open(c)' => Open(c)
      BY <1>0, <1>7 DEF Open, Typed, Block, Replace, Run, Go, Live
  <2>2. \A c \in Conns : Seen(c) => Seen(c)'
      BY <1>0, <1>7 DEF Seen, Typed, Block, Replace, Run, Go
  <2> QED
      BY <1>5, <2>1, <2>2
<1>8. ASSUME NEW d \in Conns, CloseInbound(d) \/ CloseOutbound(d) PROVE NoOrphan'
  <2>1. \A c \in Conns : Open(c)' => Open(c) /\ c # d
      BY <1>0, <1>8 DEF Open, Typed, CloseInbound, CloseOutbound, ClaimClosed, Live, MapInv
  <2>2. \A c \in Conns \ {d} : Seen(c) => Seen(c)'
      BY <1>0, <1>8 DEF Seen, CloseInbound, CloseOutbound, ClaimClosed
  <2> QED
      BY <1>5, <2>1, <2>2
<1>9. CASE RemoveConnections \/ BeginShutdown
  <2>1. \A c \in Conns : Open(c)' => Open(c) \/ Seen(c)'
      BY <1>0, <1>9 DEF Open, Seen, RemoveConnections, BeginShutdown, Sweep, Registered,
         GateInv, Typed
  <2>2. \A c \in Conns : Seen(c) => Seen(c)' \/ ~Open(c)'
      BY <1>0, <1>9 DEF Seen, RemoveConnections, BeginShutdown, Sweep, Registered, MapInv,
         HasShutdown
  <2> QED
      BY <1>5, <2>1, <2>2
<1>10. ASSUME UNCHANGED <<pc, life, victim, connections, swept>>, doomed \subseteq doomed',
              cancelled \cup cancelling \subseteq cancelled' \cup cancelling'
       PROVE  NoOrphan'
  <2>1. \A c \in Conns : (Open(c)' => Open(c)) /\ (Seen(c) => Seen(c)')
      BY <1>10 DEF Open, Seen
  <2> QED
      BY <1>5, <2>1
<1>11. CASE \/ \E i \in Inbound : HelloStart(i) \/ HelloOk(i) \/ StateUpdate(i)
            \/ \E o \in Outbound :
                  Cancel(o) \/ BeginCallback(o) \/ OwnsCallbacks(o) \/ EndCallback(o)
            \/ \E a \in retiring : RetirePairingCandidate(a)
            \/ Admit \/ RegisterRemoteSKI \/ ApproveOrQueue
            \/ CloseRevoked \/ DisconnectSKI \/ ShutdownGate
            \/ \E call \in {"unregister", "cancel"} : RevokeOutboundAttempts(call)
    BY <1>10, <1>11 DEF HelloStart, HelloOk, StateUpdate, Cancel, BeginCallback, OwnsCallbacks,
       EndCallback, RetirePairingCandidate, Admit, RegisterRemoteSKI, ApproveOrQueue,
       CloseRevoked, DisconnectSKI, ShutdownGate, RevokeOutboundAttempts, RevokeAll
<1>12. ASSUME NEW d \in Conns, NEW l \in Places \ {"block", "drain"}, Go(d, l), life[d] = "none",
              pc[d] \notin {"block", "drain"},
              UNCHANGED <<life, victim, connections, swept, doomed, cancelled, cancelling>>
       PROVE  NoOrphan'
  <2>1. \A c \in Conns : (Open(c)' => Open(c)) /\ (Seen(c) => Seen(c)')
      BY <1>0, <1>12 DEF Open, Seen, Typed, Go, Live
  <2> QED
      BY <1>5, <2>1
<1>13. CASE \/ \E i \in Inbound : Arrive(i) \/ Reserve(i) \/ Abandon(i) \/ Check(i)
            \/ \E d \in Dialers : StartReconnect(d)
            \/ \E p \in Pairers : LaunchCandidate(p) \/ CandidateActive(p)
    BY <1>0, <1>12, <1>13 DEF Typed, PlaceInv, Formed, Places, Outbound, Arrive, Reserve, Abandon,
       Check, StartReconnect, LaunchCandidate, CandidateActive
<1>14. CASE \E o \in Outbound :
                 \/ Enter(o) \/ Launch(o) \/ Dial(o) \/ Keep(o) \/ Bind(o)
                 \/ RegisterOutgoing(o) \/ Leave(o) \/ Cancel(o)
                 \/ CloseOutbound(o) \/ BeginCallback(o) \/ OwnsCallbacks(o) \/ EndCallback(o)
    BY <1>0, <1>4, <1>6, <1>8, <1>11, <1>14 DEF Typed
<1> QED
    BY <1>0, <1>3, <1>7, <1>8, <1>9, <1>11, <1>13, <1>14 DEF Next, Typed
------------------------------------------------------------------------------
\* The initial states satisfy the invariant.
LEMMA InitInv ==
    ASSUME Init
    PROVE  Inv
<1>1. pc \in [Conns -> {"idle", "done"}]
    BY DEF Init
<1>2. TypeOK
  <2>1. epoch \in 1..(1 + 2 * (MaxCalls - budget)) /\ budget \in 0..MaxCalls
        /\ candidate \in 0..MaxEpoch /\ 0 \in 0..MaxEpoch
      BY BoundAssumption DEF Init, MaxEpoch
  <2>2. reservation \in [owner : Inbound \cup {Nobody}, replaced : Conns \cup {Nobody},
                          won : BOOLEAN, authority : 0..MaxEpoch]
      BY <2>1 DEF Init, NoReservation
  <2>3. authority \in [Conns -> 0..MaxEpoch] /\ retiring \subseteq 1..MaxEpoch
      BY <2>1 DEF Init
  <2>4. /\ localHigher \in BOOLEAN /\ initiating \in BOOLEAN
        /\ trusted \in BOOLEAN /\ queued \in BOOLEAN
      BY OrderAssumption DEF Init
  <2>5. /\ victim \in [Conns -> Conns \cup {Nobody}]
        /\ life \in [Conns -> {"none", "made", "running", "reported"}]
        /\ callback \in [Outbound -> {"idle", "begun", "active", "calling"}]
        /\ DOMAIN pc = Conns
      BY <1>1 DEF Init
  <2> QED
      BY <2>1, <2>2, <2>3, <2>4, <2>5 DEF Init, TypeOK
<1>3. TypeInv
  <2>1. epoch + (IF candidate = 0 THEN 0 ELSE 1) <= 1 + 2 * (MaxCalls - budget)
      BY BoundAssumption DEF Init
  <2> QED
      BY <1>1, <1>2, <2>1 DEF Init, TypeInv, Places, NoReservation, Conns
<1>4. PlaceInv /\ GateInv /\ VictimInv /\ SilenceInv
  <2>1. \A c \in Conns : pc[c] \in {"idle", "done"} /\ life[c] = "none" /\ victim[c] = Nobody
      BY <1>1 DEF Init
  <2>2. /\ announced = {} /\ attempts = {} /\ removing = {} /\ Outbound \subseteq Conns
        /\ blocked = {}
      BY DEF Init, Conns
  <2>3. PlaceInv /\ GateInv
      BY <2>1, <2>2 DEF PlaceInv, GateInv
  <2>4. VictimInv /\ SilenceInv
      BY <2>1, <2>2, ConnectionAssumption DEF VictimInv, SilenceInv, Outbound
  <2> QED
      BY <2>3, <2>4
<1>5. MetInv /\ MapInv /\ ReserveInv
  <2>1. Met = {}
      BY DEF Init, Met
  <2> QED
      BY <2>1 DEF Init, MetInv, MapInv, HasShutdown, ReserveInv, NoReservation
<1>6. NoOrphan
    BY DEF Init, NoOrphan
<1> QED
    BY <1>3, <1>4, <1>5, <1>6 DEF Inv

\* Every step keeps it.
LEMMA NextInv ==
    ASSUME Inv, [Next]_vars
    PROVE  Inv'
<1>1. CASE Next
    BY <1>1, TypeStep, PlaceStep, MetStep, MapStep, GateStep, VictimStep, SilenceStep,
       ReserveStep, OrphanStep DEF Inv
<1>2. CASE UNCHANGED vars
  <2>1. TypeInv' /\ PlaceInv' /\ MetInv' /\ MapInv'
      BY <1>2 DEF vars, Inv, TypeInv, TypeOK, PlaceInv, MetInv, Met, MapInv, HasShutdown
  <2>2. GateInv' /\ VictimInv' /\ SilenceInv' /\ ReserveInv' /\ NoOrphan'
      BY <1>2 DEF vars, Inv, GateInv, VictimInv, SilenceInv, ReserveInv, NoOrphan
  <2> QED
      BY <2>1, <2>2 DEF Inv
<1> QED
    BY <1>1, <1>2

\* The invariant of the registry.
LEMMA InvHolds == Spec => []Inv
BY InitInv, NextInv, PTL DEF Spec

\* Every variable keeps its type, and the authority is rotated at most twice for
\* each call of the user, whatever the remote does.
THEOREM TypesHold == Spec => []TypeOK
<1>1. Inv => TypeOK
    BY DEF Inv, TypeInv
<1> QED
    BY <1>1, InvHolds, PTL

\* RegistrySound: the map never keeps a connection whose end was reported, every
\* mark is given back, no registered attempt escapes revocation, and nothing is
\* registered after shutdown emptied the map (hub_connections.go, hub.go).
THEOREM RegistryIsSound == Spec => []RegistrySound
<1>1. Inv => RegistrySound
  <2> SUFFICES ASSUME Inv PROVE RegistrySound
      OBVIOUS
  <2>1. Typed
      BY TypedHolds DEF Inv
  <2> QED
      BY <2>1 DEF Inv, MapInv, GateInv, RegistrySound, Live, Typed
<1> QED
    BY <1>1, InvHolds, PTL

\* NoOrphan: a connection that is alive and not registered has been closed or
\* cancelled, or the thread that replaced it is about to close it.
THEOREM NoConnectionIsOrphaned == Spec => []NoOrphan
<1>1. Inv => NoOrphan
    BY DEF Inv
<1> QED
    BY <1>1, InvHolds, PTL

\* ReplacedIsSilent: the application never hears the end of a replaced connection.
\* The callbacks of a replaced attempt are over before its successor runs if its
\* registration was found when they were to be blocked
\* (blockOutboundAttemptCallbacks); otherwise at most the call that was under way
\* at the replacement is still going on.
THEOREM ReplacedStaysSilent == Spec => []ReplacedIsSilent
<1>1. Inv => ReplacedIsSilent
  <2> SUFFICES ASSUME Inv, NEW c \in Conns
               PROVE /\ victim[c] \notin announced
                     /\ pc[c] \in {"run", "leave", "denied", "done"}
                            /\ victim[c] \in attempts \cup blocked
                            => callback[victim[c]] = "idle"
                     /\ victim[c] \in Outbound /\ callback[victim[c]] = "calling"
                            => victim[c] \in overtaken
      BY DEF ReplacedIsSilent
  <2>1. victim[c] \notin announced
      BY DEF Inv, VictimInv
  <2> QED
      BY <2>1 DEF Inv, SilenceInv
<1> QED
    BY <1>1, InvHolds, PTL

\* HigherSKIWins: whatever is under way, a registered connection gives way only to
\* one that the side with the higher SKI initiated.
THEOREM HigherSKIAlwaysWins == Spec => HigherSKIWins
<1>1. ASSUME Inv, [Next]_vars
      PROVE [connections # Nobody /\ connections' \notin {connections, Nobody}
               => IF localHigher THEN connections' \in Outbound ELSE connections' \in Inbound]_vars
  <2> SUFFICES ASSUME Next, connections # Nobody, connections' \notin {connections, Nobody}
               PROVE IF localHigher THEN connections' \in Outbound ELSE connections' \in Inbound
      BY <1>1 DEF vars
  <2>1. ASSUME NEW i \in Inbound, RegisterReserved(i)
        PROVE connections' \in Inbound /\ ~localHigher
      BY <1>1, <2>1 DEF RegisterReserved, Register, Inv, ReserveInv
  <2>2. ASSUME NEW i \in Inbound, RegisterInbound(i)
        PROVE connections' \in Inbound /\ ~localHigher
      BY <2>2 DEF RegisterInbound, InboundAccepted, Register
  <2>3. ASSUME NEW o \in Outbound, RegisterOutgoing(o)
        PROVE connections' \in Outbound /\ localHigher
      BY <2>3 DEF RegisterOutgoing, Register
  <2>4. \/ \E i \in Inbound : RegisterReserved(i) \/ RegisterInbound(i)
        \/ \E o \in Outbound : RegisterOutgoing(o)
        \/ connections' \in {connections, Nobody}
    <3> USE DEF Arrive, Reserve, RegisterReserved, Abandon, Check, RegisterInbound,
            CloseInbound, HelloStart, HelloOk, StateUpdate, StartReconnect, LaunchCandidate,
            CandidateActive, Enter, Launch, Dial, Keep, Bind, RegisterOutgoing, Leave,
            Cancel, CloseOutbound, BeginCallback, OwnsCallbacks, EndCallback, Block,
            Replace, Run, RetirePairingCandidate, Admit, RemoveConnections,
            RegisterRemoteSKI, ApproveOrQueue, CloseRevoked, DisconnectSKI,
            RevokeOutboundAttempts, BeginShutdown, ShutdownGate
    <3> HIDE DEF RegisterReserved, RegisterInbound, RegisterOutgoing
    <3> QED
        BY DEF Next, ClaimClosed
  <2> QED
      BY <2>1, <2>2, <2>3, <2>4
<1> QED
    BY <1>1, InvHolds, PTL DEF Spec, HigherSKIWins
==============================================================================
