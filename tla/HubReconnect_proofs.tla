------------------------- MODULE HubReconnect_proofs -------------------------
(***************************************************************************)
(* Proofs about HubReconnect, for any number of goroutines and events and  *)
(* any limit of the attempt counter.                                       *)
(*                                                                         *)
(* The flag of a running attempt is a token: whoever sets it or gives it   *)
(* up without clearing it hands it to a place AttemptInv names, so         *)
(* AttemptInv is inductive as it stands once the slot a goroutine gets is  *)
(* known to have been free.                                                *)
(***************************************************************************)
EXTENDS HubReconnect, WellFoundedInduction, TLAPS

\* The types, in the groups in which the steps change them.
ServiceOK ==
    /\ localHigher \in BOOLEAN /\ trusted \in BOOLEAN /\ queued \in BOOLEAN
    /\ authority \in Nat /\ retry \in Slots \cup {0}
LinkOK ==
    /\ conn \in {"none", "inbound", "outbound"}
    /\ completed \in BOOLEAN /\ initiating \in BOOLEAN /\ turnedAway \in BOOLEAN
    /\ reservation \in {"none", "new", "over", "stale", "won", "leaked"}
AttemptOK == counter \in -1 .. MaxCounter /\ running \in BOOLEAN
ThreadOK ==
    /\ pending \in Nat
    /\ drainer \in {"idle", "clear", "check", "start", "count"}
    /\ user \in {"idle", "request", "clear", "counter", "close"}
ReportOK == closes \in [{"counter", "announce"} -> Nat]
RequestOK == requests \in [Stages -> Nat]
TaskOK == task \in [Slots -> Task]

\* The running flag has an owner.
Owned ==
    running => \/ \E s \in Slots : task[s].pc \in {"wait", "cleared"}
               \/ retry # 0
               \/ drainer \in {"clear", "count"}
               \/ user = "clear"

\* The slot a goroutine gets is a free one.
LEMMA FreeSlotIsFree ==
    ASSUME Free # {}
    PROVE  FreeSlot \in Slots /\ task[FreeSlot] = Idle
<1>1. Free \subseteq Nat
    BY SlotAssumption DEF Free
<1>2. \E s \in Free : \A r \in Free : ~(<<r, s>> \in OpToRel(<, Nat))
    BY <1>1, WFMin, NatLessThanWellFounded
<1>3. \A r, s \in Nat : ~(<<r, s>> \in OpToRel(<, Nat)) => s <= r
    BY DEF OpToRel
<1>4. \E s \in Free : \A r \in Free : s <= r
    BY <1>1, <1>2, <1>3
<1>5. FreeSlot \in Free
    BY <1>4 DEF FreeSlot
<1> QED
    BY <1>5 DEF Free

\* TypeOK is these groups.
LEMMA Groups ==
    TypeOK <=> /\ ServiceOK /\ LinkOK /\ AttemptOK /\ ThreadOK
               /\ ReportOK /\ RequestOK /\ TaskOK
BY DEF TypeOK, ServiceOK, LinkOK, AttemptOK, ThreadOK, ReportOK, RequestOK, TaskOK

\* A step that keeps each group or leaves it alone keeps the types.
LEMMA Assemble ==
    ASSUME TypeOK,
           ServiceOK' \/ UNCHANGED service, LinkOK' \/ UNCHANGED link,
           AttemptOK' \/ UNCHANGED attempt,
           ThreadOK' \/ UNCHANGED <<pending, drainer, user>>,
           ReportOK' \/ UNCHANGED closes, RequestOK' \/ UNCHANGED requests,
           TaskOK' \/ UNCHANGED task
    PROVE  TypeOK'
<1>0. /\ ServiceOK /\ LinkOK /\ AttemptOK /\ ThreadOK
      /\ ReportOK /\ RequestOK /\ TaskOK
    BY Groups
<1>1. ServiceOK'
    BY <1>0 DEF ServiceOK, service
<1>2. LinkOK'
    BY <1>0 DEF LinkOK, link
<1>3. AttemptOK'
    BY <1>0 DEF AttemptOK, attempt
<1>4. ThreadOK'
    BY <1>0 DEF ThreadOK
<1>5. ReportOK' /\ RequestOK' /\ TaskOK'
    BY <1>0 DEF ReportOK, RequestOK, TaskOK
<1> QED
    BY <1>1, <1>2, <1>3, <1>4, <1>5, Groups, PTL

\* What a goroutine does to its slot keeps the types.
LEMMA TaskType ==
    ASSUME TypeOK, NEW s \in Slots,
           \/ \E place \in Places : Goto(s, place)
           \/ End(s) \/ Fail(s) \/ Return(s)
    PROVE  TaskOK'
<1>1. task \in [Slots -> Task] /\ Idle \in Task
    BY BoundAssumption DEF TypeOK, Idle, Task, Places
<1>2. ASSUME NEW place \in Places, Goto(s, place) PROVE TaskOK'
    BY <1>1, <1>2 DEF Goto, Task, TaskOK
<1>3. CASE End(s)
    BY <1>1, <1>3 DEF End, TaskOK
<1>4. CASE Fail(s)
    BY <1>2, <1>4 DEF Fail, Places
<1>5. CASE Return(s)
    BY <1>2, <1>3, <1>5 DEF Return, Places
<1> QED
    BY <1>2, <1>3, <1>4, <1>5

\* A connection that is registered or removed keeps the types.
LEMMA LinkType ==
    ASSUME TypeOK,
           \/ (\E side \in {"inbound", "outbound"} : Connect(side)) /\ UNCHANGED <<closes, initiating>>
           \/ (Disconnect \/ RemoveOutbound) /\ UNCHANGED initiating
    PROVE  LinkOK' /\ ReportOK'
<1>1. LinkOK /\ ReportOK /\ Changed \in {"none", "new", "over", "stale", "won", "leaked"}
    BY Groups DEF LinkOK, Changed
<1>2. ASSUME NEW side \in {"inbound", "outbound"}, Connect(side), UNCHANGED <<closes, initiating>>
      PROVE LinkOK' /\ ReportOK'
    BY <1>1, <1>2 DEF LinkOK, ReportOK, Connect
<1>3. CASE Disconnect /\ UNCHANGED initiating
    BY <1>1, <1>3 DEF LinkOK, ReportOK, Disconnect
<1>4. CASE RemoveOutbound /\ UNCHANGED initiating
    BY <1>1, <1>3, <1>4 DEF LinkOK, ReportOK, RemoveOutbound
<1> QED
    BY <1>2, <1>3, <1>4

\* Looking for the remote again is one more snapshot, or none.
LEMMA ReannounceType ==
    ASSUME TypeOK, checkAutoReannounce, UNCHANGED <<drainer, user>>
    PROVE  ThreadOK'
<1>1. ThreadOK
    BY Groups
<1> QED
    BY <1>1 DEF ThreadOK, checkAutoReannounce

\* The steps of the drainer keep the types.
LEMMA DrainType ==
    ASSUME TypeOK, Drain
    PROVE  TypeOK'
<1>0. ServiceOK /\ AttemptOK /\ ThreadOK /\ TaskOK
    BY Groups
<1>1. CASE reportMdnsSnapshot
  <2>1. ThreadOK'
      BY <1>0, <1>1 DEF ThreadOK, reportMdnsSnapshot
  <2>2. ServiceOK'
      BY <1>0, <1>1 DEF ServiceOK, reportMdnsSnapshot
  <2>3. CASE retry # 0
      BY <1>1, <2>1, <2>2, <2>3, LinkType, Assemble DEF reportMdnsSnapshot
  <2>4. CASE retry = 0
      BY <1>1, <2>1, <2>2, <2>4, Assemble DEF reportMdnsSnapshot, link
  <2> QED
      BY <2>3, <2>4
<1>2. CASE clearTrustedRemoteRetryRunning \/ setConnectionAttemptRunning
  <2>1. AttemptOK' /\ ThreadOK'
      BY <1>0, <1>2
      DEF AttemptOK, ThreadOK, clearTrustedRemoteRetryRunning, setConnectionAttemptRunning
  <2> QED
      BY <1>2, <2>1, Assemble DEF clearTrustedRemoteRetryRunning, setConnectionAttemptRunning
<1>3. CASE isConnectionAttemptRunning
  <2>1. ThreadOK'
      BY <1>0, <1>3 DEF ThreadOK, isConnectionAttemptRunning
  <2> QED
      BY <1>3, <2>1, Assemble DEF isConnectionAttemptRunning
<1>4. CASE coordinateConnectionInitations
  <2>1. counter' \in -1 .. MaxCounter
      BY <1>0, <1>4, BoundAssumption
      DEF AttemptOK, coordinateConnectionInitations, increaseConnectionAttemptCounter
  <2>2. AttemptOK' /\ ThreadOK'
      BY <1>0, <1>4, <2>1 DEF AttemptOK, ThreadOK, coordinateConnectionInitations
  <2>3. TaskOK'
    <3>1. [pc |-> "wait", counter |-> counter', auth |-> 0] \in Task
        BY <2>1 DEF Task, Places
    <3> QED
        BY <1>0, <1>4, <3>1 DEF TaskOK, coordinateConnectionInitations
  <2> QED
      BY <1>4, <2>2, <2>3, Assemble DEF coordinateConnectionInitations
<1> QED
    BY <1>1, <1>2, <1>3, <1>4 DEF Drain

\* The steps of a goroutine keep the types.
LEMMA GoroutineType ==
    ASSUME TypeOK, NEW s \in Slots, Goroutine(s)
    PROVE  TypeOK'
<1>0. ServiceOK /\ LinkOK /\ AttemptOK /\ ThreadOK /\ ReportOK /\ TaskOK
    BY Groups
<1>1. TaskOK'
  <2>1. CASE outboundReconnectAuthority(s)
    <3>1. CASE trusted /\ ~Connected
        BY <1>0, <2>1, <3>1
        DEF outboundReconnectAuthority, ServiceOK, TaskOK, Task, Places
    <3>2. CASE ~(trusted /\ ~Connected)
        BY <2>1, <3>2, TaskType DEF outboundReconnectAuthority
    <3> QED
        BY <3>1, <3>2
  <2>2. \/ \E place \in Places : Goto(s, place)
        \/ End(s) \/ Fail(s) \/ Return(s)
        \/ outboundReconnectAuthority(s)
      BY DEF Goroutine, wake, getCurrentConnectionAttemptCounter, connectFoundService,
         dialDenied, dialFails, dialGivesWay, dialRejected, dialSucceeds, leaveDial,
         initateConnectionFailed, runTrustedRemoteRetry, finishTrustedRemoteRetry,
         finishRunning, Places
  <2> QED
      BY <2>1, <2>2, TaskType
<1>2. CASE wake(s) \/ finishRunning(s)
  <2>1. AttemptOK'
      BY <1>0, <1>2 DEF AttemptOK, wake, finishRunning
  <2> QED
      BY <1>1, <1>2, <2>1, Assemble DEF wake, finishRunning
<1>3. CASE \/ getCurrentConnectionAttemptCounter(s) \/ outboundReconnectAuthority(s)
           \/ runTrustedRemoteRetry(s)
    BY <1>1, <1>3, Assemble
    DEF getCurrentConnectionAttemptCounter, outboundReconnectAuthority, runTrustedRemoteRetry
<1>4. CASE \/ connectFoundService(s) \/ dialDenied(s) \/ dialFails(s) \/ dialGivesWay(s)
           \/ leaveDial(s)
  <2>1. LinkOK'
      BY <1>0, <1>4
      DEF LinkOK, connectFoundService, dialDenied, dialFails, dialGivesWay, leaveDial
  <2> QED
      BY <1>1, <1>4, <2>1, Assemble
      DEF connectFoundService, dialDenied, dialFails, dialGivesWay, leaveDial
<1>5. CASE dialRejected(s)
  <2>1. ReportOK'
      BY <1>0, <1>5 DEF ReportOK, dialRejected
  <2> QED
      BY <1>1, <1>5, <2>1, Assemble DEF dialRejected
<1>6. CASE dialSucceeds(s)
    BY <1>1, <1>6, LinkType, Assemble DEF dialSucceeds
<1>7. CASE initateConnectionFailed(s)
    BY <1>1, <1>7, ReannounceType, Assemble DEF initateConnectionFailed
<1>8. CASE finishTrustedRemoteRetry(s)
  <2>1. ServiceOK'
      BY <1>0, <1>8 DEF ServiceOK, finishTrustedRemoteRetry
  <2> QED
      BY <1>1, <1>8, <2>1, Assemble DEF finishTrustedRemoteRetry
<1> QED
    BY <1>2, <1>3, <1>4, <1>5, <1>6, <1>7, <1>8 DEF Goroutine

\* The steps of the remote keep the types.
LEMMA RemoteType ==
    ASSUME TypeOK,
           \/ Arrive \/ Request \/ stateUpdate \/ handshakeCompletes \/ claimClosedConnection
           \/ CloseReport
    PROVE  TypeOK'
<1>0. ServiceOK /\ LinkOK /\ AttemptOK /\ ThreadOK /\ ReportOK /\ RequestOK
    BY Groups
<1>1. CASE Arrive
  <2>1. PICK stage \in Stages : requests' = [requests EXCEPT ![stage] = requests[stage] + 1]
    <3>1. (IF queued THEN "reserve" ELSE "check") \in Stages
        BY DEF Stages
    <3> QED
        BY <1>1, <3>1 DEF Arrive
  <2>2. RequestOK'
      BY <1>0, <2>1 DEF RequestOK
  <2> QED
      BY <1>1, <2>2, Assemble DEF Arrive
<1>2. CASE Request
  <2>1. RequestOK'
      BY <1>0, <1>2 DEF RequestOK, Request, Reserve, registerReserved, abandonReservation,
         Check, registerInbound, Move, Leave, Stages
  <2>2. CASE Reserve \/ abandonReservation \/ registerReserved
    <3>1. LinkOK'
        BY <1>0, <2>2 DEF LinkOK, Reserve, abandonReservation, registerReserved
    <3> QED
        BY <2>1, <2>2, <3>1, Assemble DEF Reserve, abandonReservation, registerReserved
  <2>3. CASE Check
      BY <2>1, <2>3, Assemble DEF Check
  <2>4. CASE registerInbound /\ TakesInbound
      BY <2>1, <2>4, LinkType, Assemble DEF registerInbound
  <2>5. CASE registerInbound /\ ~TakesInbound
      BY <2>1, <2>5, Assemble DEF registerInbound, link
  <2> QED
      BY <1>2, <2>2, <2>3, <2>4, <2>5 DEF Request
<1>3. CASE stateUpdate
  <2>1. ServiceOK'
      BY <1>0, <1>3 DEF ServiceOK, stateUpdate
  <2> QED
      BY <1>3, <2>1, Assemble DEF stateUpdate, threads
<1>4. CASE handshakeCompletes
  <2>1. LinkOK'
      BY <1>0, <1>4 DEF LinkOK, handshakeCompletes
  <2> QED
      BY <1>4, <2>1, Assemble DEF handshakeCompletes, threads
<1>5. CASE claimClosedConnection
    BY <1>5, LinkType, Assemble DEF claimClosedConnection
<1>6. CASE removeConnectionAttemptCounter
  <2>1. AttemptOK' /\ ReportOK'
      BY <1>0, <1>6, BoundAssumption
      DEF AttemptOK, ReportOK, removeConnectionAttemptCounter, removeCounter
  <2> QED
      BY <1>6, <2>1, Assemble DEF removeConnectionAttemptCounter
<1>7. CASE reannounceAfterClose
  <2>1. ReportOK'
      BY <1>0, <1>7 DEF ReportOK, reannounceAfterClose
  <2> QED
      BY <1>7, <2>1, ReannounceType, Assemble DEF reannounceAfterClose
<1> QED
    BY <1>1, <1>2, <1>3, <1>4, <1>5, <1>6, <1>7 DEF CloseReport

\* The steps of the user keep the types.
LEMMA UserType ==
    ASSUME TypeOK,
           UserGoesOn \/ RegisterRemoteSKI \/ UnregisterRemoteSKI \/ RetryTrustedRemote
    PROVE  TypeOK'
<1>0. ServiceOK /\ LinkOK /\ AttemptOK /\ ThreadOK /\ ReportOK /\ TaskOK
    BY Groups
<1>1. CASE registerRequests \/ RegisterRemoteSKI
  <2>1. ServiceOK'
      BY <1>0, <1>1 DEF ServiceOK, registerRequests, RegisterRemoteSKI
  <2>2. ThreadOK'
      BY <1>0, <1>1 DEF ThreadOK, registerRequests, RegisterRemoteSKI
  <2> QED
      BY <1>1, <2>1, <2>2, Assemble DEF registerRequests, RegisterRemoteSKI
<1>2. CASE revokeClearsRunning \/ unregisterRemovesCounter
  <2>1. AttemptOK'
    <3>1. counter' \in -1 .. MaxCounter
        BY <1>0, <1>2, BoundAssumption
        DEF AttemptOK, revokeClearsRunning, unregisterRemovesCounter, removeCounter
    <3>2. running' \in BOOLEAN
        BY <1>0, <1>2 DEF AttemptOK, revokeClearsRunning, unregisterRemovesCounter
    <3> QED
        BY <3>1, <3>2 DEF AttemptOK
  <2>2. ThreadOK'
      BY <1>0, <1>2 DEF ThreadOK, revokeClearsRunning, unregisterRemovesCounter
  <2> QED
      BY <1>2, <2>1, <2>2, Assemble DEF revokeClearsRunning, unregisterRemovesCounter
<1>3. CASE unregisterCloses
  <2>1. ThreadOK'
      BY <1>0, <1>3 DEF ThreadOK, unregisterCloses
  <2>2. CASE Connected
      BY <1>3, <2>1, <2>2, LinkType, Assemble DEF unregisterCloses
  <2>3. CASE ~Connected
      BY <1>3, <2>1, <2>3, Assemble DEF unregisterCloses, link
  <2> QED
      BY <2>2, <2>3
<1>4. CASE UnregisterRemoteSKI
  <2>1. ServiceOK'
    <3>1. localHigher' \in BOOLEAN /\ authority' \in Nat /\ retry' \in Slots \cup {0}
        BY <1>0, <1>4 DEF ServiceOK, UnregisterRemoteSKI
    <3>2. trusted' \in BOOLEAN /\ queued' \in BOOLEAN
        BY <1>4 DEF UnregisterRemoteSKI
    <3> QED
        BY <3>1, <3>2 DEF ServiceOK
  <2>2. user' \in {"clear", "counter"} /\ UNCHANGED <<pending, drainer>>
      BY <1>4 DEF UnregisterRemoteSKI
  <2>3. ThreadOK'
      BY <1>0, <2>2 DEF ThreadOK
  <2> QED
      BY <1>4, <2>1, <2>3, LinkType, Assemble DEF UnregisterRemoteSKI
<1>5. CASE RetryTrustedRemote
  <2>1. FreeSlot \in Slots
      BY <1>5, FreeSlotIsFree DEF RetryTrustedRemote
  <2>2. ServiceOK' /\ AttemptOK'
      BY <1>0, <1>5, <2>1 DEF ServiceOK, AttemptOK, RetryTrustedRemote
  <2>3. TaskOK'
    <3>1. [pc |-> "launch", counter |-> -1, auth |-> authority] \in Task
        BY <1>0, BoundAssumption DEF ServiceOK, Task, Places
    <3> QED
        BY <1>0, <1>5, <3>1 DEF TaskOK, RetryTrustedRemote
  <2> QED
      BY <1>5, <2>2, <2>3, Assemble DEF RetryTrustedRemote
<1> QED
    BY <1>1, <1>2, <1>3, <1>4, <1>5 DEF UserGoesOn

\* Every step keeps the types.
LEMMA NextType == TypeOK /\ [Next]_vars => TypeOK'
<1> SUFFICES ASSUME TypeOK, [Next]_vars PROVE TypeOK'
    OBVIOUS
<1>1. CASE UNCHANGED vars
    BY <1>1, Assemble DEF vars, threads
<1> QED
    BY <1>1, DrainType, GoroutineType, RemoteType, UserType DEF Next

\* A step of a goroutine that neither had nor gets the flag leaves it where it is.
LEMMA OwnedFrame ==
    ASSUME TypeOK, Owned, NEW s \in Slots, task[s].pc \notin {"wait", "cleared"},
           \A r \in Slots \ {s} : task'[r] = task[r],
           UNCHANGED <<running, retry, drainer, user>>
    PROVE  Owned'
BY DEF Owned

\* The flag is handed on, one case for each step that may touch it or its owners.
LEMMA NextOwned ==
    ASSUME TypeOK, Owned, [Next]_vars
    PROVE  Owned'
<1>1. CASE Drain
  <2>1. CASE reportMdnsSnapshot \/ isConnectionAttemptRunning
      BY <2>1 DEF Owned, reportMdnsSnapshot, isConnectionAttemptRunning, attempt, service
  <2>2. CASE clearTrustedRemoteRetryRunning \/ setConnectionAttemptRunning
      BY <2>2 DEF Owned, clearTrustedRemoteRetryRunning, setConnectionAttemptRunning
  <2>3. CASE coordinateConnectionInitations
    <3>1. FreeSlot \in Slots
        BY <2>3, FreeSlotIsFree DEF coordinateConnectionInitations
    <3>2. task'[FreeSlot].pc = "wait"
        BY <2>3, <3>1 DEF coordinateConnectionInitations, TypeOK
    <3> QED
        BY <3>1, <3>2 DEF Owned
  <2> QED
      BY <1>1, <2>1, <2>2, <2>3 DEF Drain
<1>2. ASSUME NEW s \in Slots, Goroutine(s)
      PROVE Owned'
  <2>1. CASE wake(s) \/ finishRunning(s)
      BY <2>1 DEF Owned, wake, finishRunning
  <2>2. CASE finishTrustedRemoteRetry(s)
    <3>1. CASE retry = s
      <4>1. task'[s].pc = "cleared"
          BY <2>2, <3>1 DEF finishTrustedRemoteRetry, Goto, TypeOK, Task
      <4> QED
          BY <4>1 DEF Owned
    <3>2. CASE retry # s
        BY <2>2, <3>2, OwnedFrame DEF finishTrustedRemoteRetry, End, TypeOK, attempt
    <3> QED
        BY <3>1, <3>2
  <2>3. CASE \/ getCurrentConnectionAttemptCounter(s) \/ outboundReconnectAuthority(s)
             \/ connectFoundService(s) \/ dialDenied(s) \/ dialFails(s) \/ dialGivesWay(s)
             \/ dialRejected(s) \/ dialSucceeds(s) \/ leaveDial(s)
             \/ initateConnectionFailed(s) \/ runTrustedRemoteRetry(s)
    <3>1. /\ task[s].pc \notin {"wait", "cleared"}
          /\ UNCHANGED <<running, retry, drainer, user>>
        BY <2>3 DEF getCurrentConnectionAttemptCounter, outboundReconnectAuthority,
           connectFoundService, dialDenied, dialFails, dialGivesWay, dialRejected,
           dialSucceeds, leaveDial, initateConnectionFailed, runTrustedRemoteRetry,
           service, attempt
    <3>2. \A r \in Slots \ {s} : task'[r] = task[r]
        BY <2>3 DEF TypeOK, getCurrentConnectionAttemptCounter, outboundReconnectAuthority,
           connectFoundService, dialDenied, dialFails, dialGivesWay, dialRejected,
           dialSucceeds, leaveDial, initateConnectionFailed, runTrustedRemoteRetry,
           Goto, End, Fail, Return
    <3> QED
        BY <3>1, <3>2, OwnedFrame
  <2> QED
      BY <1>2, <2>1, <2>2, <2>3 DEF Goroutine
<1>3. CASE \/ CloseReport \/ Arrive \/ Request \/ stateUpdate \/ handshakeCompletes
           \/ claimClosedConnection
    BY <1>3 DEF Owned, CloseReport, removeConnectionAttemptCounter, removeCounter,
       reannounceAfterClose, Arrive, Request, Reserve, registerReserved, abandonReservation,
       Check, registerInbound, stateUpdate, handshakeCompletes, claimClosedConnection,
       service, attempt, threads
<1>4. CASE UserGoesOn
    BY <1>4 DEF Owned, UserGoesOn, registerRequests, revokeClearsRunning,
       unregisterRemovesCounter, removeCounter, unregisterCloses, service, attempt
<1>5. CASE RegisterRemoteSKI \/ UnregisterRemoteSKI
    BY <1>5 DEF Owned, RegisterRemoteSKI, UnregisterRemoteSKI, attempt
<1>6. CASE RetryTrustedRemote
  <2>1. retry' \in Slots
      BY <1>6, FreeSlotIsFree DEF RetryTrustedRemote
  <2>2. retry' # 0
      BY <2>1, SlotAssumption
  <2> QED
      BY <2>2 DEF Owned
<1>7. CASE UNCHANGED vars
    BY <1>7 DEF Owned, vars, service, attempt, threads
<1> QED
    BY <1>1, <1>2, <1>3, <1>4, <1>5, <1>6, <1>7 DEF Next

\* The running flag never outlives its owner, however many delayed attempts, explicit
\* retries, applied snapshots, closes and unregistrations overtake each other: a flag
\* nobody owns would refuse every later attempt (hub_connections.go:888).
THEOREM AttemptFlagIsOwned == Spec => []AttemptInv
<1>1. Init => AttemptInv
  <2> SUFFICES ASSUME Init PROVE AttemptInv
      OBVIOUS
  <2>1. -1 \in -1 .. MaxCounter
      BY BoundAssumption
  <2>2. task \in [Slots -> Task]
      BY BoundAssumption DEF Init, Idle, Task, Places
  <2>3. closes \in [{"counter", "announce"} -> Nat] /\ requests \in [Stages -> Nat]
      BY DEF Init
  <2>4. localHigher \in BOOLEAN
      BY ActAssumption DEF Init
  <2> QED
      BY <2>1, <2>2, <2>3, <2>4 DEF Init, AttemptInv, TypeOK
<1>2. AttemptInv <=> TypeOK /\ Owned
    BY DEF AttemptInv, Owned
<1>3. AttemptInv /\ [Next]_vars => AttemptInv'
  <2>1. TypeOK /\ Owned /\ [Next]_vars => TypeOK' /\ Owned'
      BY NextType, NextOwned
  <2>2. TypeOK' /\ Owned' => AttemptInv'
      BY DEF AttemptInv, Owned
  <2> QED
      BY <1>2, <2>1, <2>2
<1> QED
    BY <1>1, <1>3, PTL DEF Spec
===============================================================================
