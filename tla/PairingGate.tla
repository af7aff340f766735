----------------------------- MODULE PairingGate -----------------------------
(***************************************************************************)
(* The end of a SHIP handshake inside one ShipConnection, lock by lock:    *)
(* the pairing gate (pairingApprovalMux), the effect queue that serialises *)
(* callbacks into the hub with the close of the connection, and the SPINE  *)
(* buffer and dispatch queue (ship/connection.go, approveHandshake of      *)
(* ship/handshake.go, ship/hs_access.go).                                  *)
(*                                                                         *)
(* Threads: the websocket reader (accessMethods, then SPINE payloads),     *)
(* approvers calling ApprovePendingHandshake, closers calling              *)
(* CloseConnection, the timer goroutine of a timeout that expired too late *)
(* to be stopped, the websocket pump that meets a broken link, and the     *)
(* goroutine that finishes a close once the timer has returned or the      *)
(* announced termination is over.  A step is what a thread does under one  *)
(* lock.                                                                   *)
(***************************************************************************)
EXTENDS Naturals, Sequences, FiniteSets

CONSTANTS
    Approvers, Closers,   \* threads of the hub
    Requires,             \* the values of requirePairingApproval explored
    ShipIDKnown,          \* remoteShipID was configured
    StaleTimeout,         \* a handshake timeout may be in flight
    LinkMayBreak,         \* a pump may report a broken websocket
    MaxBuffered,          \* maxBufferedSpineMessages
    MaxPayloads           \* bound: SPINE payloads the peer sends

ASSUME FlagAssumption ==
    /\ Requires \subseteq BOOLEAN /\ Requires # {}
    /\ {ShipIDKnown, StaleTimeout, LinkMayBreak} \subseteq BOOLEAN
ASSUME BoundAssumption == MaxBuffered \in Nat \ {0} /\ MaxPayloads \in Nat
ASSUME ThreadAssumption ==
    /\ Approvers \cap Closers = {}
    /\ {"reader", "timer", "socket", "finisher", "none"} \cap (Approvers \cup Closers) = {}

VARIABLES
    require,       \* requirePairingApproval
    claimed,       \* shutdownOnce was taken
    closing,       \* pairingClosing
    terminal,      \* pairingTerminal
    commitStarted, commitDone,   \* pairingCommitStarted, ...CallbackDone
    requested,     \* pairingApprovalRequested
    released,      \* pairingApprovalReleased
    setupStarted,  \* spineSetupStarted
    sme,           \* smeState
    effects,       \* pairingEffectQueue
    drainer,       \* the thread in drainPairingEffects, or "none"
    running,       \* the effect it is executing
    result,        \* result[t]: outcome of the effect t waits for
    buffer,        \* spineBuffer
    reader,        \* dataReader is installed
    queue,         \* spineDispatchQueue
    dispatcher,    \* the thread in drainSpineDispatchQueue, or "none"
    hand,          \* the dispatch task it took
    pc,            \* where each thread is
    calls,         \* calls of approveHandshake the reader still makes
    arrived,       \* payloads received
    delivered,     \* history: what reached the SPINE reader, in order
    late,          \* history: deliveries made after terminal
    setups,        \* history: calls of SetupRemoteDevice
    closed,        \* history: calls of HandleConnectionClosed
    after,         \* history: calls into the hub that began after it
    selfWait       \* an effect waits for the queue it is run from

gate == <<claimed, closing, terminal, commitStarted, commitDone, requested,
          released, setupStarted>>
fx == <<effects, drainer, running, result>>
spine == <<buffer, reader, queue, dispatcher, hand, arrived>>
history == <<delivered, late, setups, closed, after>>
vars == <<gate, sme, fx, spine, pc, calls, history, selfWait, require>>

Threads == {"reader", "timer", "socket", "finisher"} \cup Approvers \cup Closers
Kinds == {"shipID", "approved", "setup", "report", "close", "finish"}
Task(k, t) == [kind |-> k, owner |-> t]
Tasks == [kind: Kinds, owner: Threads]
NoTask == [kind |-> "none", owner |-> "none"]
Stages == {"take", "allowed", "callback", "end"}
Nothing == [task |-> NoTask, stage |-> "take"]

\* pairingEffectAllowed and spineDispatchTerminated
Allowed == ~closing /\ ~terminal

Go(t, l) == pc' = [pc EXCEPT ![t] = l]

\* enqueuePairingEffect: the first thread drains, the others only append.
Enqueue(k, t) ==
    /\ effects' = Append(effects, Task(k, t))
    /\ drainer' = IF drainer = "none" THEN t ELSE drainer
    /\ UNCHANGED running

\* runPairingEffect with wait returns when the task is done and, for the
\* draining thread, the queue is empty.
Returned(t) == result[t] \in {"ok", "refused"} /\ drainer # t

Init ==
    /\ claimed = FALSE /\ closing = FALSE /\ terminal = FALSE
    /\ commitStarted = FALSE /\ commitDone = FALSE
    /\ requested = FALSE /\ released = FALSE /\ setupStarted = FALSE
    /\ sme = "AccessMethodsRequest"
    /\ effects = <<>> /\ drainer = "none" /\ running = Nothing
    /\ result = [t \in Threads |-> "none"]
    /\ buffer = <<>> /\ reader = FALSE
    /\ queue = <<>> /\ dispatcher = "none" /\ hand = 0
    /\ pc = [t \in Threads |-> "idle"]
    /\ calls = 0 /\ arrived = 0
    /\ delivered = <<>> /\ late = 0 /\ setups = 0 /\ closed = 0 /\ after = 0
    /\ selfWait = FALSE
    /\ require \in Requires
------------------------------------------------------------------------------
(***************************************************************************)
(* handshakeAccessMethods_Request, from the peer's accessMethods on.       *)
(***************************************************************************)
BeginPairingCommit ==
    /\ pc["reader"] = "idle" /\ drainer # "reader" /\ ~commitStarted
    /\ pc["socket"] = "idle"
    /\ Allowed
    /\ commitStarted' = TRUE /\ commitDone' = FALSE
    /\ Go("reader", IF ShipIDKnown /\ ~(require /\ ~released)
                    THEN "publish" ELSE "identify")
    /\ UNCHANGED <<claimed, closing, terminal, requested, released, setupStarted,
                   sme, fx, spine, calls, history, selfWait, require>>

\* reportServiceShipID and publishPairingApproved hand their effect to the queue
\* and wait for it.
RunBlocking(t, from, kind, to) ==
    /\ pc[t] = from
    /\ Enqueue(kind, t)
    /\ result' = [result EXCEPT ![t] = "pending"]
    /\ Go(t, to)
    /\ UNCHANGED <<gate, sme, spine, calls, history, selfWait, require>>

ReportServiceShipID == RunBlocking("reader", "identify", "shipID", "identified")
PublishPairingApproved == RunBlocking("reader", "publish", "approved", "published")

\* An effect that was refused ends the handler.
AfterEffect(from, to) ==
    /\ pc["reader"] = from /\ Returned("reader")
    /\ Go("reader", IF result["reader"] = "ok" THEN to ELSE "idle")
    /\ UNCHANGED <<gate, sme, fx, spine, calls, history, selfWait, require>>

Identified == AfterEffect("identified", "publish")
Published == AfterEffect("published", "complete")

\* Mutant: nobody acts on a request that was made during the commit.
CommitWithoutApproval ==
    /\ pc["reader"] = "complete"
    /\ commitDone' = TRUE
    /\ Go("reader", "idle")
    /\ UNCHANGED <<claimed, closing, terminal, commitStarted, requested, released,
                   setupStarted, sme, fx, spine, calls, history, selfWait, require>>

CompletePairingCommit ==
    /\ pc["reader"] = "complete"
    /\ IF Allowed
       THEN commitDone' = TRUE /\ calls' = IF requested THEN 2 ELSE 1
       ELSE calls' = 1 /\ UNCHANGED commitDone
    /\ Go("reader", "approve")
    /\ UNCHANGED <<claimed, closing, terminal, commitStarted, requested, released,
                   setupStarted, sme, fx, spine, history, selfWait, require>>
------------------------------------------------------------------------------
(***************************************************************************)
(* approveHandshake.                                                       *)
(***************************************************************************)
\* Where a thread goes when a call returns: the reader may have another call of
\* approveHandshake to make, the pump that met a broken link a report.
Return(t) ==
    IF t = "reader" /\ calls > 0
    THEN /\ calls' = calls - 1
         /\ Go(t, IF calls > 1 THEN "approve" ELSE "idle")
    ELSE /\ Go(t, CASE t = "reader" -> "idle"
                    [] t = "socket" -> "repeat"
                    [] OTHER -> "end")
         /\ UNCHANGED calls

\* Mutant: does not ask whether the approval was requested.
MayApproveUnrequested == Allowed /\ ~setupStarted

MayApprove ==
    /\ Allowed /\ ~setupStarted
    /\ require => commitStarted /\ requested /\ ~released

Approve(t) ==
    /\ pc[t] = "approve" /\ drainer # t
    /\ IF MayApprove
       THEN /\ released' = (require \/ released) /\ setupStarted' = TRUE
            /\ Go(t, "setup") /\ UNCHANGED calls
       ELSE Return(t) /\ UNCHANGED <<released, setupStarted>>
    /\ UNCHANGED <<claimed, closing, terminal, commitStarted, commitDone, requested,
                   sme, fx, spine, history, selfWait, require>>

SetupRemoteDevice(t) == RunBlocking(t, "setup", "setup", "ready")

\* Without a reader the connection is closed.
AfterSetup(t) ==
    /\ pc[t] = "ready" /\ Returned(t)
    /\ Go(t, IF result[t] = "ok" THEN "install" ELSE "claim")
    /\ UNCHANGED <<gate, sme, fx, spine, calls, history, selfWait, require>>

\* Mutant: the buffered payloads overtake the report of the completion.
InstallBufferFirst(t) ==
    /\ pc[t] = "install" /\ Allowed
    /\ sme' = "Complete" /\ reader' = TRUE /\ buffer' = <<>>
    /\ queue' = queue \o buffer \o (IF sme = "Complete" THEN <<>> ELSE <<0>>)
    /\ IF dispatcher = "none"
       THEN dispatcher' = t /\ Go(t, "dispatch") /\ UNCHANGED calls
       ELSE Return(t) /\ UNCHANGED dispatcher
    /\ UNCHANGED <<gate, fx, hand, arrived, history, selfWait, require>>

\* Completion: state, reader and buffer change under all locks at once.  Task 0
\* of the dispatch queue is the report of the completion.
Install(t) ==
    /\ pc[t] = "install"
    /\ IF Allowed
       THEN /\ sme' = "Complete" /\ reader' = TRUE /\ buffer' = <<>>
            /\ queue' = queue \o (IF sme = "Complete" THEN <<>> ELSE <<0>>) \o buffer
            /\ IF dispatcher = "none"
               THEN dispatcher' = t /\ Go(t, "dispatch") /\ UNCHANGED calls
               ELSE Return(t) /\ UNCHANGED dispatcher
       ELSE Return(t) /\ UNCHANGED <<sme, reader, buffer, queue, dispatcher>>
    /\ UNCHANGED <<gate, fx, hand, arrived, history, selfWait, require>>
------------------------------------------------------------------------------
(***************************************************************************)
(* ApprovePendingHandshake: requestPairingApproval, then perhaps           *)
(* approveHandshake.                                                       *)
(***************************************************************************)
CommitInProgress == commitStarted /\ ~commitDone /\ Allowed

\* whether requestPairingApproval latches the request
Latches == CommitInProgress \/ (require /\ Allowed /\ ~released)

\* whether its caller goes on to approveHandshake
ApproveNow ==
    /\ ~CommitInProgress
    /\ IF require THEN Allowed /\ ~released /\ commitStarted /\ commitDone
       ELSE sme = "Approved"

RequestApproval(t) ==
    /\ pc[t] = "idle" /\ t \in Approvers
    /\ requested' = (requested \/ Latches)
    /\ Go(t, IF ApproveNow THEN "approve" ELSE "end")
    /\ UNCHANGED <<claimed, closing, terminal, commitStarted, commitDone, released,
                   setupStarted, sme, fx, spine, calls, history, selfWait, require>>
------------------------------------------------------------------------------
(***************************************************************************)
(* CloseConnection: claim, mark, hand the rest to the effect queue.        *)
(***************************************************************************)
CloseClaim(t) ==
    /\ \/ pc[t] = "claim"
       \/ pc[t] = "idle" /\ t \in Closers
    /\ claimed' = TRUE
    /\ IF claimed THEN Return(t) ELSE Go(t, "mark") /\ UNCHANGED calls
    /\ UNCHANGED <<closing, terminal, commitStarted, commitDone, requested, released,
                   setupStarted, sme, fx, spine, history, selfWait, require>>

CloseMark(t) ==
    /\ pc[t] = "mark"
    /\ closing' = TRUE
    /\ Go(t, "enqueue")
    /\ UNCHANGED <<claimed, terminal, commitStarted, commitDone, requested, released,
                   setupStarted, sme, fx, spine, calls, history, selfWait, require>>

\* Mutant: the close is dropped when another thread drains the queue.
CloseDropped(t) ==
    /\ pc[t] = "enqueue"
    /\ IF drainer = "none" THEN Enqueue("close", t)
       ELSE UNCHANGED <<effects, drainer, running>>
    /\ Return(t)
    /\ UNCHANGED <<gate, sme, result, spine, history, selfWait, require>>

CloseEnqueue(t) ==
    /\ pc[t] = "enqueue"
    /\ Enqueue("close", t) /\ UNCHANGED result
    /\ Return(t)
    /\ UNCHANGED <<gate, sme, spine, history, selfWait, require>>
------------------------------------------------------------------------------
(***************************************************************************)
(* drainPairingEffects.                                                    *)
(***************************************************************************)
\* Mutant: the draining thread gives up its role with the last task it takes.
EffectTakeLast ==
    /\ running = Nothing /\ effects # <<>>
    /\ running' = [task |-> Head(effects), stage |-> "take"]
    /\ effects' = Tail(effects)
    /\ drainer' = IF Len(effects) = 1 THEN "none" ELSE drainer
    /\ UNCHANGED <<gate, sme, result, spine, pc, calls, history, selfWait, require>>

EffectTake ==
    /\ drainer # "none" /\ running = Nothing
    /\ IF effects = <<>>
       THEN drainer' = "none" /\ UNCHANGED <<effects, running>>
       ELSE /\ running' = [task |-> Head(effects), stage |-> "take"]
            /\ effects' = Tail(effects)
            /\ UNCHANGED drainer
    /\ UNCHANGED <<gate, sme, result, spine, pc, calls, history, selfWait, require>>

Finished(outcome) ==
    /\ result' = IF running.task.kind \in {"shipID", "approved", "setup"}
                 THEN [result EXCEPT ![running.task.owner] = outcome]
                 ELSE result
    /\ running' = Nothing

\* Mutant: an effect runs although the connection is closing.
EffectUnchecked ==
    /\ running.stage = "take" /\ running.task.kind \in {"shipID", "setup"}
    /\ running' = [running EXCEPT !.stage = "allowed"]
    /\ UNCHANGED <<gate, sme, effects, drainer, result, spine, pc, calls, history,
                   selfWait, require>>

\* The callbacks that leave ship are started only while the gate is open ...
EffectCheck ==
    /\ running.stage = "take" /\ running.task.kind \in {"shipID", "setup"}
    /\ IF Allowed THEN running' = [running EXCEPT !.stage = "allowed"] /\ UNCHANGED result
       ELSE Finished("refused")
    /\ UNCHANGED <<gate, sme, effects, drainer, spine, pc, calls, history,
                   selfWait, require>>

\* A call into the hub begins.
HubCalled == after' = after + (IF closed > 0 THEN 1 ELSE 0)

\* ... and may find it closed when they run.  The report of a state was enqueued
\* while it was open and has no check of its own.
EffectStart ==
    /\ \/ running.stage = "allowed"
       \/ running.stage = "take" /\ running.task.kind = "report"
    /\ running' = [running EXCEPT !.stage = "callback"]
    /\ setups' = setups + (IF running.task.kind = "setup" THEN 1 ELSE 0)
    /\ HubCalled
    /\ UNCHANGED <<gate, sme, effects, drainer, result, spine, pc, calls, delivered,
                   late, closed, selfWait, require>>

\* SetupRemoteDevice may return no reader.
EffectEnd ==
    /\ running.stage = "callback" /\ ~selfWait
    /\ \/ Finished("ok")
       \/ running.task.kind = "setup" /\ Finished("refused")
    /\ UNCHANGED <<gate, sme, effects, drainer, spine, pc, calls, history,
                   selfWait, require>>

\* publishPairingApproved sets the state, which enqueues its report.
EffectApproved ==
    /\ running.stage = "take" /\ running.task.kind = "approved"
    /\ IF Allowed
       THEN /\ sme' = "Approved" /\ Finished("ok")
            /\ effects' = Append(effects, Task("report", running.task.owner))
       ELSE Finished("refused") /\ UNCHANGED <<sme, effects>>
    /\ UNCHANGED <<gate, drainer, spine, pc, calls, history, selfWait, require>>

\* closeConnection drops what SPINE data is left ...
EffectClose ==
    /\ running.stage = "take" /\ running.task.kind = "close"
    /\ closing' = TRUE /\ terminal' = TRUE
    /\ buffer' = <<>> /\ queue' = <<>>
    /\ running' = [running EXCEPT !.stage = "end"]
    /\ UNCHANGED <<claimed, commitStarted, commitDone, requested, released,
                   setupStarted, sme, effects, drainer, result, reader, dispatcher,
                   hand, arrived, pc, calls, history, selfWait, require>>

TimerActive == pc["timer"] \notin {"idle", "end"} \/ drainer = "timer"

\* finishCloseConnection: the hub is told at once, or half a second after a
\* termination announcement, which only a completed connection sends.
FinishClose ==
    \/ closed' = closed + 1 /\ UNCHANGED pc
    \/ sme = "Complete" /\ Go("finisher", "grace") /\ UNCHANGED closed

\* ... and finishes, unless a timer callback has to return first.
EffectCloseEnd ==
    /\ running.stage = "end"
    /\ IF TimerActive THEN Go("finisher", "wait") /\ UNCHANGED closed ELSE FinishClose
    /\ running' = Nothing
    /\ UNCHANGED <<gate, sme, effects, drainer, result, spine, calls, delivered,
                   late, setups, after, selfWait, require>>

\* stopHandshakeTimerAndWait
FinisherEnqueue ==
    /\ pc["finisher"] = "wait" /\ ~TimerActive
    /\ Enqueue("finish", "finisher") /\ UNCHANGED result
    /\ Go("finisher", "end")
    /\ UNCHANGED <<gate, sme, spine, calls, history, selfWait, require>>

EffectFinish ==
    /\ running.stage = "take" /\ running.task.kind = "finish"
    /\ FinishClose
    /\ running' = Nothing
    /\ UNCHANGED <<gate, sme, effects, drainer, result, spine, calls, delivered,
                   late, setups, after, selfWait, require>>

GraceClose ==
    /\ pc["finisher"] = "grace"
    /\ closed' = closed + 1
    /\ Go("finisher", "end")
    /\ UNCHANGED <<gate, sme, fx, spine, calls, delivered, late, setups, after,
                   selfWait, require>>

\* A callback may approve the handshake; if that goes on to approveHandshake,
\* the draining thread waits for a task only it can run.
CallbackApprove ==
    /\ running.stage = "callback" /\ ~selfWait
    /\ requested' = (requested \/ Latches)
    /\ IF ApproveNow /\ Allowed /\ ~setupStarted
       THEN /\ released' = (require \/ released) /\ setupStarted' = TRUE
            /\ selfWait' = TRUE
            /\ effects' = Append(effects, Task("setup", drainer))
       ELSE UNCHANGED <<released, setupStarted, selfWait, effects>>
    /\ UNCHANGED <<claimed, closing, terminal, commitStarted, commitDone, sme,
                   drainer, running, result, spine, pc, calls, history, require>>

\* A callback may close the connection, which is queued without waiting.
CallbackClose ==
    /\ running.stage = "callback" /\ ~selfWait /\ ~claimed
    /\ claimed' = TRUE /\ closing' = TRUE
    /\ effects' = Append(effects, Task("close", drainer))
    /\ UNCHANGED <<terminal, commitStarted, commitDone, requested, released,
                   setupStarted, sme, drainer, running, result, spine, pc, calls,
                   history, selfWait, require>>
------------------------------------------------------------------------------
(***************************************************************************)
(* A handshake timeout whose goroutine could not be stopped any more:      *)
(* endHandshakeWithError sets the error state and closes.                  *)
(***************************************************************************)
\* Mutant: the timeout reports its error although the connection is closing.
TimerFireLate ==
    /\ StaleTimeout /\ pc["timer"] = "idle"
    /\ sme' = "Error"
    /\ Enqueue("report", "timer") /\ UNCHANGED result
    /\ Go("timer", "reported")
    /\ UNCHANGED <<gate, spine, calls, history, selfWait, require>>

TimerFire ==
    /\ StaleTimeout /\ pc["timer"] = "idle" /\ Allowed
    /\ sme' = "Error"
    /\ Enqueue("report", "timer") /\ UNCHANGED result
    /\ Go("timer", "reported")
    /\ UNCHANGED <<gate, spine, calls, history, selfWait, require>>

CloseAfterReport(t) ==
    /\ pc[t] = "reported" /\ drainer # t
    /\ Go(t, "claim")
    /\ UNCHANGED <<gate, sme, fx, spine, calls, history, selfWait, require>>
------------------------------------------------------------------------------
(***************************************************************************)
(* ReportConnectionError, from the pump that met a broken websocket: the   *)
(* gate is checked once, setState checks it again and may refuse; either   *)
(* way the connection is closed (CloseAfterReport), and then the error     *)
(* state is reported once more, straight to the hub and not through the    *)
(* queue.                                                                  *)
(***************************************************************************)
ConnectionError ==
    /\ LinkMayBreak /\ pc["socket"] = "idle" /\ Allowed
    /\ Go("socket", "failing")
    /\ UNCHANGED <<gate, sme, fx, spine, calls, history, selfWait, require>>

SetErrorState(t) ==
    /\ pc[t] = "failing"
    /\ IF Allowed /\ sme # "Error"
       THEN sme' = "Error" /\ Enqueue("report", t)
       ELSE UNCHANGED <<sme, effects, drainer, running>>
    /\ Go(t, "reported")
    /\ UNCHANGED <<gate, result, spine, calls, history, selfWait, require>>

\* What the hub does in this call is what an approver or a closer does.
RepeatError(t) ==
    /\ pc[t] = "repeat" /\ drainer # t
    /\ HubCalled
    /\ Go(t, "repeating")
    /\ UNCHANGED <<gate, sme, fx, spine, calls, delivered, late, setups, closed,
                   selfWait, require>>

RepeatEnd(t) ==
    /\ pc[t] = "repeating"
    /\ Go(t, "end")
    /\ UNCHANGED <<gate, sme, fx, spine, calls, history, selfWait, require>>
------------------------------------------------------------------------------
(***************************************************************************)
(* SPINE payloads: HandleIncomingWebsocketMessage with                     *)
(* routeOrBufferSpinePayload, and drainSpineDispatchQueue.                 *)
(***************************************************************************)
Overflow == (require /\ ~released) \/ Len(buffer) >= MaxBuffered

Arrive ==
    /\ pc["reader"] = "idle" /\ drainer # "reader" /\ arrived < MaxPayloads
    /\ pc["socket"] = "idle"
    /\ arrived' = arrived + 1
    /\ IF ~Allowed
       THEN UNCHANGED <<terminal, buffer, queue, dispatcher, pc>>
       ELSE IF reader
       THEN /\ queue' = Append(queue, arrived + 1)
            /\ IF dispatcher = "none"
               THEN dispatcher' = "reader" /\ Go("reader", "dispatch")
               ELSE UNCHANGED <<dispatcher, pc>>
            /\ UNCHANGED <<terminal, buffer>>
       ELSE IF Overflow
       THEN /\ terminal' = TRUE /\ Go("reader", "claim")
            /\ UNCHANGED <<buffer, queue, dispatcher>>
       ELSE /\ buffer' = Append(buffer, arrived + 1)
            /\ UNCHANGED <<terminal, queue, dispatcher, pc>>
    /\ UNCHANGED <<claimed, closing, commitStarted, commitDone, requested, released,
                   setupStarted, sme, fx, reader, hand, calls, history,
                   selfWait, require>>

\* The dispatching thread takes a task, asks whether the connection has been
\* terminated, and only then calls the SPINE reader.
DispatchTake(t) ==
    /\ pc[t] = "dispatch"
    /\ IF queue = <<>>
       THEN /\ dispatcher' = "none"
            /\ Return(t)
            /\ UNCHANGED <<queue, hand>>
       ELSE /\ hand' = Head(queue) /\ queue' = Tail(queue)
            /\ Go(t, "check")
            /\ UNCHANGED <<dispatcher, calls>>
    /\ UNCHANGED <<gate, sme, fx, buffer, reader, arrived, history, selfWait,
                   require>>

DispatchCheck(t) ==
    /\ pc[t] = "check"
    /\ Go(t, IF Allowed THEN "call" ELSE "dispatch")
    /\ UNCHANGED <<gate, sme, fx, spine, calls, history, selfWait, require>>

DispatchCall(t) ==
    /\ pc[t] = "call"
    /\ delivered' = Append(delivered, hand)
    /\ late' = late + (IF Allowed THEN 0 ELSE 1)
    /\ Go(t, "dispatch")
    /\ UNCHANGED <<gate, sme, fx, spine, calls, setups, closed, after, selfWait,
                   require>>
------------------------------------------------------------------------------
Effects ==
    \/ EffectTake \/ EffectCheck \/ EffectStart \/ EffectEnd \/ EffectApproved
    \/ EffectClose \/ EffectCloseEnd \/ EffectFinish

Reader ==
    \/ ReportServiceShipID \/ Identified \/ PublishPairingApproved \/ Published
    \/ CompletePairingCommit

Step(t) ==
    \/ Approve(t) \/ SetupRemoteDevice(t) \/ AfterSetup(t) \/ Install(t)
    \/ CloseMark(t) \/ CloseEnqueue(t)
    \/ pc[t] = "claim" /\ CloseClaim(t)
    \/ CloseAfterReport(t) \/ SetErrorState(t) \/ RepeatError(t) \/ RepeatEnd(t)
    \/ DispatchTake(t) \/ DispatchCheck(t) \/ DispatchCall(t)

Next ==
    \/ BeginPairingCommit \/ Reader \/ Effects \/ Arrive
    \/ CallbackApprove \/ CallbackClose
    \/ TimerFire \/ ConnectionError \/ FinisherEnqueue \/ GraceClose
    \/ \E t \in Approvers : RequestApproval(t)
    \/ \E t \in Threads : Step(t) \/ CloseClaim(t)

Spec == Init /\ [][Next]_vars

(***************************************************************************)
(* Fairness: every thread inside a call goes on.  Nobody has to call       *)
(* CloseConnection or ApprovePendingHandshake, and the peer has to send    *)
(* nothing.                                                                *)
(***************************************************************************)
FairSpec ==
    /\ Spec
    /\ WF_vars(Effects) /\ WF_vars(Reader)
    /\ WF_vars(FinisherEnqueue \/ GraceClose)
    /\ \A t \in Threads : WF_vars(Step(t))
------------------------------------------------------------------------------
(***************************************************************************)
(* Properties.                                                             *)
(***************************************************************************)
Places == {"idle", "identify", "identified", "publish", "published", "complete",
           "approve", "setup", "ready", "install", "dispatch", "check", "call",
           "claim", "mark", "enqueue", "wait", "grace", "failing", "reported",
           "repeat", "repeating", "end"}

\* The variables have their types.
TypeOK ==
    /\ claimed \in BOOLEAN /\ closing \in BOOLEAN /\ terminal \in BOOLEAN
    /\ commitStarted \in BOOLEAN /\ commitDone \in BOOLEAN
    /\ requested \in BOOLEAN /\ released \in BOOLEAN /\ setupStarted \in BOOLEAN
    /\ reader \in BOOLEAN /\ selfWait \in BOOLEAN /\ require \in BOOLEAN
    /\ sme \in {"AccessMethodsRequest", "Approved", "Complete", "Error"}
    /\ effects \in Seq(Tasks)
    /\ drainer \in Threads \cup {"none"}
    /\ running \in [task: Tasks \cup {NoTask}, stage: Stages]
    /\ result \in [Threads -> {"none", "pending", "ok", "refused"}]
    /\ buffer \in Seq(Nat) /\ queue \in Seq(Nat)
    /\ dispatcher \in Threads \cup {"none"} /\ hand \in Nat
    /\ pc \in [Threads -> Places]
    /\ calls \in Nat /\ arrived \in Nat /\ late \in Nat
    /\ setups \in Nat /\ closed \in Nat /\ after \in Nat
    /\ delivered \in Seq(Nat)

\* A connection that needs pairing approval starts its SPINE setup only for a
\* request that was made, after the peer's identity was committed, and the
\* SPINE device is set up at most once whoever wins the race to do it.
SetupNeedsApproval ==
    /\ setups <= 1
    /\ setupStarted /\ require => released /\ requested /\ commitStarted
    /\ setups = 1 \/ reader => setupStarted

\* The hub is told once that the connection is closed, when no callback of the effect
\* queue is running.  What it hears of the connection afterwards is at most one report:
\* the error state that ReportConnectionError repeats past the queue after its own close,
\* from the pump that met a broken link.
ClosedIsLast ==
    /\ closed <= 1
    /\ closed > 0 => closing /\ terminal /\ running.stage # "callback"
    /\ after <= IF pc["socket"] \in {"repeating", "end"} THEN 1 ELSE 0

\* No SPINE device is set up for a connection the hub was told is closed, although
\* the check, the callback and the close take different locks.
SetupBeforeClosed == [][setups' # setups => closed = 0]_vars

\* The application hears of the completion first and then gets every payload in
\* the order of arrival, none lost and none twice, no matter which threads
\* buffer, install the reader and dispatch; only the end may be cut off, and
\* after the connection became terminal at most the one payload that had already
\* passed its check is delivered.
InOrder ==
    /\ \A i \in DOMAIN delivered : delivered[i] = i - 1
    /\ late <= 1

\* A claimed close is carried out and reported, whatever else is queued and whichever
\* thread drains the queue, with one exception: a callback that approves the handshake
\* synchronously while a late timeout or the pump of a broken link drains the queue waits
\* for ever for a setup only its own thread can run, and the close waits behind it.  With
\* any other thread draining, a callback may approve and close as it likes.
CloseCompletes ==
    claimed ~> \/ closed = 1
               \/ selfWait /\ drainer \in {"timer", "socket"}

\* An approval that was requested is not lost between the commit of the
\* identity and its completion: the setup starts unless the connection ends.
ApprovalNotLost ==
    (requested /\ commitStarted) ~> (setupStarted \/ closing \/ terminal)
==============================================================================
