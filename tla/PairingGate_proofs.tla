------------------------- MODULE PairingGate_proofs -------------------------
(***************************************************************************)
(* Proofs about PairingGate for any number of approving and closing        *)
(* threads, any buffer limit and any number of payloads.                   *)
(*                                                                         *)
(* A SPINE setup and a close each happen once because the right to perform *)
(* them is handed on like a token: from the thread that won it to a task   *)
(* of the effect queue, from there to the running effect and, for a close, *)
(* to the finisher.  SetupInv and CloseInv say that there is one token and *)
(* where it may be; OrderInv says that the queue holds no state report     *)
(* behind a close, and AfterInv that only the pump of a broken link may    *)
(* still report something to the hub, once.                                *)
(* The payloads have an invariant of their own, further down: they are one *)
(* sequence, however it is spread over buffer, queue and threads.          *)
(***************************************************************************)
EXTENDS PairingGate, TLAPS

Positions == 1..Len(effects)
ClosingKinds == {"close", "finish"}
Marking(t) == pc[t] \in {"mark", "enqueue"}
Finishing == pc["finisher"] \in {"wait", "grace"}

\* An effect runs in a draining thread, and its stage fits its kind.
RunInv ==
    /\ running # Nothing => drainer \in Threads
    /\ running.stage = "allowed" => running.task.kind \in {"shipID", "setup"}
    /\ running.stage = "callback" => running.task.kind \in {"shipID", "setup", "report"}
    /\ running.stage = "end" => running.task.kind = "close"

\* Approval, and the token of the SPINE setup.
SetupInv ==
    /\ setupStarted /\ require => released /\ requested /\ commitStarted
    /\ reader => setupStarted
    /\ setups <= 1
    /\ setups = 1 => setupStarted
    /\ \A t \in Threads : pc[t] \in {"setup", "ready", "install"} => setupStarted
    /\ \A t \in Threads : pc[t] = "setup" => setups = 0 /\ running.task.kind # "setup"
    /\ \A t, u \in Threads : pc[t] = "setup" /\ pc[u] = "setup" => t = u
    /\ \A i \in Positions : effects[i].kind = "setup" =>
          /\ setupStarted /\ setups = 0 /\ running.task.kind # "setup"
          /\ \A t \in Threads : pc[t] # "setup"
    /\ \A i, j \in Positions :
          effects[i].kind = "setup" /\ effects[j].kind = "setup" => i = j
    /\ running.task.kind = "setup" =>
          setupStarted /\ (running.stage \in {"take", "allowed"} => setups = 0)

\* The token of the close.
CloseInv ==
    /\ closed <= 1
    /\ \A t, u \in Threads : Marking(t) /\ Marking(u) => t = u
    /\ \A t \in Threads : Marking(t) =>
          /\ claimed /\ closed = 0 /\ ~Finishing
          /\ running.task.kind \notin ClosingKinds
          /\ \A i \in Positions : effects[i].kind \notin ClosingKinds
    /\ \A t \in Threads : pc[t] = "enqueue" => closing
    /\ \A i \in Positions : effects[i].kind \in ClosingKinds =>
          /\ claimed /\ closing /\ closed = 0 /\ ~Finishing
          /\ running.task.kind \notin ClosingKinds
    /\ \A i, j \in Positions :
          effects[i].kind \in ClosingKinds /\ effects[j].kind \in ClosingKinds => i = j
    /\ running.task.kind \in ClosingKinds =>
          claimed /\ closing /\ closed = 0 /\ ~Finishing
    /\ Finishing => claimed /\ closing /\ terminal /\ closed = 0
    /\ closed > 0 => claimed /\ closing /\ terminal
    /\ running.task.kind = "finish" \/ running.stage = "end" => terminal
    /\ \A i \in Positions : effects[i].kind = "finish" => terminal

\* The close has begun to run, or is over.
CloseRuns ==
    \/ running.task.kind \in ClosingKinds
    \/ Finishing
    \/ closed > 0
    \/ \E i \in Positions : effects[i].kind = "finish"

\* No report is queued behind a close or started once the close has run.
OrderInv ==
    /\ \A i, j \in Positions :
          i < j /\ effects[i].kind \in ClosingKinds => effects[j].kind # "report"
    /\ CloseRuns =>
          /\ \A i \in Positions : effects[i].kind # "report"
          /\ running.task.kind # "report"
          /\ running.stage \notin {"allowed", "callback"}

\* What the hub hears after the close it hears from the pump of a broken link, once.
Repeating == {"failing", "repeat", "repeating"}
AfterInv ==
    /\ after <= IF pc["socket"] \in {"repeating", "end"} THEN 1 ELSE 0
    /\ \A t \in Threads : pc[t] \in Repeating => t = "socket"

\* The inductive invariant.
IInv == TypeOK /\ RunInv /\ SetupInv /\ CloseInv /\ OrderInv /\ AfterInv
------------------------------------------------------------------------------
\* The threads the model names are threads, and "none" is none of them.
LEMMA ThreadNames ==
    /\ {"reader", "timer", "socket", "finisher"} \subseteq Threads
    /\ "none" \notin Threads
    /\ Approvers \subseteq Threads /\ Closers \subseteq Threads
BY ThreadAssumption DEF Threads

\* Concatenation stays within the element set.
LEMMA SeqConcat ==
    ASSUME NEW S, NEW s \in Seq(S), NEW u \in Seq(S) PROVE s \o u \in Seq(S)
OBVIOUS

\* An element may be appended.
LEMMA SeqAppend ==
    ASSUME NEW S, NEW s \in Seq(S), NEW x \in S PROVE Append(s, x) \in Seq(S)
OBVIOUS

\* The head of a sequence is an element, the tail a sequence.
LEMMA SeqTail ==
    ASSUME NEW S, NEW s \in Seq(S), s # <<>>
    PROVE  Head(s) \in S /\ Tail(s) \in Seq(S)
OBVIOUS

\* A task is a record of a kind and a thread.
LEMMA TaskType ==
    ASSUME NEW k \in Kinds, NEW t \in Threads
    PROVE  Task(k, t) \in Tasks /\ Task(k, t).kind = k
BY DEF Task, Tasks

\* The inductive invariant holds when the connection waits for accessMethods.
LEMMA InitIInv == Init => IInv
<1> SUFFICES ASSUME Init PROVE IInv
    OBVIOUS
<1> USE ThreadNames DEF Init
<1>1. TypeOK
    <2>1. running \in [task: Tasks \cup {NoTask}, stage: Stages]
        BY DEF Nothing, Stages
    <2>2. /\ effects \in Seq(Tasks) /\ delivered \in Seq(Nat)
          /\ buffer \in Seq(Nat) /\ queue \in Seq(Nat)
        OBVIOUS
    <2>3. /\ pc \in [Threads -> Places]
          /\ result \in [Threads -> {"none", "pending", "ok", "refused"}]
        BY DEF Places
    <2>4. drainer \in Threads \cup {"none"} /\ dispatcher \in Threads \cup {"none"}
        OBVIOUS
    <2>5. require \in BOOLEAN
        BY FlagAssumption
    <2> QED
        BY <2>1, <2>2, <2>3, <2>4, <2>5 DEF TypeOK
<1>2. RunInv /\ SetupInv
    BY DEF RunInv, SetupInv, Positions, Nothing, NoTask
<1>3. CloseInv /\ OrderInv
    BY DEF CloseInv, OrderInv, CloseRuns, Positions, Marking, Finishing,
           ClosingKinds, Nothing, NoTask
<1>4. AfterInv
    BY DEF AfterInv, Repeating
<1> QED
    BY <1>1, <1>2, <1>3, <1>4 DEF IInv

\* Appending a task keeps the queue a sequence of tasks.
LEMMA EnqueueType ==
    ASSUME TypeOK, NEW k \in Kinds, NEW t \in Threads, Enqueue(k, t)
    PROVE  /\ effects' \in Seq(Tasks)
           /\ drainer' \in Threads \cup {"none"}
           /\ running' = running
BY TaskType DEF TypeOK, Enqueue

\* A thread that moves is at some place.
LEMMA GoType ==
    ASSUME TypeOK, NEW t \in Threads, NEW l \in Places, Go(t, l)
    PROVE  pc' \in [Threads -> Places]
BY DEF TypeOK, Go

\* Where a returning call leaves its thread.
LEMMA ReturnType ==
    ASSUME TypeOK, NEW t \in Threads, Return(t)
    PROVE  /\ calls' \in Nat
           /\ \E l \in {"approve", "idle", "repeat", "end"} :
                 Go(t, l) /\ (l = "repeat" => t = "socket")
<1>1. CASE t = "reader" /\ calls > 0
    <2>1. calls' = calls - 1 /\ calls' \in Nat
        BY <1>1 DEF TypeOK, Return
    <2>2. Go(t, "approve") \/ Go(t, "idle")
        BY <1>1 DEF Return
    <2> QED
        BY <2>1, <2>2
<1>2. CASE ~(t = "reader" /\ calls > 0)
    <2>1. Go(t, "idle") \/ (Go(t, "repeat") /\ t = "socket") \/ Go(t, "end")
        BY <1>2 DEF Return
    <2> QED
        BY <1>2, <2>1 DEF Return, TypeOK
<1> QED
    BY <1>1, <1>2

\* Both together.
LEMMA ReturnPlace ==
    ASSUME TypeOK, NEW t \in Threads, Return(t)
    PROVE  calls' \in Nat /\ pc' \in [Threads -> Places]
<1>1. PICK l \in {"approve", "idle", "repeat", "end"} : Go(t, l)
    BY ReturnType
<1>2. l \in Places
    BY DEF Places
<1> QED
    BY <1>1, <1>2, ReturnType, GoType

\* The running effect after it has moved to another stage or finished.
LEMMA StageType ==
    ASSUME TypeOK, NEW s \in Stages
    PROVE  /\ [running EXCEPT !.stage = s] \in [task: Tasks \cup {NoTask}, stage: Stages]
           /\ Nothing \in [task: Tasks \cup {NoTask}, stage: Stages]
BY DEF TypeOK, Nothing, Stages

\* The outcome of an effect is recorded for the thread that waits for it.
LEMMA FinishedType ==
    ASSUME TypeOK, NEW outcome \in {"ok", "refused"}, Finished(outcome)
    PROVE  /\ result' \in [Threads -> {"none", "pending", "ok", "refused"}]
           /\ running' \in [task: Tasks \cup {NoTask}, stage: Stages]
<1>1. running' \in [task: Tasks \cup {NoTask}, stage: Stages]
    BY StageType DEF Finished, Stages
<1>2. result' \in [Threads -> {"none", "pending", "ok", "refused"}]
    <2>1. CASE running.task.kind \in {"shipID", "approved", "setup"}
        <3>1. result' = [result EXCEPT ![running.task.owner] = outcome]
            BY <2>1 DEF Finished
        <3> QED
            BY <3>1 DEF TypeOK
    <2>2. CASE running.task.kind \notin {"shipID", "approved", "setup"}
        BY <2>2 DEF TypeOK, Finished
    <2> QED
        BY <2>1, <2>2
<1> QED
    BY <1>1, <1>2

\* Every step keeps the types of the variables.
LEMMA TypeStep == TypeOK /\ RunInv /\ [Next]_vars => TypeOK'
<1> SUFFICES ASSUME TypeOK, RunInv, [Next]_vars PROVE TypeOK'
    OBVIOUS
<1> USE ThreadNames
<1> USE DEF gate, fx, spine, history
<1>0. /\ effects \in Seq(Tasks) /\ queue \in Seq(Nat) /\ buffer \in Seq(Nat)
      /\ arrived \in Nat
    BY DEF TypeOK
<1>1. CASE BeginPairingCommit
    <2>1. Go("reader", "publish") \/ Go("reader", "identify")
        BY <1>1 DEF BeginPairingCommit
    <2>2. pc' \in [Threads -> Places]
        BY <2>1, GoType DEF Places
    <2>3. UNCHANGED <<claimed, closing, terminal, requested, released, setupStarted,
                      sme, fx, spine, calls, history, selfWait, require>>
        BY <1>1, Zenon DEF BeginPairingCommit
    <2>4. commitStarted' \in BOOLEAN /\ commitDone' \in BOOLEAN
        BY <1>1, Zenon DEF BeginPairingCommit
    <2> QED
        BY <2>2, <2>3, <2>4 DEF TypeOK
<1>2. ASSUME NEW t \in Threads, NEW from \in Places, NEW kind \in Kinds,
             NEW to \in Places, RunBlocking(t, from, kind, to)
      PROVE  TypeOK'
    BY <1>2, EnqueueType DEF RunBlocking, TypeOK, Go
<1>3. ASSUME NEW from, NEW to \in Places, AfterEffect(from, to) PROVE TypeOK'
    BY <1>3 DEF AfterEffect, TypeOK, Go, Places
<1>4. CASE CompletePairingCommit
    <2>1. pc' \in [Threads -> Places]
        BY <1>4, GoType DEF CompletePairingCommit, Places
    <2>2. calls' \in {1, 2}
        BY <1>4, Zenon DEF CompletePairingCommit
    <2>3. commitDone' \in BOOLEAN
        BY <1>4, Zenon DEF CompletePairingCommit, TypeOK
    <2>4. UNCHANGED <<claimed, closing, terminal, commitStarted, requested, released,
                      setupStarted, sme, fx, spine, history, selfWait, require>>
        BY <1>4, Zenon DEF CompletePairingCommit
    <2> QED
        BY <2>1, <2>2, <2>3, <2>4 DEF TypeOK
<1>5. CASE Reader
    <2>1. CASE ReportServiceShipID
        BY <2>1, <1>2 DEF ReportServiceShipID, Places, Kinds
    <2>2. CASE PublishPairingApproved
        BY <2>2, <1>2 DEF PublishPairingApproved, Places, Kinds
    <2>3. CASE Identified \/ Published
        BY <2>3, <1>3 DEF Identified, Published, Places
    <2> QED
        BY <1>4, <1>5, <2>1, <2>2, <2>3 DEF Reader
<1>6. ASSUME NEW t \in Threads, Step(t) \/ CloseClaim(t) PROVE TypeOK'
    <2>1. CASE Approve(t)
        <3>1. released' \in BOOLEAN /\ setupStarted' \in BOOLEAN
            BY <2>1, Zenon DEF Approve, TypeOK
        <3>2. calls' \in Nat /\ pc' \in [Threads -> Places]
            BY <2>1, ReturnPlace, GoType DEF Approve, TypeOK, Places
        <3> QED
            BY <2>1, <3>1, <3>2 DEF Approve, TypeOK
    <2>2. CASE SetupRemoteDevice(t)
        BY <2>2, <1>2 DEF SetupRemoteDevice, Places, Kinds
    <2>3. CASE AfterSetup(t)
        BY <2>3 DEF AfterSetup, TypeOK, Go, Places
    <2>4. CASE Install(t)
        <3>1. calls' \in Nat /\ pc' \in [Threads -> Places]
            BY <2>4, ReturnPlace, GoType DEF Install, TypeOK, Places
        <3>2. queue' \in Seq(Nat)
            <4> DEFINE first == IF sme = "Complete" THEN <<>> ELSE << 0 >>
            <4>1. first \in Seq(Nat)
                OBVIOUS
            <4>2. queue' = queue \/ queue' = queue \o first \o buffer
                BY <2>4 DEF Install
            <4> HIDE DEF first
            <4> QED
                BY <1>0, <4>1, <4>2, SeqConcat
        <3>3. /\ sme' \in {sme, "Complete"}
              /\ buffer' = buffer \/ buffer' = <<>>
              /\ dispatcher' \in {dispatcher, t}
            BY <2>4 DEF Install
        <3>6. buffer' \in Seq(Nat)
            <4>1. CASE buffer' = buffer
                BY <1>0, <4>1
            <4>2. CASE buffer' = <<>>
                BY <4>2
            <4> QED
                BY <3>3, <4>1, <4>2
        <3>5. reader' \in BOOLEAN
            BY <2>4, Zenon DEF Install, TypeOK
        <3>4. UNCHANGED <<gate, fx, hand, arrived, history, selfWait, require>>
            BY <2>4 DEF Install
        <3> QED
            BY <3>1, <3>2, <3>3, <3>4, <3>5, <3>6 DEF TypeOK
    <2>5. CASE CloseMark(t)
        BY <2>5 DEF CloseMark, TypeOK, Go, Places
    <2>6. CASE CloseEnqueue(t)
        BY <2>6, EnqueueType, ReturnPlace DEF CloseEnqueue, TypeOK, Kinds
    <2>7. CASE CloseClaim(t)
        <3>1. calls' \in Nat /\ pc' \in [Threads -> Places]
            BY <2>7, ReturnPlace, GoType DEF CloseClaim, TypeOK, Places
        <3> QED
            BY <2>7, <3>1 DEF CloseClaim, TypeOK
    <2>8. CASE CloseAfterReport(t)
        BY <2>8 DEF CloseAfterReport, TypeOK, Go, Places
    <2>12. CASE SetErrorState(t)
        <3>1. \/ sme' = "Error" /\ Enqueue("report", t)
              \/ UNCHANGED <<sme, effects, drainer, running>>
            BY <2>12 DEF SetErrorState
        <3>2. /\ effects' \in Seq(Tasks) /\ drainer' \in Threads \cup {"none"}
              /\ running' = running /\ sme' \in {sme, "Error"}
            BY <3>1, EnqueueType DEF TypeOK, Kinds
        <3>3. pc' \in [Threads -> Places]
            BY <2>12, GoType DEF SetErrorState, Places
        <3> QED
            BY <2>12, <3>2, <3>3 DEF SetErrorState, TypeOK
    <2>13. CASE RepeatError(t)
        <3>1. after' \in Nat
            BY <2>13 DEF RepeatError, HubCalled, TypeOK
        <3>2. pc' \in [Threads -> Places]
            BY <2>13, GoType DEF RepeatError, Places
        <3> QED
            BY <2>13, <3>1, <3>2 DEF RepeatError, TypeOK
    <2>14. CASE RepeatEnd(t)
        BY <2>14 DEF RepeatEnd, TypeOK, Go, Places
    <2>9. CASE DispatchTake(t)
        <3>1. calls' \in Nat /\ pc' \in [Threads -> Places]
            BY <2>9, ReturnPlace, GoType DEF DispatchTake, TypeOK, Places
        <3>2. queue' \in Seq(Nat) /\ hand' \in Nat
            <4>1. CASE queue = <<>>
                BY <2>9, <4>1 DEF DispatchTake, TypeOK
            <4>2. CASE queue # <<>>
                <5>1. hand' = Head(queue) /\ queue' = Tail(queue)
                    BY <2>9, <4>2 DEF DispatchTake
                <5> QED
                    BY <1>0, <4>2, <5>1, SeqTail
            <4> QED
                BY <4>1, <4>2
        <3>3. dispatcher' \in {dispatcher, "none"}
            BY <2>9 DEF DispatchTake
        <3> QED
            BY <2>9, <3>1, <3>2, <3>3 DEF DispatchTake, TypeOK
    <2>10. CASE DispatchCheck(t)
        BY <2>10 DEF DispatchCheck, TypeOK, Go, Places
    <2>11. CASE DispatchCall(t)
        BY <2>11 DEF DispatchCall, TypeOK, Go, Places
    <2> QED
        BY <1>6, <2>1, <2>2, <2>3, <2>4, <2>5, <2>6, <2>7, <2>8, <2>9, <2>10, <2>11, <2>12,
           <2>13, <2>14 DEF Step
<1>7. CASE Effects
    <2>1. CASE EffectTake
        <3>1. effects' \in Seq(Tasks)
            <4>1. CASE effects = <<>>
                BY <2>1, <4>1 DEF EffectTake, TypeOK
            <4>2. CASE effects # <<>>
                <5>1. effects' = Tail(effects)
                    BY <2>1, <4>2 DEF EffectTake
                <5> QED
                    BY <1>0, <4>2, <5>1, SeqTail
            <4> QED
                BY <4>1, <4>2
        <3>2. running' \in [task: Tasks \cup {NoTask}, stage: Stages]
            <4>1. CASE effects = <<>>
                BY <2>1, <4>1 DEF EffectTake, TypeOK
            <4>2. CASE effects # <<>>
                <5>1. Head(effects) \in Tasks
                    BY <4>2 DEF TypeOK
                <5> QED
                    BY <2>1, <4>2, <5>1 DEF EffectTake, Stages
            <4> QED
                BY <4>1, <4>2
        <3>3. drainer' \in {drainer, "none"}
            BY <2>1 DEF EffectTake
        <3> QED
            BY <2>1, <3>1, <3>2, <3>3 DEF EffectTake, TypeOK
    <2>2. CASE EffectCheck
        <3>1. /\ result' \in [Threads -> {"none", "pending", "ok", "refused"}]
              /\ running' \in [task: Tasks \cup {NoTask}, stage: Stages]
            BY <2>2, FinishedType, StageType DEF EffectCheck, TypeOK, Stages
        <3> QED
            BY <2>2, <3>1 DEF EffectCheck, TypeOK
    <2>3. CASE EffectStart
        <3>1. running' \in [task: Tasks \cup {NoTask}, stage: Stages]
            BY <2>3, StageType DEF EffectStart, Stages
        <3>2. setups' \in Nat /\ after' \in Nat
            BY <2>3 DEF EffectStart, HubCalled, TypeOK
        <3> QED
            BY <2>3, <3>1, <3>2 DEF EffectStart, TypeOK
    <2>4. CASE EffectEnd
        BY <2>4, FinishedType DEF EffectEnd, TypeOK
    <2>5. CASE EffectApproved
        <3>1. /\ result' \in [Threads -> {"none", "pending", "ok", "refused"}]
              /\ running' \in [task: Tasks \cup {NoTask}, stage: Stages]
            BY <2>5, FinishedType DEF EffectApproved
        <3>2. Task("report", running.task.owner) \in Tasks
            BY <2>5 DEF EffectApproved, TypeOK, Task, Tasks, NoTask, Kinds
        <3>3. /\ \/ effects' = effects
                 \/ effects' = Append(effects, Task("report", running.task.owner))
              /\ sme' \in {sme, "Approved"}
            BY <2>5 DEF EffectApproved
        <3>4. effects' \in Seq(Tasks)
            BY <1>0, <3>2, <3>3, SeqAppend
        <3> QED
            BY <2>5, <3>1, <3>3, <3>4 DEF EffectApproved, TypeOK
    <2>6. CASE EffectClose
        BY <2>6, StageType DEF EffectClose, TypeOK, Stages
    <2>7. CASE EffectCloseEnd \/ EffectFinish
        <3>1. closed' \in Nat /\ pc' \in [Threads -> Places]
            BY <2>7, GoType
               DEF EffectCloseEnd, EffectFinish, FinishClose, TypeOK, Places
        <3>2. running' \in [task: Tasks \cup {NoTask}, stage: Stages]
            BY <2>7, StageType DEF EffectCloseEnd, EffectFinish, Stages
        <3> QED
            BY <2>7, <3>1, <3>2 DEF EffectCloseEnd, EffectFinish, TypeOK
    <2> QED
        BY <1>7, <2>1, <2>2, <2>3, <2>4, <2>5, <2>6, <2>7 DEF Effects
<1>8. CASE Arrive
    <2>1. pc' \in [Threads -> Places]
        BY <1>8, GoType DEF Arrive, TypeOK, Places
    <2>2. arrived' \in Nat /\ queue' \in Seq(Nat) /\ buffer' \in Seq(Nat)
        <3>1. /\ arrived' = arrived + 1
              /\ queue' = queue \/ queue' = Append(queue, arrived + 1)
              /\ buffer' = buffer \/ buffer' = Append(buffer, arrived + 1)
            BY <1>8 DEF Arrive
        <3>2. arrived + 1 \in Nat
            BY <1>0
        <3>3. Append(queue, arrived + 1) \in Seq(Nat)
            BY <1>0, <3>2, SeqAppend
        <3>4. Append(buffer, arrived + 1) \in Seq(Nat)
            BY <1>0, <3>2, SeqAppend
        <3> QED
            BY <1>0, <3>1, <3>2, <3>3, <3>4
    <2>3. dispatcher' \in {dispatcher, "reader"}
        BY <1>8 DEF Arrive
    <2>5. terminal' \in BOOLEAN
        BY <1>8, Zenon DEF Arrive, TypeOK
    <2>4. UNCHANGED <<claimed, closing, commitStarted, commitDone, requested, released,
                      setupStarted, sme, fx, reader, hand, calls, history, selfWait, require>>
        BY <1>8 DEF Arrive
    <2> QED
        BY <2>1, <2>2, <2>3, <2>4, <2>5 DEF TypeOK
<1>9. CASE CallbackApprove
    <2>1. drainer \in Threads
        BY <1>9 DEF CallbackApprove, RunInv, Nothing
    <2>2. Task("setup", drainer) \in Tasks
        BY <2>1, TaskType DEF Kinds
    <2>3. effects' \in Seq(Tasks)
        <3>1. effects' = effects \/ effects' = Append(effects, Task("setup", drainer))
            BY <1>9, Zenon DEF CallbackApprove
        <3> QED
            BY <1>0, <2>2, <3>1, SeqAppend
    <2>4. requested' \in BOOLEAN /\ released' \in BOOLEAN
        BY <1>9, Zenon DEF CallbackApprove, TypeOK
    <2>5. setupStarted' \in BOOLEAN /\ selfWait' \in BOOLEAN
        BY <1>9, Zenon DEF CallbackApprove, TypeOK
    <2>6. UNCHANGED <<claimed, closing, terminal, commitStarted, commitDone, sme,
                      drainer, running, result, spine, pc, calls, history, require>>
        BY <1>9, Zenon DEF CallbackApprove
    <2> QED
        BY <2>3, <2>4, <2>5, <2>6 DEF TypeOK
<1>10. CASE CallbackClose
    <2>1. drainer \in Threads
        BY <1>10 DEF CallbackClose, RunInv, Nothing
    <2>2. Task("close", drainer) \in Tasks
        BY <2>1, TaskType DEF Kinds
    <2> QED
        BY <1>10, <2>2 DEF CallbackClose, TypeOK
<1>11. CASE TimerFire
    BY <1>11, EnqueueType DEF TimerFire, TypeOK, Go, Places, Kinds
<1>12. CASE ConnectionError
    BY <1>12 DEF ConnectionError, TypeOK, Go, Places
<1>13. CASE FinisherEnqueue
    BY <1>13, EnqueueType DEF FinisherEnqueue, TypeOK, Go, Places, Kinds
<1>14. CASE GraceClose
    BY <1>14 DEF GraceClose, TypeOK, Go, Places
<1>15. ASSUME NEW t \in Approvers, RequestApproval(t) PROVE TypeOK'
    BY <1>15 DEF RequestApproval, TypeOK, Go, Places
<1>16. CASE UNCHANGED vars
    BY <1>16 DEF vars, TypeOK
<1> QED
    BY <1>1, <1>5, <1>6, <1>7, <1>8, <1>9, <1>10, <1>11, <1>12, <1>13, <1>14, <1>15,
       <1>16 DEF Next

------------------------------------------------------------------------------
(***************************************************************************)
(* Most steps move no token.  An ordinary step sends no thread to a place  *)
(* where it would hold one, enqueues neither a setup nor a close, reports  *)
(* a state only while the gate is open, and ends no effect of a close.     *)
(***************************************************************************)
HoldingPlaces == {"setup", "mark", "enqueue", "wait", "grace"}

OrdinaryMoves ==
    \A t \in Threads : pc'[t] # pc[t] =>
        /\ pc'[t] \notin HoldingPlaces
        /\ pc'[t] \in {"ready", "install"} => setupStarted

OrdinaryQueue ==
    \/ effects' = effects
    \/ \E x \in Tasks : /\ x.kind \in {"shipID", "approved", "report"}
                        /\ x.kind = "report" => ~closing
                        /\ effects' = Append(effects, x)

OrdinaryEffect ==
    \/ running' = running
    \/ running' = Nothing /\ running.task.kind \notin ClosingKinds
    \/ /\ running' = [running EXCEPT !.stage = "allowed"]
       /\ running.stage = "take" /\ ~closing
       /\ running.task.kind \in {"shipID", "setup"}

Ordinary ==
    /\ OrdinaryMoves /\ OrdinaryQueue /\ OrdinaryEffect
    /\ setups' = setups /\ closed' = closed
    /\ claimed' = claimed /\ closing' = closing /\ setupStarted' = setupStarted
    /\ terminal => terminal'
    /\ released => released'
    /\ requested => requested'
    /\ commitStarted => commitStarted'
    /\ reader' => reader \/ setupStarted
    /\ require' = require

\* What an appended task changes in the queue.
LEMMA AppendedTask ==
    ASSUME effects \in Seq(Tasks), NEW x, effects' = Append(effects, x)
    PROVE  \A i \in Positions' :
              \/ i \in Positions /\ effects'[i] = effects[i]
              \/ i = Len(effects) + 1 /\ effects'[i] = x
<1>1. Len(effects') = Len(effects) + 1
    OBVIOUS
<1>2. \A i \in 1..Len(effects) : effects'[i] = effects[i]
    OBVIOUS
<1>3. effects'[Len(effects) + 1] = x
    OBVIOUS
<1> QED
    BY <1>1, <1>2, <1>3 DEF Positions

\* What an ordinary step changes in the queue.
LEMMA OrdinaryPositions ==
    ASSUME TypeOK, Ordinary
    PROVE  \A i \in Positions' :
              \/ i \in Positions /\ effects'[i] = effects[i]
              \/ /\ i = Len(effects) + 1
                 /\ effects'[i].kind \notin {"setup", "close", "finish"}
                 /\ effects'[i].kind = "report" => ~closing
<1>1. effects \in Seq(Tasks)
    BY DEF TypeOK
<1>2. CASE effects' = effects
    BY <1>2 DEF Positions
<1>3. ASSUME NEW x \in Tasks, x.kind \in {"shipID", "approved", "report"},
             x.kind = "report" => ~closing, effects' = Append(effects, x)
      PROVE  \A i \in Positions' :
                \/ i \in Positions /\ effects'[i] = effects[i]
                \/ /\ i = Len(effects) + 1
                   /\ effects'[i].kind \notin {"setup", "close", "finish"}
                   /\ effects'[i].kind = "report" => ~closing
    BY <1>1, <1>3, AppendedTask
<1> QED
    BY <1>2, <1>3 DEF Ordinary, OrdinaryQueue

\* What an ordinary step changes in the running effect.
LEMMA OrdinaryRunning ==
    ASSUME TypeOK, Ordinary
    PROVE  /\ running'.task.kind \in {running.task.kind, "none"}
           /\ \/ running'.stage = running.stage
              \/ running'.stage = "take" /\ running'.task.kind = "none"
              \/ /\ running.stage = "take" /\ running'.stage = "allowed" /\ ~closing
                 /\ running.task.kind \in {"shipID", "setup"}
<1>1. CASE running' = running
    BY <1>1
<1>2. CASE running' = Nothing
    BY <1>2 DEF Nothing, NoTask
<1>3. CASE running' = [running EXCEPT !.stage = "allowed"] /\ running.stage = "take"
           /\ ~closing /\ running.task.kind \in {"shipID", "setup"}
    BY <1>3 DEF TypeOK
<1> QED
    BY <1>1, <1>2, <1>3 DEF Ordinary, OrdinaryEffect

\* An ordinary step keeps the setup token in place.
LEMMA OrdinarySetup == TypeOK /\ SetupInv /\ Ordinary => SetupInv'
<1> SUFFICES ASSUME TypeOK, SetupInv, Ordinary PROVE SetupInv'
    OBVIOUS
<1>1. \A t \in Threads : pc'[t] = "setup" => pc[t] = "setup"
    BY DEF Ordinary, OrdinaryMoves, HoldingPlaces
<1>2. \A t \in Threads : pc'[t] \in {"setup", "ready", "install"} => setupStarted'
    BY DEF Ordinary, OrdinaryMoves, HoldingPlaces, SetupInv
<1>3. /\ running'.task.kind = "setup" => running.task.kind = "setup"
      /\ running'.task.kind = "setup" /\ running'.stage \in {"take", "allowed"} =>
            running.stage \in {"take", "allowed"}
    BY OrdinaryRunning
<1>4. \A i \in Positions' : effects'[i].kind = "setup" =>
          i \in Positions /\ effects[i].kind = "setup"
    BY OrdinaryPositions
<1> QED
    BY <1>1, <1>2, <1>3, <1>4 DEF SetupInv, Ordinary

\* An ordinary step keeps the close token in place.
LEMMA OrdinaryClose == TypeOK /\ CloseInv /\ Ordinary => CloseInv'
<1> SUFFICES ASSUME TypeOK, CloseInv, Ordinary PROVE CloseInv'
    OBVIOUS
<1>1. \A t \in Threads : /\ Marking(t)' => Marking(t)
                         /\ pc'[t] = "enqueue" => pc[t] = "enqueue"
    BY DEF Ordinary, OrdinaryMoves, HoldingPlaces, Marking
<1>2. Finishing' => Finishing
    BY ThreadNames DEF Ordinary, OrdinaryMoves, HoldingPlaces, Finishing
<1>3. /\ running'.task.kind \in ClosingKinds => running.task.kind = running'.task.kind
      /\ running'.stage = "end" => running.stage = "end"
    BY OrdinaryRunning DEF ClosingKinds
<1>4. \A i \in Positions' : effects'[i].kind \in ClosingKinds =>
          i \in Positions /\ effects[i].kind = effects'[i].kind
    BY OrdinaryPositions DEF ClosingKinds
<1> QED
    BY <1>1, <1>2, <1>3, <1>4 DEF CloseInv, Ordinary, ClosingKinds

\* What runs as part of a close finds the gate closed.
LEMMA CloseRunsClosing == CloseInv /\ CloseRuns => closing
BY DEF CloseInv, CloseRuns, ClosingKinds

\* An ordinary step queues no report behind a close.
LEMMA OrdinaryOrder == TypeOK /\ CloseInv /\ OrderInv /\ Ordinary => OrderInv'
<1> SUFFICES ASSUME TypeOK, CloseInv, OrderInv, Ordinary PROVE OrderInv'
    OBVIOUS
<1>1. Finishing' => Finishing
    BY ThreadNames DEF Ordinary, OrdinaryMoves, HoldingPlaces, Finishing
<1>2. \A i \in Positions' :
          \/ i \in Positions /\ effects'[i] = effects[i]
          \/ /\ i = Len(effects) + 1
             /\ effects'[i].kind \notin ClosingKinds
             /\ effects'[i].kind = "report" => ~closing
    BY OrdinaryPositions DEF ClosingKinds
<1>3. CloseRuns' => CloseRuns
    <2>1. running'.task.kind \in ClosingKinds => running.task.kind \in ClosingKinds
        BY OrdinaryRunning DEF ClosingKinds
    <2> QED
        BY <1>1, <1>2, <2>1 DEF CloseRuns, Ordinary, ClosingKinds
<1>4. \A i, j \in Positions' :
          i < j /\ effects'[i].kind \in ClosingKinds => effects'[j].kind # "report"
    <2> SUFFICES ASSUME NEW i \in Positions', NEW j \in Positions', i < j,
                        effects'[i].kind \in ClosingKinds, effects'[j].kind = "report"
                 PROVE  FALSE
        OBVIOUS
    <2>1. i \in Positions /\ effects'[i] = effects[i] /\ closing
        BY <1>2 DEF CloseInv
    <2>2. j \in Positions /\ effects'[j] = effects[j]
        BY <1>2, <2>1
    <2> QED
        BY <2>1, <2>2 DEF OrderInv
<1>5. CloseRuns => /\ running'.task.kind # "report"
                   /\ running'.stage \notin {"allowed", "callback"}
    BY CloseRunsClosing, OrdinaryRunning DEF OrderInv
<1>6. CloseRuns => \A i \in Positions' : effects'[i].kind # "report"
    BY <1>2, CloseRunsClosing DEF OrderInv
<1> QED
    BY <1>3, <1>4, <1>5, <1>6 DEF OrderInv

\* A thread that goes to a place without a token makes an ordinary move.
LEMMA GoOrdinary ==
    ASSUME TypeOK, NEW t \in Threads, NEW l, Go(t, l), l \notin HoldingPlaces,
           l \in {"ready", "install"} => setupStarted
    PROVE  OrdinaryMoves
BY DEF TypeOK, Go, OrdinaryMoves

\* So does one whose call returns.
LEMMA ReturnOrdinary ==
    ASSUME TypeOK, NEW t \in Threads, Return(t) PROVE OrdinaryMoves
<1>1. PICK l \in {"approve", "idle", "repeat", "end"} : Go(t, l)
    BY ReturnType
<1> QED
    BY <1>1, GoOrdinary DEF HoldingPlaces

\* Enqueueing anything but a setup or a close is ordinary.
LEMMA EnqueueOrdinary ==
    ASSUME TypeOK, NEW t \in Threads, NEW k \in {"shipID", "approved", "report"},
           Enqueue(k, t), k = "report" => ~closing
    PROVE  OrdinaryQueue /\ OrdinaryEffect
<1>1. Task(k, t) \in Tasks /\ Task(k, t).kind = k
    BY TaskType DEF Kinds
<1>2. effects' = Append(effects, Task(k, t)) /\ running' = running
    BY DEF Enqueue
<1> QED
    BY <1>1, <1>2 DEF OrdinaryQueue, OrdinaryEffect

\* The steps that move a token.
Special ==
    \/ \E t \in Threads : \/ Approve(t) /\ MayApprove
                          \/ SetupRemoteDevice(t)
                          \/ CloseClaim(t) /\ ~claimed
                          \/ CloseMark(t) \/ CloseEnqueue(t)
    \/ EffectTake \/ EffectStart \/ EffectClose \/ EffectCloseEnd \/ EffectFinish
    \/ FinisherEnqueue \/ GraceClose \/ CallbackApprove \/ CallbackClose

\* Every other step is ordinary.
LEMMA OrdinaryOrSpecial ==
    ASSUME TypeOK, RunInv, SetupInv, [Next]_vars PROVE Ordinary \/ Special
<1> USE ThreadNames DEF gate, fx, spine, history
<1> DEFINE Rest == /\ setups' = setups /\ closed' = closed
                   /\ claimed' = claimed /\ closing' = closing
                   /\ setupStarted' = setupStarted
                   /\ terminal => terminal'
                   /\ released => released'
                   /\ requested => requested'
                   /\ commitStarted => commitStarted'
                   /\ reader' => reader \/ setupStarted
                   /\ require' = require
           SameFx == effects' = effects /\ running' = running
<1>a. SameFx => OrdinaryQueue /\ OrdinaryEffect
    BY DEF OrdinaryQueue, OrdinaryEffect
<1>1. CASE BeginPairingCommit
    <2>1. Go("reader", "publish") \/ Go("reader", "identify")
        BY <1>1 DEF BeginPairingCommit
    <2>2. OrdinaryMoves
        BY <2>1, GoOrdinary DEF HoldingPlaces
    <2>3. Rest /\ SameFx
        BY <1>1 DEF BeginPairingCommit
    <2> QED
        BY <1>a, <2>2, <2>3 DEF Ordinary
<1>2. CASE ReportServiceShipID \/ PublishPairingApproved
    <2>1. OrdinaryMoves
        BY <1>2, GoOrdinary
           DEF ReportServiceShipID, PublishPairingApproved, RunBlocking, HoldingPlaces
    <2>2. OrdinaryQueue /\ OrdinaryEffect
        BY <1>2, EnqueueOrdinary
           DEF ReportServiceShipID, PublishPairingApproved, RunBlocking
    <2>3. Rest
        BY <1>2 DEF ReportServiceShipID, PublishPairingApproved, RunBlocking
    <2> QED
        BY <2>1, <2>2, <2>3 DEF Ordinary
<1>3. CASE Identified \/ Published
    <2>1. Go("reader", "publish") \/ Go("reader", "complete") \/ Go("reader", "idle")
        BY <1>3 DEF Identified, Published, AfterEffect
    <2>2. OrdinaryMoves
        BY <2>1, GoOrdinary DEF HoldingPlaces
    <2>3. Rest /\ SameFx
        BY <1>3 DEF Identified, Published, AfterEffect
    <2> QED
        BY <1>a, <2>2, <2>3 DEF Ordinary
<1>4. CASE CompletePairingCommit
    <2>1. OrdinaryMoves
        BY <1>4, GoOrdinary DEF CompletePairingCommit, HoldingPlaces
    <2>2. Rest /\ SameFx
        BY <1>4 DEF CompletePairingCommit
    <2> QED
        BY <1>a, <2>1, <2>2 DEF Ordinary
<1>5. ASSUME NEW t \in Threads, Step(t) \/ CloseClaim(t) PROVE Ordinary \/ Special
    <2>1. CASE Approve(t) /\ ~MayApprove
        <3>1. Return(t) /\ Rest /\ SameFx
            BY <2>1 DEF Approve
        <3> QED
            BY <1>a, <3>1, ReturnOrdinary DEF Ordinary
    <2>2. CASE AfterSetup(t)
        <3>1. setupStarted
            BY <2>2 DEF AfterSetup, SetupInv
        <3>2. Go(t, "install") \/ Go(t, "claim")
            BY <2>2 DEF AfterSetup
        <3>3. OrdinaryMoves
            BY <3>1, <3>2, GoOrdinary DEF HoldingPlaces
        <3>4. Rest /\ SameFx
            BY <2>2 DEF AfterSetup
        <3> QED
            BY <1>a, <3>3, <3>4 DEF Ordinary
    <2>3. CASE Install(t)
        <3>1. setupStarted
            BY <2>3 DEF Install, SetupInv
        <3>2. Go(t, "dispatch") \/ Return(t)
            BY <2>3 DEF Install
        <3>3. OrdinaryMoves
            BY <3>2, GoOrdinary, ReturnOrdinary DEF HoldingPlaces
        <3>4. Rest /\ SameFx
            BY <2>3, <3>1 DEF Install
        <3> QED
            BY <1>a, <3>3, <3>4 DEF Ordinary
    <2>4. CASE CloseClaim(t) /\ claimed
        <3>1. Return(t) /\ Rest /\ SameFx
            BY <2>4 DEF CloseClaim, TypeOK
        <3> QED
            BY <1>a, <3>1, ReturnOrdinary DEF Ordinary
    <2>5. CASE CloseAfterReport(t)
        <3>1. Go(t, "claim") /\ Rest /\ SameFx
            BY <2>5 DEF CloseAfterReport
        <3>2. OrdinaryMoves
            BY <3>1, GoOrdinary DEF HoldingPlaces
        <3> QED
            BY <1>a, <3>1, <3>2 DEF Ordinary
    <2>6. CASE DispatchTake(t) \/ DispatchCheck(t) \/ DispatchCall(t)
        <3>1. Return(t) \/ Go(t, "check") \/ Go(t, "call") \/ Go(t, "dispatch")
            BY <2>6 DEF DispatchTake, DispatchCheck, DispatchCall
        <3>2. OrdinaryMoves
            BY <3>1, GoOrdinary, ReturnOrdinary DEF HoldingPlaces
        <3>3. Rest /\ SameFx
            BY <2>6 DEF DispatchTake, DispatchCheck, DispatchCall
        <3> QED
            BY <1>a, <3>2, <3>3 DEF Ordinary
    <2>7. CASE \/ Approve(t) /\ MayApprove
               \/ SetupRemoteDevice(t)
               \/ CloseClaim(t) /\ ~claimed
               \/ CloseMark(t) \/ CloseEnqueue(t)
        BY <2>7 DEF Special
    <2>8. CASE SetErrorState(t)
        <3>1. OrdinaryMoves
            BY <2>8, GoOrdinary DEF SetErrorState, HoldingPlaces
        <3>2. (Enqueue("report", t) /\ ~closing) \/ SameFx
            BY <2>8 DEF SetErrorState, Allowed
        <3>3. OrdinaryQueue /\ OrdinaryEffect
            BY <1>a, <3>2, EnqueueOrdinary
        <3>4. Rest
            BY <2>8 DEF SetErrorState
        <3> QED
            BY <3>1, <3>3, <3>4 DEF Ordinary
    <2>9. CASE RepeatError(t) \/ RepeatEnd(t)
        <3>1. (Go(t, "repeating") \/ Go(t, "end")) /\ Rest /\ SameFx
            BY <2>9 DEF RepeatError, RepeatEnd
        <3>2. OrdinaryMoves
            BY <3>1, GoOrdinary DEF HoldingPlaces
        <3> QED
            BY <1>a, <3>1, <3>2 DEF Ordinary
    <2> QED
        BY <1>5, <2>1, <2>2, <2>3, <2>4, <2>5, <2>6, <2>7, <2>8, <2>9 DEF Step
<1>6. CASE EffectCheck
    <2>1. pc' = pc /\ Rest /\ effects' = effects
        BY <1>6 DEF EffectCheck
    <2>2. OrdinaryEffect
        BY <1>6 DEF EffectCheck, Finished, OrdinaryEffect, ClosingKinds, Allowed
    <2> QED
        BY <2>1, <2>2 DEF Ordinary, OrdinaryMoves, OrdinaryQueue
<1>7. CASE EffectEnd
    <2>1. pc' = pc /\ Rest /\ effects' = effects
        BY <1>7 DEF EffectEnd
    <2>2. OrdinaryEffect
        BY <1>7 DEF EffectEnd, Finished, OrdinaryEffect, ClosingKinds, RunInv
    <2> QED
        BY <2>1, <2>2 DEF Ordinary, OrdinaryMoves, OrdinaryQueue
<1>8. CASE EffectApproved
    <2>1. pc' = pc /\ Rest
        BY <1>8 DEF EffectApproved
    <2>2. OrdinaryEffect
        BY <1>8 DEF EffectApproved, Finished, OrdinaryEffect, ClosingKinds
    <2>3. running.task.owner \in Threads
        BY <1>8 DEF EffectApproved, TypeOK, Tasks, NoTask
    <2>4. /\ Task("report", running.task.owner) \in Tasks
          /\ Task("report", running.task.owner).kind = "report"
        BY <2>3, TaskType DEF Kinds
    <2>5. OrdinaryQueue
        BY <1>8, <2>4 DEF EffectApproved, OrdinaryQueue, Allowed
    <2> QED
        BY <2>1, <2>2, <2>5 DEF Ordinary, OrdinaryMoves
<1>9. CASE Arrive
    <2>1. pc' = pc \/ Go("reader", "dispatch") \/ Go("reader", "claim")
        BY <1>9 DEF Arrive
    <2>2. OrdinaryMoves
        BY <2>1, GoOrdinary DEF HoldingPlaces, OrdinaryMoves
    <2>3. Rest /\ SameFx
        BY <1>9 DEF Arrive
    <2> QED
        BY <1>a, <2>2, <2>3 DEF Ordinary
<1>10. CASE TimerFire \/ ConnectionError
    <2>1. OrdinaryMoves
        BY <1>10, GoOrdinary DEF TimerFire, ConnectionError, HoldingPlaces
    <2>2. ~closing
        BY <1>10 DEF TimerFire, ConnectionError, Allowed
    <2>3. Enqueue("report", "timer") \/ SameFx
        BY <1>10 DEF TimerFire, ConnectionError
    <2>4. OrdinaryQueue /\ OrdinaryEffect
        BY <1>a, <2>2, <2>3, EnqueueOrdinary
    <2>5. Rest
        BY <1>10 DEF TimerFire, ConnectionError
    <2> QED
        BY <2>1, <2>4, <2>5 DEF Ordinary
<1>11. ASSUME NEW t \in Approvers, RequestApproval(t) PROVE Ordinary
    <2>1. Go(t, "approve") \/ Go(t, "end")
        BY <1>11 DEF RequestApproval
    <2>2. OrdinaryMoves
        BY <2>1, GoOrdinary DEF HoldingPlaces
    <2>3. Rest /\ SameFx
        BY <1>11 DEF RequestApproval
    <2> QED
        BY <1>a, <2>2, <2>3 DEF Ordinary
<1>12. CASE UNCHANGED vars
    BY <1>12, <1>a DEF vars, Ordinary, OrdinaryMoves
<1>13. CASE Effects
    BY <1>6, <1>7, <1>8, <1>13 DEF Effects, Special
<1>14. CASE \/ FinisherEnqueue \/ GraceClose \/ CallbackApprove \/ CallbackClose
    BY <1>14 DEF Special
<1>15. CASE Reader
    BY <1>2, <1>3, <1>4, <1>15 DEF Reader
<1> QED
    BY <1>1, <1>5, <1>9, <1>10, <1>11, <1>12, <1>13, <1>14, <1>15 DEF Next
------------------------------------------------------------------------------
(***************************************************************************)
(* The steps that move a token, one lemma per action or pair of actions.   *)
(***************************************************************************)
Tokens == SetupInv /\ CloseInv /\ OrderInv

\* approveHandshake wins the right to set up the SPINE device.
LEMMA ApproveTokens ==
    ASSUME IInv, NEW t \in Threads, Approve(t), MayApprove PROVE Tokens'
<1> USE ThreadNames DEF gate, fx, spine, history
<1>1. /\ ~setupStarted /\ setupStarted'
      /\ Go(t, "setup")
      /\ UNCHANGED <<claimed, closing, terminal, effects, running, setups, closed,
                     requested, commitStarted, reader, require>>
    BY DEF Approve, MayApprove
<1>2. require => released' /\ requested' /\ commitStarted'
    BY DEF Approve, MayApprove
<1>3. \A u \in Threads : pc'[u] = IF u = t THEN "setup" ELSE pc[u]
    BY <1>1 DEF Go, IInv, TypeOK
<1>4. SetupInv'
    <2>1. /\ setups = 0 /\ running.task.kind # "setup"
          /\ \A i \in Positions : effects[i].kind # "setup"
          /\ \A u \in Threads : pc[u] # "setup"
        BY <1>1 DEF IInv, TypeOK, SetupInv
    <2> QED
        BY <1>1, <1>2, <1>3, <2>1 DEF SetupInv, Positions
<1>5. CloseInv'
    BY <1>1, <1>3 DEF IInv, CloseInv, Marking, Finishing, Positions
<1>6. OrderInv'
    BY <1>1, <1>3 DEF IInv, OrderInv, CloseRuns, Finishing, Positions
<1> QED
    BY <1>4, <1>5, <1>6 DEF Tokens

\* The thread hands the setup to the effect queue.
LEMMA SetupTokens ==
    ASSUME IInv, NEW t \in Threads, SetupRemoteDevice(t) PROVE Tokens'
<1> USE ThreadNames DEF gate, fx, spine, history
<1> DEFINE x == Task("setup", t)
<1>1. /\ pc[t] = "setup" /\ Go(t, "ready") /\ effects' = Append(effects, x)
      /\ UNCHANGED <<claimed, closing, terminal, running, setups, closed, requested,
                     released, setupStarted, commitStarted, reader, require>>
    BY DEF SetupRemoteDevice, RunBlocking, Enqueue
<1>2. x.kind = "setup"
    BY DEF Task
<1>3. \A u \in Threads : pc'[u] = IF u = t THEN "ready" ELSE pc[u]
    BY <1>1 DEF Go, IInv, TypeOK
<1>4. \A i \in Positions' : \/ i \in Positions /\ effects'[i] = effects[i]
                            \/ i = Len(effects) + 1 /\ effects'[i] = x
    BY <1>1, AppendedTask DEF IInv, TypeOK
<1> HIDE DEF x
<1>5. SetupInv'
    <2>1. /\ setups = 0 /\ running.task.kind # "setup" /\ setupStarted
          /\ \A i \in Positions : effects[i].kind # "setup"
          /\ \A u \in Threads : pc[u] = "setup" => u = t
        BY <1>1 DEF IInv, SetupInv
    <2> QED
        BY <1>1, <1>2, <1>3, <1>4, <2>1 DEF IInv, SetupInv
<1>6. CloseInv'
    BY <1>1, <1>2, <1>3, <1>4 DEF IInv, CloseInv, Marking, Finishing, ClosingKinds
<1>7. OrderInv'
    BY <1>1, <1>2, <1>3, <1>4
       DEF IInv, OrderInv, CloseRuns, Finishing, ClosingKinds, Positions
<1> QED
    BY <1>5, <1>6, <1>7 DEF Tokens

\* A step that only claims or marks the close.
LEMMA ClaimTokens ==
    ASSUME IInv, NEW t \in Threads, (CloseClaim(t) /\ ~claimed) \/ CloseMark(t)
    PROVE  Tokens'
<1> USE ThreadNames DEF gate, fx, spine, history
<1>1. UNCHANGED <<terminal, effects, running, setups, closed, requested, released,
                  setupStarted, commitStarted, reader, require>>
    BY DEF CloseClaim, CloseMark
<1>2. PICK l \in {"mark", "enqueue"} :
        /\ Go(t, l)
        /\ l = "mark" => ~claimed /\ claimed' /\ closing' = closing
        /\ l = "enqueue" => pc[t] = "mark" /\ claimed' = claimed /\ closing'
    BY DEF CloseClaim, CloseMark
<1>3. \A u \in Threads : pc'[u] = IF u = t THEN l ELSE pc[u]
    BY <1>2 DEF Go, IInv, TypeOK
<1>4. SetupInv'
    BY <1>1, <1>3 DEF IInv, SetupInv, Positions
<1>5. CloseInv'
    <2>1. /\ closed = 0 /\ ~Finishing /\ running.task.kind \notin ClosingKinds
          /\ \A i \in Positions : effects[i].kind \notin ClosingKinds
          /\ \A u \in Threads : Marking(u) => u = t
        BY <1>2 DEF IInv, CloseInv, Marking, TypeOK, ClosingKinds
    <2>2. ~Finishing'
        BY <1>3, <2>1 DEF Finishing
    <2>3. claimed' /\ (l = "enqueue" => closing')
        BY <1>2 DEF IInv, CloseInv, Marking
    <2>4. \A u \in Threads : Marking(u)' => u = t
        BY <1>3, <2>1 DEF Marking
    <2>5. \A u \in Threads : pc'[u] = "enqueue" => closing'
        BY <1>3, <2>1, <2>3 DEF Marking
    <2>6. running.task.kind # "finish" /\ running.stage = "end" => terminal
        BY DEF IInv, CloseInv
    <2> QED
        BY <1>1, <2>1, <2>2, <2>3, <2>4, <2>5, <2>6
           DEF CloseInv, Positions, ClosingKinds
<1>6. OrderInv'
    BY <1>1, <1>3 DEF IInv, OrderInv, CloseRuns, Finishing, Positions
<1> QED
    BY <1>4, <1>5, <1>6 DEF Tokens

\* The close is queued: by the thread that claimed it, or from a callback.
LEMMA EnqueuedCloseTokens ==
    ASSUME IInv,
           (\E t \in Threads : CloseEnqueue(t)) \/ CallbackClose
    PROVE  Tokens'
<1> USE ThreadNames DEF gate, fx, spine, history
<1>1. PICK x : effects' = Append(effects, x) /\ x.kind = "close"
    <2>1. \A u : Task("close", u).kind = "close"
        BY DEF Task
    <2>2. \E u : effects' = Append(effects, Task("close", u))
        BY Zenon DEF CloseEnqueue, CallbackClose, Enqueue
    <2> QED
        BY <2>1, <2>2
<1>2. UNCHANGED <<terminal, running, setups, closed, requested, released,
                  setupStarted, commitStarted, reader, require>>
    BY DEF CloseEnqueue, CallbackClose, Enqueue
<1>3. \A i \in Positions' : \/ i \in Positions /\ effects'[i] = effects[i]
                            \/ i = Len(effects) + 1 /\ effects'[i] = x
    BY <1>1, AppendedTask DEF IInv, TypeOK
<1>4. OrdinaryMoves
    <2>1. CASE CallbackClose
        BY <2>1 DEF CallbackClose, OrdinaryMoves
    <2>2. ASSUME NEW t \in Threads, CloseEnqueue(t) PROVE OrdinaryMoves
        BY <2>2, ReturnOrdinary DEF CloseEnqueue, IInv
    <2> QED
        BY <2>1, <2>2
<1>5. /\ claimed' /\ closing'
      /\ closed = 0 /\ ~Finishing /\ running.task.kind \notin ClosingKinds
      /\ \A i \in Positions : effects[i].kind \notin ClosingKinds
      /\ \A u \in Threads : ~Marking(u)'
    <2>1. CASE CallbackClose
        BY <2>1 DEF CallbackClose, IInv, CloseInv, Marking, Finishing, TypeOK
    <2>2. ASSUME NEW t \in Threads, CloseEnqueue(t)
          PROVE  <1>5!:
        <3>1. Marking(t) /\ pc[t] = "enqueue" /\ UNCHANGED <<claimed, closing>>
            BY <2>2 DEF CloseEnqueue, Marking
        <3>2. PICK l \in {"approve", "idle", "repeat", "end"} : Go(t, l)
            BY <2>2, ReturnType DEF CloseEnqueue, IInv
        <3>3. \A u \in Threads : pc'[u] = IF u = t THEN l ELSE pc[u]
            BY <3>2 DEF Go, IInv, TypeOK
        <3> QED
            BY <3>1, <3>3 DEF IInv, CloseInv, Marking
    <2> QED
        BY <2>1, <2>2
<1>6. ~Finishing'
    BY <1>4, <1>5 DEF OrdinaryMoves, HoldingPlaces, Finishing
<1>7. SetupInv'
    <2>1. \A u \in Threads : /\ pc'[u] = "setup" => pc[u] = "setup"
                             /\ pc'[u] \in {"setup", "ready", "install"} => setupStarted
        BY <1>4 DEF OrdinaryMoves, HoldingPlaces, IInv, SetupInv
    <2> QED
        BY <1>1, <1>2, <1>3, <2>1 DEF IInv, SetupInv
<1>8. CloseInv'
    <2>1. \A u \in Threads : pc'[u] # "enqueue"
        BY <1>5 DEF Marking
    <2>2. running.stage = "end" => terminal
        BY DEF IInv, CloseInv
    <2>3. \A i \in Positions' : effects'[i].kind \in ClosingKinds =>
            i = Len(effects) + 1 /\ effects'[i].kind = "close"
        BY <1>1, <1>3, <1>5
    <2> QED
        BY <1>2, <1>5, <1>6, <2>1, <2>2, <2>3 DEF CloseInv, ClosingKinds
<1>9. OrderInv'
    <2>1. ~CloseRuns'
        <3>1. \A i \in Positions' : effects'[i].kind # "finish"
            BY <1>1, <1>3, <1>5 DEF ClosingKinds
        <3> QED
            BY <1>2, <1>5, <1>6, <3>1 DEF CloseRuns
    <2>2. \A i, j \in Positions' :
            i < j /\ effects'[i].kind \in ClosingKinds => effects'[j].kind # "report"
        BY <1>1, <1>3, <1>5 DEF Positions
    <2> QED
        BY <2>1, <2>2 DEF OrderInv
<1> QED
    BY <1>7, <1>8, <1>9 DEF Tokens

\* A callback that approves queues a setup, or changes nothing but the request.
LEMMA CallbackApproveTokens == ASSUME IInv, CallbackApprove PROVE Tokens'
<1> USE ThreadNames DEF gate, fx, spine, history
<1>1. /\ UNCHANGED <<claimed, closing, terminal, commitStarted, running, pc, setups,
                     closed, reader, require>>
      /\ requested => requested'
    BY DEF CallbackApprove
<1>2. CASE effects' = effects /\ setupStarted' = setupStarted /\ released' = released
    <2>1. SetupInv'
        BY <1>1, <1>2 DEF IInv, SetupInv, Positions
    <2>2. CloseInv' /\ OrderInv'
        BY <1>1, <1>2 DEF IInv, CloseInv, OrderInv, CloseRuns, Finishing, Marking,
                          Positions
    <2> QED
        BY <2>1, <2>2 DEF Tokens
<1>3. CASE ApproveNow /\ Allowed /\ ~setupStarted
    <2>1. PICK x : effects' = Append(effects, x) /\ x.kind = "setup"
        BY <1>3 DEF CallbackApprove, Task
    <2>2. \A i \in Positions' : \/ i \in Positions /\ effects'[i] = effects[i]
                                \/ i = Len(effects) + 1 /\ effects'[i] = x
        BY <2>1, AppendedTask DEF IInv, TypeOK
    <2>a. /\ setupStarted' /\ (require => released')
          /\ Latches => requested'
          /\ commitStarted => commitStarted'
        BY <1>3 DEF CallbackApprove
    <2>b. require => Latches /\ commitStarted
        BY <1>3 DEF ApproveNow, Latches
    <2>3. setupStarted' /\ (require => released' /\ requested' /\ commitStarted')
        BY <2>a, <2>b, Zenon
    <2>4. /\ setups = 0 /\ running.task.kind # "setup"
          /\ \A i \in Positions : effects[i].kind # "setup"
          /\ \A u \in Threads : pc[u] # "setup"
        BY <1>3 DEF IInv, TypeOK, SetupInv
    <2>5. SetupInv'
        <3>1. \A i \in Positions' : effects'[i].kind = "setup" => i = Len(effects) + 1
            BY <2>2, <2>4
        <3>2. reader' => setupStarted'
            BY <2>3
        <3> QED
            BY <1>1, <2>3, <2>4, <3>1, <3>2 DEF SetupInv
    <2>6. CloseInv'
        BY <1>1, <2>1, <2>2 DEF IInv, CloseInv, Marking, Finishing, ClosingKinds
    <2>7. OrderInv'
        BY <1>1, <2>1, <2>2
           DEF IInv, OrderInv, CloseRuns, Finishing, ClosingKinds, Positions
    <2> QED
        BY <2>5, <2>6, <2>7 DEF Tokens
<1> QED
    BY <1>2, <1>3, Zenon DEF CallbackApprove

\* The draining thread takes the oldest task, or finds none and stops.
LEMMA TakeTokens == ASSUME IInv, EffectTake PROVE Tokens'
<1> USE ThreadNames DEF gate, fx, spine, history
<1>1. /\ UNCHANGED <<claimed, closing, terminal, requested, released, setupStarted,
                     commitStarted, reader, require, pc, setups, closed>>
      /\ running = Nothing
    BY DEF EffectTake
<1>2. CASE effects = <<>>
    BY <1>1, <1>2 DEF EffectTake, IInv, Tokens, SetupInv, CloseInv, OrderInv, CloseRuns,
                      Marking, Finishing, Positions
<1>3. CASE effects # <<>>
    <2>1. /\ running'.task = effects[1] /\ running'.stage = "take"
          /\ effects' = Tail(effects) /\ 1 \in Positions
        BY <1>3 DEF EffectTake, IInv, TypeOK, Positions
    <2>2. \A i \in Positions' : i + 1 \in Positions /\ effects'[i] = effects[i + 1]
        BY <1>3, <2>1 DEF IInv, TypeOK, Positions
    <2>3. \A i \in Positions' : i + 1 # 1 /\ i \in Nat
        BY DEF Positions
    <2>4. SetupInv'
        <3>1. effects[1].kind = "setup" =>
                \A i \in Positions' : effects'[i].kind # "setup"
            BY <2>1, <2>2, <2>3 DEF IInv, SetupInv
        <3>2. \A i, j \in Positions' :
                effects'[i].kind = "setup" /\ effects'[j].kind = "setup" => i = j
            <4> SUFFICES ASSUME NEW i \in Positions', NEW j \in Positions',
                                effects'[i].kind = "setup", effects'[j].kind = "setup"
                         PROVE  i = j
                OBVIOUS
            <4>1. i + 1 = j + 1
                BY <2>2 DEF IInv, SetupInv
            <4> QED
                BY <2>3, <4>1
        <3>3. \A i \in Positions' : effects'[i].kind = "setup" =>
                /\ setupStarted /\ setups = 0
                /\ \A t \in Threads : pc[t] # "setup"
            BY <2>2 DEF IInv, SetupInv
        <3>4. effects[1].kind = "setup" =>
                /\ setupStarted /\ setups = 0
                /\ \A t \in Threads : pc[t] # "setup"
            BY <2>1 DEF IInv, SetupInv
        <3> QED
            BY <1>1, <2>1, <3>1, <3>2, <3>3, <3>4 DEF IInv, SetupInv
    <2>5. CloseInv'
        <3>1. effects[1].kind \in ClosingKinds =>
                \A i \in Positions' : effects'[i].kind \notin ClosingKinds
            BY <2>1, <2>2, <2>3 DEF IInv, CloseInv
        <3>2. \A i, j \in Positions' :
                effects'[i].kind \in ClosingKinds /\ effects'[j].kind \in ClosingKinds
                => i = j
            <4> SUFFICES ASSUME NEW i \in Positions', NEW j \in Positions',
                                effects'[i].kind \in ClosingKinds,
                                effects'[j].kind \in ClosingKinds
                         PROVE  i = j
                OBVIOUS
            <4>1. i + 1 = j + 1
                BY <2>2 DEF IInv, CloseInv
            <4> QED
                BY <2>3, <4>1
        <3>3. \A i \in Positions' : effects'[i].kind \in ClosingKinds =>
                claimed /\ closing /\ closed = 0 /\ ~Finishing
            BY <2>2 DEF IInv, CloseInv
        <3>4. effects[1].kind \in ClosingKinds =>
                claimed /\ closing /\ closed = 0 /\ ~Finishing
            BY <2>1 DEF IInv, CloseInv
        <3>5. \A t \in Threads : Marking(t) =>
                /\ effects[1].kind \notin ClosingKinds
                /\ \A i \in Positions' : effects'[i].kind \notin ClosingKinds
            BY <2>1, <2>2 DEF IInv, CloseInv
        <3>6. /\ effects[1].kind = "finish" => terminal
              /\ \A i \in Positions' : effects'[i].kind = "finish" => terminal
            BY <2>1, <2>2 DEF IInv, CloseInv
        <3>7. Finishing' = Finishing /\ \A t \in Threads : Marking(t)' = Marking(t)
            BY <1>1 DEF Finishing, Marking
        <3> QED
            BY <1>1, <2>1, <3>1, <3>2, <3>3, <3>4, <3>5, <3>6, <3>7 DEF IInv, CloseInv
    <2>6. OrderInv'
        <3>1. \A i, j \in Positions' :
                i < j /\ effects'[i].kind \in ClosingKinds => effects'[j].kind # "report"
            BY <2>2, <2>3 DEF IInv, OrderInv
        <3>2. running'.task.kind \in ClosingKinds =>
                \A i \in Positions' : effects'[i].kind # "report"
            BY <2>1, <2>2, <2>3 DEF IInv, OrderInv, Positions
        <3>3. CloseRuns' => CloseRuns \/ running'.task.kind \in ClosingKinds
            BY <1>1, <2>2 DEF CloseRuns, Finishing
        <3> QED
            BY <2>1, <2>2, <3>1, <3>2, <3>3 DEF IInv, OrderInv, ClosingKinds
    <2> QED
        BY <2>4, <2>5, <2>6 DEF Tokens
<1> QED
    BY <1>2, <1>3

\* A callback starts; the setup token is used up.
LEMMA StartTokens == ASSUME IInv, EffectStart PROVE Tokens'
<1> USE ThreadNames DEF gate, fx, spine, history
<1>1. /\ UNCHANGED <<claimed, closing, terminal, requested, released, setupStarted,
                     commitStarted, reader, require, pc, effects, closed>>
      /\ running'.task = running.task /\ running'.stage = "callback"
      /\ \/ running.stage = "allowed" /\ running.task.kind \in {"shipID", "setup"}
         \/ running.stage = "take" /\ running.task.kind = "report"
    BY DEF EffectStart, IInv, TypeOK, RunInv
<1>2. /\ running.task.kind = "setup" => setups = 0 /\ setups' = 1
      /\ running.task.kind # "setup" => setups' = setups
    BY <1>1 DEF EffectStart, IInv, SetupInv, TypeOK
<1>3. SetupInv'
    <2>1. \A i \in Positions : effects[i].kind = "setup" => running.task.kind # "setup"
        BY DEF IInv, SetupInv
    <2>2. \A t \in Threads : pc[t] = "setup" => running.task.kind # "setup"
        BY DEF IInv, SetupInv
    <2>3. setups' <= 1 /\ (setups' = 1 => setupStarted)
        BY <1>2 DEF IInv, SetupInv
    <2> QED
        BY <1>1, <1>2, <2>1, <2>2, <2>3 DEF IInv, SetupInv, Positions
<1>4. CloseInv'
    BY <1>1 DEF IInv, CloseInv, Marking, Finishing, ClosingKinds, Positions
<1>5. ~CloseRuns'
    <2>1. ~CloseRuns
        BY <1>1 DEF IInv, OrderInv
    <2> QED
        BY <1>1, <2>1 DEF CloseRuns, Finishing, Positions
<1>6. OrderInv'
    BY <1>1, <1>5 DEF IInv, OrderInv, Positions
<1> QED
    BY <1>3, <1>4, <1>6 DEF Tokens

\* The close makes the connection terminal.
LEMMA CloseTokens == ASSUME IInv, EffectClose PROVE Tokens'
<1> USE ThreadNames DEF gate, fx, spine, history
<1>1. /\ UNCHANGED <<claimed, requested, released, setupStarted, commitStarted, reader,
                     require, pc, effects, setups, closed>>
      /\ closing' /\ terminal'
      /\ running'.task = running.task /\ running'.stage = "end"
      /\ running.task.kind = "close"
    BY DEF EffectClose, IInv, TypeOK
<1>2. SetupInv'
    BY <1>1 DEF IInv, SetupInv, Positions
<1>3. CloseInv'
    BY <1>1 DEF IInv, CloseInv, Marking, Finishing, ClosingKinds, Positions
<1>4. OrderInv'
    BY <1>1 DEF IInv, OrderInv, CloseRuns, Finishing, ClosingKinds, Positions
<1> QED
    BY <1>2, <1>3, <1>4 DEF Tokens

\* The end of the close: the hub is told, or the finisher goes on.
LEMMA CloseEndTokens == ASSUME IInv, EffectCloseEnd \/ EffectFinish PROVE Tokens'
<1> USE ThreadNames DEF gate, fx, spine, history
<1>1. /\ UNCHANGED <<claimed, closing, terminal, requested, released, setupStarted,
                     commitStarted, reader, require, effects, setups>>
      /\ running' = Nothing
      /\ running.task.kind \in ClosingKinds
    BY DEF EffectCloseEnd, EffectFinish, IInv, RunInv, ClosingKinds
<1>2. /\ Nothing.task.kind = "none" /\ Nothing.stage = "take"
    BY DEF Nothing, NoTask
<1>3. /\ claimed /\ closing /\ closed = 0 /\ ~Finishing
      /\ \A i \in Positions : effects[i].kind \notin ClosingKinds
      /\ \A t \in Threads : ~Marking(t)
      /\ terminal
    <2>1. terminal
        BY DEF EffectCloseEnd, EffectFinish, IInv, CloseInv
    <2> QED
        BY <1>1, <2>1 DEF IInv, CloseInv
<1>4. \/ closed' = closed + 1 /\ pc' = pc
      \/ closed' = closed /\ (Go("finisher", "wait") \/ Go("finisher", "grace"))
    BY DEF EffectCloseEnd, EffectFinish, FinishClose
<1>5. \A t \in Threads : \/ pc'[t] = pc[t]
                         \/ t = "finisher" /\ pc'[t] \in {"wait", "grace"} /\ closed' = closed
    BY <1>4 DEF Go, IInv, TypeOK
<1>6. SetupInv'
    BY <1>1, <1>2, <1>5 DEF IInv, SetupInv, Positions
<1>7. CloseInv'
    <2>1. \A t \in Threads : ~Marking(t)'
        BY <1>3, <1>5 DEF Marking
    <2>2. closed' <= 1 /\ (Finishing' => closed' = 0)
        BY <1>3, <1>4, <1>5 DEF Finishing
    <2>3. \A t \in Threads : pc'[t] # "enqueue"
        BY <2>1 DEF Marking
    <2> QED
        BY <1>1, <1>2, <1>3, <2>1, <2>2, <2>3 DEF CloseInv, ClosingKinds, Positions
<1>8. OrderInv'
    <2>1. \A i \in Positions : effects[i].kind # "report"
        BY <1>1 DEF IInv, OrderInv, CloseRuns
    <2> QED
        BY <1>1, <1>2, <2>1 DEF OrderInv, Positions
<1> QED
    BY <1>6, <1>7, <1>8 DEF Tokens

\* The finisher queues the rest of the close once the timer has returned.
LEMMA FinisherTokens == ASSUME IInv, FinisherEnqueue PROVE Tokens'
<1> USE ThreadNames DEF gate, fx, spine, history
<1> DEFINE x == Task("finish", "finisher")
<1>1. /\ UNCHANGED <<claimed, closing, terminal, running, setups, closed, requested,
                     released, setupStarted, commitStarted, reader, require>>
      /\ effects' = Append(effects, x)
      /\ pc["finisher"] = "wait" /\ Go("finisher", "end")
    BY DEF FinisherEnqueue, Enqueue
<1>2. x.kind = "finish"
    BY DEF Task
<1>3. \A i \in Positions' : \/ i \in Positions /\ effects'[i] = effects[i]
                            \/ i = Len(effects) + 1 /\ effects'[i] = x
    BY <1>1, AppendedTask DEF IInv, TypeOK
<1> HIDE DEF x
<1>4. \A t \in Threads : pc'[t] = IF t = "finisher" THEN "end" ELSE pc[t]
    BY <1>1 DEF Go, IInv, TypeOK
<1>5. /\ Finishing /\ ~Finishing'
      /\ claimed /\ closing /\ terminal /\ closed = 0
      /\ running.task.kind \notin ClosingKinds
      /\ \A i \in Positions : effects[i].kind \notin ClosingKinds
      /\ \A t \in Threads : ~Marking(t)
    BY <1>1, <1>4 DEF IInv, CloseInv, Finishing
<1>6. SetupInv'
    BY <1>1, <1>2, <1>3, <1>4 DEF IInv, SetupInv
<1>7. CloseInv'
    <2>1. \A t \in Threads : ~Marking(t)' /\ pc'[t] # "enqueue"
        BY <1>4, <1>5 DEF Marking
    <2>2. \A i \in Positions' : effects'[i].kind \in ClosingKinds => i = Len(effects) + 1
        BY <1>3, <1>5
    <2>3. /\ claimed' /\ closing' /\ terminal' /\ closed' = 0
          /\ running'.task.kind \notin ClosingKinds
        BY <1>1, <1>5
    <2> QED
        BY <1>5, <2>1, <2>2, <2>3 DEF CloseInv, ClosingKinds
<1>8. OrderInv'
    <2>1. CloseRuns
        BY <1>5 DEF CloseRuns
    <2>2. \A i \in Positions' : effects'[i].kind # "report"
        BY <1>2, <1>3, <2>1 DEF IInv, OrderInv
    <2> QED
        BY <1>1, <2>1, <2>2 DEF IInv, OrderInv
<1> QED
    BY <1>6, <1>7, <1>8 DEF Tokens

\* The grace period of an announced termination is over.
LEMMA GraceTokens == ASSUME IInv, GraceClose PROVE Tokens'
<1> USE ThreadNames DEF gate, fx, spine, history
<1>1. /\ UNCHANGED <<claimed, closing, terminal, running, setups, effects, requested,
                     released, setupStarted, commitStarted, reader, require>>
      /\ closed' = closed + 1
      /\ pc["finisher"] = "grace" /\ Go("finisher", "end")
    BY DEF GraceClose
<1>2. \A t \in Threads : pc'[t] = IF t = "finisher" THEN "end" ELSE pc[t]
    BY <1>1 DEF Go, IInv, TypeOK
<1>3. /\ Finishing /\ ~Finishing'
      /\ claimed /\ closing /\ terminal /\ closed = 0
      /\ running.task.kind \notin ClosingKinds
      /\ \A i \in Positions : effects[i].kind \notin ClosingKinds
      /\ \A t \in Threads : ~Marking(t)
    BY <1>1, <1>2 DEF IInv, CloseInv, Finishing
<1>4. SetupInv'
    BY <1>1, <1>2 DEF IInv, SetupInv, Positions
<1>5. CloseInv'
    <2>1. \A t \in Threads : ~Marking(t)' /\ pc'[t] # "enqueue"
        BY <1>2, <1>3 DEF Marking
    <2> QED
        BY <1>1, <1>3, <2>1 DEF CloseInv, ClosingKinds, Positions
<1>6. OrderInv'
    <2>1. CloseRuns
        BY <1>3 DEF CloseRuns
    <2> QED
        BY <1>1, <2>1 DEF IInv, OrderInv, Positions
<1> QED
    BY <1>4, <1>5, <1>6 DEF Tokens
------------------------------------------------------------------------------
\* The running effect belongs to a draining thread, in every step.
LEMMA RunStep == TypeOK /\ RunInv /\ [Next]_vars => RunInv'
<1> SUFFICES ASSUME TypeOK, RunInv, [Next]_vars PROVE RunInv'
    OBVIOUS
<1> USE ThreadNames DEF gate, fx, spine, history
<1>1. ASSUME running' = running, drainer' = drainer PROVE RunInv'
    BY <1>1 DEF RunInv
<1>2. ASSUME NEW k, NEW t \in Threads, Enqueue(k, t) PROVE RunInv'
    BY <1>2 DEF RunInv, Enqueue
<1>3. ASSUME running' = Nothing PROVE RunInv'
    BY <1>3 DEF RunInv, Nothing
<1>4. CASE Effects
    <2>1. CASE EffectTake
        BY <2>1, <1>3 DEF EffectTake, RunInv, TypeOK
    <2>2. CASE EffectCheck
        <3>1. CASE running' = [running EXCEPT !.stage = "allowed"]
            BY <2>2, <3>1 DEF EffectCheck, RunInv, TypeOK, Nothing, NoTask
        <3>2. CASE running' = Nothing
            BY <3>2, <1>3
        <3> QED
            BY <2>2, <3>1, <3>2 DEF EffectCheck, Finished
    <2>3. CASE EffectStart
        BY <2>3 DEF EffectStart, RunInv, TypeOK, Nothing, NoTask
    <2>4. CASE EffectEnd \/ EffectApproved \/ EffectCloseEnd \/ EffectFinish
        BY <2>4, <1>3 DEF EffectEnd, EffectApproved, EffectCloseEnd, EffectFinish,
                          Finished
    <2>5. CASE EffectClose
        BY <2>5 DEF EffectClose, RunInv, TypeOK, Nothing, NoTask
    <2> QED
        BY <1>4, <2>1, <2>2, <2>3, <2>4, <2>5 DEF Effects
<1>5. ASSUME NEW t \in Threads, Step(t) \/ CloseClaim(t) PROVE RunInv'
    <2>1. CASE SetupRemoteDevice(t) \/ CloseEnqueue(t)
        BY <2>1, <1>2 DEF SetupRemoteDevice, RunBlocking, CloseEnqueue
    <2>2. CASE \/ Approve(t) \/ AfterSetup(t) \/ Install(t) \/ CloseMark(t)
               \/ CloseClaim(t) \/ CloseAfterReport(t) \/ RepeatError(t) \/ RepeatEnd(t)
               \/ DispatchTake(t) \/ DispatchCheck(t) \/ DispatchCall(t)
        BY <2>2, <1>1 DEF Approve, AfterSetup, Install, CloseMark, CloseClaim,
                          CloseAfterReport, RepeatError, RepeatEnd, DispatchTake,
                          DispatchCheck, DispatchCall
    <2>3. CASE SetErrorState(t)
        BY <2>3, <1>1, <1>2 DEF SetErrorState
    <2> QED
        BY <1>5, <2>1, <2>2, <2>3 DEF Step
<1>6. CASE Reader
    <2>1. CASE ReportServiceShipID \/ PublishPairingApproved
        BY <2>1, <1>2 DEF ReportServiceShipID, PublishPairingApproved, RunBlocking
    <2>2. CASE Identified \/ Published \/ CompletePairingCommit
        BY <2>2, <1>1 DEF Identified, Published, AfterEffect, CompletePairingCommit
    <2> QED
        BY <1>6, <2>1, <2>2 DEF Reader
<1>7. CASE TimerFire \/ ConnectionError \/ FinisherEnqueue
    BY <1>7, <1>1, <1>2 DEF TimerFire, ConnectionError, FinisherEnqueue
<1>8. CASE \/ BeginPairingCommit \/ Arrive \/ CallbackApprove \/ CallbackClose
           \/ GraceClose \/ UNCHANGED vars
    BY <1>8, <1>1 DEF BeginPairingCommit, Arrive, CallbackApprove, CallbackClose,
                      GraceClose, vars
<1>9. ASSUME NEW t \in Approvers, RequestApproval(t) PROVE RunInv'
    BY <1>9, <1>1 DEF RequestApproval
<1> QED
    BY <1>4, <1>5, <1>6, <1>7, <1>8, <1>9 DEF Next

\* A step that calls nothing in the hub and leaves the repeated report alone, unless it
\* ends it.
Silent ==
    /\ after' = after
    /\ pc["socket"] \in {"repeating", "end"} => pc'["socket"] \in {"repeating", "end"}
    /\ \A t \in Threads : pc'[t] \in Repeating => t = "socket" \/ pc'[t] = pc[t]

\* So does a thread that goes to another place of its own.
LEMMA GoSilent ==
    ASSUME TypeOK, NEW t \in Threads, NEW l, Go(t, l), after' = after,
           pc[t] \notin {"repeating", "end"} \/ l = "end" \/ t = "finisher",
           l \in Repeating => t = "socket"
    PROVE  Silent
<1>1. pc'[t] = l /\ \A u \in Threads \ {t} : pc'[u] = pc[u]
    BY DEF TypeOK, Go
<1> QED
    BY <1>1, ThreadNames DEF Silent

\* And one whose call returns.
LEMMA ReturnSilent ==
    ASSUME TypeOK, NEW t \in Threads, Return(t), after' = after,
           pc[t] \notin {"repeating", "end"}
    PROVE  Silent
<1>1. PICK l \in {"approve", "idle", "repeat", "end"} : Go(t, l) /\ (l = "repeat" => t = "socket")
    BY ReturnType
<1> QED
    BY <1>1, GoSilent DEF Repeating

\* The steps of a thread outside the effect queue, the repeated report apart.
LEMMA StepSilent ==
    ASSUME TypeOK, AfterInv, NEW t \in Threads, Step(t) \/ CloseClaim(t), ~RepeatError(t)
    PROVE  Silent
<1> USE ThreadNames DEF gate, fx, spine, history
<1>1. CASE Approve(t) \/ Install(t) \/ CloseClaim(t)
    <2>1. Return(t) \/ Go(t, "setup") \/ Go(t, "dispatch") \/ Go(t, "mark")
        BY <1>1 DEF Approve, Install, CloseClaim
    <2>2. after' = after /\ pc[t] \in {"approve", "install", "claim", "idle"}
        BY <1>1 DEF Approve, Install, CloseClaim
    <2> QED
        BY <2>1, <2>2, GoSilent, ReturnSilent DEF Repeating
<1>2. CASE SetupRemoteDevice(t) \/ AfterSetup(t) \/ CloseMark(t)
    <2>1. Go(t, "ready") \/ Go(t, "install") \/ Go(t, "claim") \/ Go(t, "enqueue")
        BY <1>2 DEF SetupRemoteDevice, RunBlocking, AfterSetup, CloseMark
    <2>2. after' = after /\ pc[t] \in {"setup", "ready", "mark"}
        BY <1>2 DEF SetupRemoteDevice, RunBlocking, AfterSetup, CloseMark
    <2> QED
        BY <2>1, <2>2, GoSilent DEF Repeating
<1>3. CASE CloseEnqueue(t)
    BY <1>3, ReturnSilent DEF CloseEnqueue
<1>4. CASE CloseAfterReport(t) \/ SetErrorState(t)
    <2>1. Go(t, "claim") \/ Go(t, "reported")
        BY <1>4 DEF CloseAfterReport, SetErrorState
    <2>2. after' = after /\ pc[t] \in {"reported", "failing"}
        BY <1>4 DEF CloseAfterReport, SetErrorState
    <2> QED
        BY <2>1, <2>2, GoSilent DEF Repeating
<1>5. CASE RepeatEnd(t)
    BY <1>5, GoSilent DEF RepeatEnd, Repeating
<1>6. CASE DispatchTake(t) \/ DispatchCheck(t) \/ DispatchCall(t)
    <2>1. Return(t) \/ Go(t, "check") \/ Go(t, "call") \/ Go(t, "dispatch")
        BY <1>6 DEF DispatchTake, DispatchCheck, DispatchCall
    <2>2. after' = after /\ pc[t] \in {"dispatch", "check", "call"}
        BY <1>6 DEF DispatchTake, DispatchCheck, DispatchCall
    <2> QED
        BY <2>1, <2>2, GoSilent, ReturnSilent DEF Repeating
<1> QED
    BY <1>1, <1>2, <1>3, <1>4, <1>5, <1>6 DEF Step

\* Every step is silent but the start of a callback and the repeated report.
LEMMA SilentOrCall ==
    ASSUME TypeOK, AfterInv, [Next]_vars
    PROVE  Silent \/ EffectStart \/ \E t \in Threads : RepeatError(t)
<1> USE ThreadNames DEF gate, fx, spine, history
<1>1. ASSUME pc' = pc, after' = after PROVE Silent
    BY <1>1 DEF Silent
<1>2. CASE BeginPairingCommit \/ Reader
    <2>1. /\ after' = after
          /\ pc["reader"] \in {"idle", "identify", "identified", "publish", "published", "complete"}
          /\ \E l \in {"identify", "identified", "published", "publish", "complete", "idle",
                        "approve"} : Go("reader", l)
        BY <1>2 DEF BeginPairingCommit, Reader, ReportServiceShipID, PublishPairingApproved,
           RunBlocking, Identified, Published, AfterEffect, CompletePairingCommit
    <2> QED
        BY <2>1, GoSilent DEF Repeating
<1>3. CASE Effects
    <2>1. CASE EffectTake \/ EffectCheck \/ EffectEnd \/ EffectApproved \/ EffectClose
        BY <1>1, <2>1 DEF EffectTake, EffectCheck, EffectEnd, EffectApproved, EffectClose
    <2>2. CASE EffectCloseEnd \/ EffectFinish
        <3>1. /\ after' = after
              /\ pc' = pc \/ Go("finisher", "wait") \/ Go("finisher", "grace")
            BY <2>2 DEF EffectCloseEnd, EffectFinish, FinishClose
        <3>2. ASSUME NEW l \in {"wait", "grace"}, Go("finisher", l) PROVE Silent
            BY <3>1, <3>2, GoSilent DEF Repeating
        <3> QED
            BY <1>1, <3>1, <3>2
    <2> QED
        BY <1>3, <2>1, <2>2 DEF Effects
<1>4. CASE Arrive
    <2>1. /\ after' = after /\ pc["reader"] = "idle"
          /\ pc' = pc \/ Go("reader", "dispatch") \/ Go("reader", "claim")
        BY <1>4 DEF Arrive
    <2> QED
        BY <1>1, <2>1, GoSilent DEF Repeating
<1>5. CASE TimerFire \/ ConnectionError
    <2>1. /\ after' = after
          /\ \/ pc["timer"] = "idle" /\ Go("timer", "reported")
             \/ pc["socket"] = "idle" /\ Go("socket", "failing")
        BY <1>5 DEF TimerFire, ConnectionError
    <2> QED
        BY <2>1, GoSilent DEF Repeating
<1>6. CASE FinisherEnqueue \/ GraceClose
    <2>1. after' = after /\ Go("finisher", "end")
        BY <1>6 DEF FinisherEnqueue, GraceClose
    <2> QED
        BY <2>1, GoSilent DEF Repeating
<1>7. ASSUME NEW t \in Approvers, RequestApproval(t) PROVE Silent
    <2>1. /\ after' = after /\ t \in Threads /\ pc[t] = "idle"
          /\ Go(t, "approve") \/ Go(t, "end")
        BY <1>7 DEF RequestApproval
    <2> QED
        BY <2>1, GoSilent DEF Repeating
<1>8. CASE CallbackApprove \/ CallbackClose \/ UNCHANGED vars
    BY <1>1, <1>8 DEF CallbackApprove, CallbackClose, vars
<1>9. ASSUME NEW t \in Threads, Step(t) \/ CloseClaim(t) PROVE Silent \/ RepeatError(t)
    BY <1>9, StepSilent
<1> QED
    BY <1>2, <1>3, <1>4, <1>5, <1>6, <1>7, <1>8, <1>9 DEF Next

\* The queue starts no callback once the hub was told, and the pump repeats its report once.
LEMMA AfterStep == IInv /\ [Next]_vars => AfterInv'
<1> SUFFICES ASSUME IInv, [Next]_vars PROVE AfterInv'
    OBVIOUS
<1> USE ThreadNames DEF history
<1>0. TypeOK /\ AfterInv /\ "socket" \in Threads
    BY DEF IInv
<1>1. CASE Silent
    <2>1. after' <= IF pc'["socket"] \in {"repeating", "end"} THEN 1 ELSE 0
        BY <1>0, <1>1 DEF AfterInv, Silent, TypeOK
    <2>2. \A t \in Threads : pc'[t] \in Repeating => t = "socket"
        BY <1>0, <1>1 DEF AfterInv, Silent
    <2> QED
        BY <2>1, <2>2 DEF AfterInv
<1>2. CASE EffectStart
    <2>1. running.stage = "allowed" \/ running.task.kind = "report"
        BY <1>2 DEF EffectStart
    <2>2. ~(closed > 0)
        BY <2>1 DEF IInv, OrderInv, CloseRuns
    <2>3. after' = after /\ pc' = pc
        BY <1>0, <1>2, <2>2 DEF EffectStart, HubCalled, TypeOK
    <2> QED
        BY <1>0, <2>3 DEF AfterInv
<1>3. ASSUME NEW t \in Threads, RepeatError(t) PROVE AfterInv'
    <2>1. t = "socket" /\ pc["socket"] = "repeat" /\ after \in Nat
        BY <1>0, <1>3 DEF RepeatError, AfterInv, Repeating, TypeOK
    <2>2. after <= 0 /\ after' <= 1
        BY <1>0, <1>3, <2>1 DEF RepeatError, HubCalled, AfterInv
    <2>3. pc' = [pc EXCEPT !["socket"] = "repeating"]
        BY <1>3, <2>1 DEF RepeatError, Go
    <2>4. pc'["socket"] = "repeating" /\ \A u \in Threads \ {"socket"} : pc'[u] = pc[u]
        BY <1>0, <2>3 DEF TypeOK
    <2> QED
        BY <1>0, <2>2, <2>4 DEF AfterInv
<1> QED
    BY <1>0, <1>1, <1>2, <1>3, SilentOrCall

\* The invariant is inductive.
LEMMA StepIInv == IInv /\ [Next]_vars => IInv'
<1> SUFFICES ASSUME IInv, [Next]_vars PROVE IInv'
    OBVIOUS
<1>1. TypeOK' /\ RunInv' /\ AfterInv'
    BY TypeStep, RunStep, AfterStep DEF IInv
<1>2. CASE Ordinary
    BY <1>1, <1>2, OrdinarySetup, OrdinaryClose, OrdinaryOrder DEF IInv
<1>3. CASE Special
    BY <1>1, <1>3, ApproveTokens, SetupTokens, ClaimTokens, EnqueuedCloseTokens,
       CallbackApproveTokens, TakeTokens, StartTokens, CloseTokens, CloseEndTokens,
       FinisherTokens, GraceTokens DEF Special, Tokens, IInv
<1> QED
    BY <1>2, <1>3, OrdinaryOrSpecial DEF IInv

\* The inductive invariant holds in every reachable state.
LEMMA Invariance == Spec => []IInv
BY InitIInv, StepIInv, PTL DEF Spec

\* Every variable of the gate keeps its type, whatever the threads do.
THEOREM TypeCorrect == Spec => []TypeOK
<1>1. IInv => TypeOK
    BY DEF IInv
<1> QED
    BY <1>1, Invariance, PTL

\* The SPINE device is set up at most once, and on a connection that requires
\* approval only for a request that was made and an identity that was committed
\* (approveHandshake, ApprovePendingHandshake, handshakeAccessMethods_Request).
THEOREM SetupIsApproved == Spec => []SetupNeedsApproval
<1>1. IInv => SetupNeedsApproval
    BY DEF IInv, SetupInv, SetupNeedsApproval
<1> QED
    BY <1>1, Invariance, PTL

\* HandleConnectionClosed is called at most once, no callback of the effect queue runs at
\* that moment or later (CloseConnection, drainPairingEffects), and the hub hears nothing
\* of the connection afterwards but the error state that ReportConnectionError repeats to it
\* past the queue, once.
THEOREM CloseIsLast == Spec => []ClosedIsLast
<1>1. IInv => ClosedIsLast
    BY DEF IInv, CloseInv, OrderInv, CloseRuns, AfterInv, ClosedIsLast
<1> QED
    BY <1>1, Invariance, PTL

\* SetupRemoteDevice is never called after HandleConnectionClosed.
THEOREM SetupPrecedesClose == Spec => SetupBeforeClosed
<1>1. IInv /\ [Next]_vars => [setups' # setups => closed = 0]_vars
    <2> SUFFICES ASSUME IInv, [Next]_vars, setups' # setups PROVE closed = 0
        OBVIOUS
    <2>1. EffectStart
        <3>1. ~Ordinary
            BY DEF Ordinary
        <3>2. Special
            BY <3>1, OrdinaryOrSpecial DEF IInv
        <3> QED
            BY <3>2 DEF Special, Approve, SetupRemoteDevice, RunBlocking, CloseClaim,
               CloseMark, CloseEnqueue, EffectTake, EffectClose, EffectCloseEnd,
               EffectFinish, FinisherEnqueue, GraceClose, CallbackApprove,
               CallbackClose, gate, fx, spine, history
    <2>2. running.stage = "allowed"
        BY <2>1 DEF EffectStart, IInv, TypeOK
    <2> QED
        BY <2>2 DEF IInv, OrderInv, CloseRuns, TypeOK
<1> QED
    BY <1>1, Invariance, PTL DEF Spec, SetupBeforeClosed
------------------------------------------------------------------------------
(***************************************************************************)
(* The order of the payloads.  While the gate is open, what was delivered, *)
(* what the dispatching thread holds, what is queued and what is buffered  *)
(* are one sequence without a gap: the report of the completion, task 0,   *)
(* and the payloads that have arrived.  A closed gate cuts the sequence    *)
(* off and lets the one delivery through that was already decided on.      *)
(***************************************************************************)
Setting == {"setup", "ready", "install"}
Dispatching == {"dispatch", "check", "call"}

\* How many tasks have left the dispatch queue for good or for the thread.
Holds == \E t \in Threads : pc[t] \in {"check", "call"}
Out == Len(delivered) + (IF Holds THEN 1 ELSE 0)

\* One thread sets the connection up, one dispatches.
RoleInv ==
    /\ pc["finisher"] \in {"idle", "wait", "grace", "end"}
    /\ \A t \in Threads : pc[t] \in Dispatching => dispatcher = t
    /\ \A t, u \in Threads : pc[t] \in Setting /\ pc[u] \in Setting => t = u
    /\ \A t \in Threads : pc[t] \in Setting => ~reader
    /\ sme = "Complete" => reader
    /\ ~reader => dispatcher = "none"

\* The sequence.
StreamInv ==
    /\ \A i \in 1..Len(delivered) : delivered[i] = i - 1
    /\ \A t \in Threads : pc[t] = "call" \/ (pc[t] = "check" /\ Allowed) => hand = Len(delivered)
    /\ ~reader => delivered = <<>> /\ queue = <<>>
    /\ Allowed => \A i \in 1..Len(queue) : queue[i] = Out + i - 1
    /\ Allowed /\ reader => buffer = <<>> /\ Out + Len(queue) = arrived + 1
    /\ Allowed /\ ~reader => Len(buffer) = arrived /\ \A i \in 1..Len(buffer) : buffer[i] = i

\* What was delivered too late.
LateInv ==
    /\ late <= 1
    /\ Allowed => late = 0
    /\ \A t \in Threads : pc[t] = "call" => late = 0

DInv == IInv /\ RoleInv /\ StreamInv /\ LateInv

\* A step in which no thread comes to set up or to dispatch, or stops to.
Moves ==
    /\ \A t \in Threads : pc'[t] # pc[t] =>
          /\ pc[t] \notin Dispatching /\ pc'[t] \notin Dispatching
          /\ pc'[t] \in Setting => pc[t] \in Setting
    /\ pc'["finisher"] \in {"idle", "wait", "grace", "end"}

\* A step that leaves the payloads alone.
Bystanding ==
    /\ UNCHANGED <<spine, delivered, late>>
    /\ Allowed' => Allowed
    /\ sme' = "Complete" => sme = "Complete"
    /\ Moves

\* A thread goes to a place that has nothing to do with the payloads.
LEMMA GoMoves ==
    ASSUME TypeOK, RoleInv, NEW t \in Threads, NEW l, Go(t, l),
           pc[t] \notin Dispatching, l \notin Dispatching, l \in Setting => pc[t] \in Setting,
           t = "finisher" => l \in {"idle", "wait", "grace", "end"}
    PROVE  Moves
BY ThreadNames DEF TypeOK, RoleInv, Go, Moves

\* So does one whose call returns.
LEMMA ReturnMoves ==
    ASSUME TypeOK, RoleInv, NEW t \in Threads, Return(t), pc[t] \notin Dispatching,
           t # "finisher"
    PROVE  Moves
<1>1. PICK l \in {"approve", "idle", "repeat", "end"} : Go(t, l)
    BY ReturnType
<1> QED
    BY <1>1, GoMoves DEF Setting, Dispatching

\* The payloads do not notice such a step.
LEMMA BystandingKeeps ==
    ASSUME DInv, Bystanding
    PROVE  RoleInv' /\ StreamInv' /\ LateInv'
<1> USE DEF spine
<1>1. RoleInv'
    BY DEF DInv, RoleInv, Bystanding, Moves
<1>2. \A t \in Threads : \A l \in {"check", "call"} : pc'[t] = l <=> pc[t] = l
    BY DEF Bystanding, Moves, Dispatching
<1>3. Out' = Out
    BY <1>2 DEF Out, Holds, Bystanding
<1>4. StreamInv'
    BY <1>2, <1>3 DEF DInv, StreamInv, Bystanding
<1>5. LateInv'
    BY <1>2 DEF DInv, LateInv, Bystanding
<1> QED
    BY <1>1, <1>4, <1>5

\* The steps that concern the payloads.
Dispatches ==
    \/ \E t \in Threads :
          \/ Approve(t) /\ MayApprove
          \/ Install(t) /\ Allowed
          \/ DispatchTake(t) \/ DispatchCheck(t) \/ DispatchCall(t)
    \/ Arrive \/ EffectClose

\* The steps of a thread outside the effect queue.
LEMMA StepBystands ==
    ASSUME IInv, RoleInv, NEW t \in Threads, Step(t) \/ CloseClaim(t)
    PROVE  Bystanding \/ Dispatches
<1> USE ThreadNames DEF gate, fx, spine, history
<1>0. TypeOK
    BY DEF IInv
<1>1. CASE Approve(t)
  <2>1. CASE ~MayApprove
    <3>1. Return(t) /\ pc[t] = "approve" /\ t # "finisher"
        BY <1>1, <2>1 DEF Approve, RoleInv
    <3>2. Moves
        BY <1>0, <3>1, ReturnMoves DEF Dispatching
    <3> QED
        BY <1>1, <2>1, <3>2 DEF Approve, Bystanding, Allowed
  <2> QED
      BY <1>1, <2>1 DEF Dispatches
<1>2. CASE SetupRemoteDevice(t)
  <2>1. Go(t, "ready") /\ pc[t] = "setup" /\ t # "finisher"
      BY <1>2 DEF SetupRemoteDevice, RunBlocking, RoleInv
  <2>2. Moves
      BY <1>0, <2>1, GoMoves DEF Dispatching, Setting
  <2> QED
      BY <1>2, <2>2 DEF SetupRemoteDevice, RunBlocking, Bystanding, Allowed
<1>3. CASE AfterSetup(t)
  <2>1. (Go(t, "install") \/ Go(t, "claim")) /\ pc[t] = "ready" /\ t # "finisher"
      BY <1>3 DEF AfterSetup, RoleInv
  <2>2. Moves
      BY <1>0, <2>1, GoMoves DEF Dispatching, Setting
  <2> QED
      BY <1>3, <2>2 DEF AfterSetup, Bystanding, Allowed
<1>4. CASE Install(t)
  <2>1. CASE ~Allowed
    <3>1. Return(t) /\ pc[t] = "install" /\ t # "finisher"
        BY <1>4, <2>1 DEF Install, RoleInv
    <3>2. Moves
        BY <1>0, <3>1, ReturnMoves DEF Dispatching
    <3> QED
        BY <1>4, <2>1, <3>2 DEF Install, Bystanding, Allowed
  <2> QED
      BY <1>4, <2>1 DEF Dispatches
<1>5. CASE CloseMark(t)
  <2>1. Go(t, "enqueue") /\ pc[t] = "mark" /\ t # "finisher"
      BY <1>5 DEF CloseMark, RoleInv
  <2>2. Moves
      BY <1>0, <2>1, GoMoves DEF Dispatching, Setting
  <2> QED
      BY <1>5, <2>2 DEF CloseMark, Bystanding, Allowed
<1>6. CASE CloseEnqueue(t)
  <2>1. Return(t) /\ pc[t] = "enqueue" /\ t # "finisher"
      BY <1>6 DEF CloseEnqueue, RoleInv
  <2>2. Moves
      BY <1>0, <2>1, ReturnMoves DEF Dispatching
  <2> QED
      BY <1>6, <2>2 DEF CloseEnqueue, Bystanding, Allowed
<1>7. CASE CloseClaim(t)
  <2>1. (Return(t) \/ Go(t, "mark")) /\ pc[t] \in {"claim", "idle"} /\ t # "finisher"
      BY <1>7, ThreadAssumption DEF CloseClaim, RoleInv
  <2>2. Moves
      BY <1>0, <2>1, GoMoves, ReturnMoves DEF Dispatching, Setting
  <2> QED
      BY <1>7, <2>2 DEF CloseClaim, Bystanding, Allowed
<1>8. CASE CloseAfterReport(t)
  <2>1. Go(t, "claim") /\ pc[t] = "reported" /\ t # "finisher"
      BY <1>8 DEF CloseAfterReport, RoleInv
  <2>2. Moves
      BY <1>0, <2>1, GoMoves DEF Dispatching, Setting
  <2> QED
      BY <1>8, <2>2 DEF CloseAfterReport, Bystanding, Allowed
<1>9. CASE DispatchTake(t) \/ DispatchCheck(t) \/ DispatchCall(t)
    BY <1>9 DEF Dispatches
<1>10. CASE SetErrorState(t)
  <2>1. Go(t, "reported") /\ pc[t] = "failing" /\ t # "finisher"
      BY <1>10 DEF SetErrorState, RoleInv
  <2>2. Moves
      BY <1>0, <2>1, GoMoves DEF Dispatching, Setting
  <2> QED
      BY <1>10, <2>2 DEF SetErrorState, Bystanding, Allowed
<1>11. CASE RepeatError(t) \/ RepeatEnd(t)
  <2>1. (Go(t, "repeating") \/ Go(t, "end")) /\ pc[t] \in {"repeat", "repeating"} /\ t # "finisher"
      BY <1>11 DEF RepeatError, RepeatEnd, RoleInv
  <2>2. Moves
      BY <1>0, <2>1, GoMoves DEF Dispatching, Setting
  <2> QED
      BY <1>11, <2>2 DEF RepeatError, RepeatEnd, Bystanding, Allowed
<1> QED
    BY <1>1, <1>2, <1>3, <1>4, <1>5, <1>6, <1>7, <1>8, <1>9, <1>10, <1>11 DEF Step

\* The steps of the effect queue.
LEMMA EffectBystands ==
    ASSUME IInv, RoleInv, Effects \/ CallbackApprove \/ CallbackClose
    PROVE  Bystanding \/ Dispatches
<1> USE ThreadNames DEF gate, fx, spine, history
<1>0. TypeOK
    BY DEF IInv
<1>1. ASSUME pc' = pc PROVE Moves
    BY <1>1 DEF Moves, RoleInv
<1>2. ASSUME Go("finisher", "wait") \/ Go("finisher", "grace") PROVE Moves
    BY <1>0, <1>2, GoMoves DEF RoleInv, Dispatching, Setting
<1>3. CASE EffectTake \/ EffectCheck \/ EffectStart \/ EffectEnd
    BY <1>1, <1>3 DEF EffectTake, EffectCheck, EffectStart, EffectEnd, Bystanding, Allowed
<1>4. CASE EffectApproved
    BY <1>1, <1>4 DEF EffectApproved, Bystanding, Allowed
<1>5. CASE EffectCloseEnd \/ EffectFinish
    BY <1>1, <1>2, <1>5 DEF EffectCloseEnd, EffectFinish, FinishClose, Bystanding, Allowed
<1>6. CASE CallbackApprove \/ CallbackClose
    BY <1>1, <1>6 DEF CallbackApprove, CallbackClose, Bystanding, Allowed
<1>7. CASE EffectClose
    BY <1>7 DEF Dispatches
<1> QED
    BY <1>3, <1>4, <1>5, <1>6, <1>7 DEF Effects

\* Every step concerns the payloads or leaves them alone.
LEMMA BystandsOrDispatches ==
    ASSUME IInv, RoleInv, [Next]_vars
    PROVE  Bystanding \/ Dispatches
<1> USE ThreadNames DEF gate, fx, spine, history
<1>0. TypeOK
    BY DEF IInv
<1>1. CASE Arrive
    BY <1>1 DEF Dispatches
<1>2. CASE BeginPairingCommit
  <2>1. pc["reader"] = "idle" /\ (Go("reader", "publish") \/ Go("reader", "identify"))
      BY <1>2 DEF BeginPairingCommit
  <2>2. Moves
      BY <1>0, <2>1, GoMoves DEF Dispatching, Setting
  <2> QED
      BY <1>2, <2>2 DEF BeginPairingCommit, Bystanding, Allowed
<1>3. CASE Reader
  <2>1. /\ pc["reader"] \notin Dispatching
        /\ \E l \in {"identified", "published", "publish", "complete", "idle", "approve"} :
              Go("reader", l)
      BY <1>3 DEF Reader, ReportServiceShipID, PublishPairingApproved, RunBlocking, Identified,
         Published, AfterEffect, CompletePairingCommit, Dispatching
  <2>2. Moves
      BY <1>0, <2>1, GoMoves DEF Dispatching, Setting
  <2> QED
      BY <1>3, <2>2 DEF Reader, ReportServiceShipID, PublishPairingApproved, RunBlocking,
         Identified, Published, AfterEffect, CompletePairingCommit, Bystanding, Allowed
<1>4. CASE TimerFire \/ ConnectionError
  <2>1. \/ pc["timer"] = "idle" /\ Go("timer", "reported")
        \/ pc["socket"] = "idle" /\ Go("socket", "failing")
      BY <1>4 DEF TimerFire, ConnectionError
  <2>2. Moves
      BY <1>0, <2>1, GoMoves DEF Dispatching, Setting
  <2> QED
      BY <1>4, <2>2 DEF TimerFire, ConnectionError, Bystanding, Allowed
<1>5. CASE FinisherEnqueue \/ GraceClose
  <2>1. pc["finisher"] \in {"wait", "grace"} /\ Go("finisher", "end")
      BY <1>5 DEF FinisherEnqueue, GraceClose
  <2>2. Moves
      BY <1>0, <2>1, GoMoves DEF Dispatching, Setting
  <2> QED
      BY <1>5, <2>2 DEF FinisherEnqueue, GraceClose, Bystanding, Allowed
<1>6. ASSUME NEW t \in Approvers, RequestApproval(t) PROVE Bystanding
  <2>1. /\ pc[t] = "idle" /\ t \in Threads /\ t # "finisher"
        /\ Go(t, "approve") \/ Go(t, "end")
      BY <1>6, ThreadAssumption DEF RequestApproval
  <2>2. Moves
      BY <1>0, <2>1, GoMoves DEF Dispatching, Setting
  <2> QED
      BY <1>6, <2>2 DEF RequestApproval, Bystanding, Allowed
<1>7. CASE UNCHANGED vars
    BY <1>7 DEF vars, Bystanding, Moves, RoleInv, Allowed
<1> QED
    BY <1>1, <1>2, <1>3, <1>4, <1>5, <1>6, <1>7, StepBystands, EffectBystands DEF Next

\* The thread that dispatches is the only one.
LEMMA OneDispatcher ==
    ASSUME RoleInv, NEW t \in Threads, pc[t] \in Dispatching
    PROVE  /\ dispatcher = t
           /\ \A u \in Threads \ {t} : pc[u] \notin Dispatching
BY DEF RoleInv

\* The right to set up is won once, on a connection without a reader.
LEMMA ApproveStream ==
    ASSUME DInv, NEW t \in Threads, Approve(t), MayApprove
    PROVE  RoleInv' /\ StreamInv' /\ LateInv'
<1> USE ThreadNames DEF gate, fx, spine, history
<1>1. /\ pc[t] = "approve" /\ Go(t, "setup") /\ UNCHANGED <<spine, delivered, late, sme>>
      /\ Allowed' = Allowed
    BY DEF Approve, Allowed
<1>2. ~reader /\ \A u \in Threads : pc[u] \notin Setting
    BY DEF MayApprove, DInv, IInv, SetupInv, Setting
<1>3. pc'[t] = "setup" /\ \A u \in Threads \ {t} : pc'[u] = pc[u]
    BY <1>1 DEF DInv, IInv, TypeOK, Go
<1>4. t # "finisher"
    BY <1>1 DEF DInv, RoleInv
<1>5. RoleInv'
    BY <1>1, <1>2, <1>3, <1>4 DEF DInv, RoleInv, Setting, Dispatching
<1>6. \A u \in Threads : \A l \in {"check", "call"} : pc'[u] = l <=> pc[u] = l
    BY <1>1, <1>3
<1>7. Out' = Out
    BY <1>1, <1>6 DEF Out, Holds
<1>8. StreamInv'
    BY <1>1, <1>6, <1>7 DEF DInv, StreamInv
<1>9. LateInv'
    BY <1>1, <1>6 DEF DInv, LateInv
<1> QED
    BY <1>5, <1>8, <1>9

\* Task 0 and the buffered payloads, one after the other.
LEMMA Released ==
    ASSUME NEW b \in Seq(Nat), NEW s, s = <<>> \o << 0 >> \o b
    PROVE  /\ s \in Seq(Nat) /\ Len(s) = Len(b) + 1
           /\ \A i \in 1..Len(s) : s[i] = IF i = 1 THEN 0 ELSE b[i - 1]
<1>1. <<>> \o << 0 >> = << 0 >>
    OBVIOUS
<1>2. s = << 0 >> \o b
    BY <1>1
<1> QED
    BY <1>2

\* The reader is installed: the report of the completion, then what was buffered.
LEMMA InstallStream ==
    ASSUME DInv, NEW t \in Threads, Install(t), Allowed
    PROVE  RoleInv' /\ StreamInv' /\ LateInv'
<1> USE ThreadNames DEF gate, fx, spine, history
<1>1. /\ pc[t] = "install" /\ ~reader /\ sme # "Complete" /\ dispatcher = "none"
      /\ delivered = <<>> /\ queue = <<>>
    BY DEF Install, DInv, RoleInv, StreamInv, Setting
<1>2. /\ sme' = "Complete" /\ reader' = TRUE /\ buffer' = <<>> /\ queue' = <<>> \o << 0 >> \o buffer
      /\ dispatcher' = t /\ Go(t, "dispatch") /\ UNCHANGED <<delivered, late, hand, arrived>>
      /\ Allowed' = Allowed
    BY <1>1 DEF Install, Allowed
<1>3. pc'[t] = "dispatch" /\ \A u \in Threads \ {t} : pc'[u] = pc[u]
    BY <1>2 DEF DInv, IInv, TypeOK, Go
<1>4. \A u \in Threads : pc[u] \notin Dispatching
    BY <1>1 DEF DInv, RoleInv
<1>5. RoleInv'
    BY <1>1, <1>2, <1>3, <1>4 DEF DInv, RoleInv, Setting, Dispatching
<1>6. \A u \in Threads : pc'[u] \notin {"check", "call"}
    BY <1>3, <1>4 DEF Dispatching
<1>7. Out' = 0
    BY <1>1, <1>2, <1>6 DEF Out, Holds
<1>8. /\ Len(buffer) = arrived /\ \A i \in 1..Len(buffer) : buffer[i] = i
      /\ buffer \in Seq(Nat) /\ arrived \in Nat
    BY <1>1 DEF DInv, IInv, TypeOK, StreamInv
<1>9. /\ Len(queue') = arrived + 1
      /\ \A i \in 1..Len(queue') : queue'[i] = i - 1
    BY <1>2, <1>8, Released
<1>10. StreamInv'
    BY <1>1, <1>2, <1>6, <1>7, <1>8, <1>9 DEF StreamInv
<1>11. LateInv'
    BY <1>2, <1>6 DEF DInv, LateInv
<1> QED
    BY <1>5, <1>10, <1>11

\* The next task goes to the end of a queue without a gap.
LEMMA Continued ==
    ASSUME NEW s \in Seq(Nat), NEW n \in Nat, NEW next \in Nat, n + Len(s) = next,
           \A i \in 1..Len(s) : s[i] = n + i - 1, NEW u, u = Append(s, next)
    PROVE  n + Len(u) = next + 1 /\ \A i \in 1..Len(u) : u[i] = n + i - 1
<1>1. Len(u) = Len(s) + 1
    OBVIOUS
<1>2. \A i \in 1..Len(s) : u[i] = s[i]
    OBVIOUS
<1>3. u[Len(s) + 1] = next
    OBVIOUS
<1> QED
    BY <1>1, <1>2, <1>3

\* The tasks that have left the queue are counted.
LEMMA OutCounts ==
    ASSUME TypeOK
    PROVE  Out \in Nat /\ Out = IF Holds THEN Len(delivered) + 1 ELSE Len(delivered)
<1>1. Len(delivered) \in Nat
    BY DEF TypeOK
<1>2. CASE Holds
    BY <1>1, <1>2 DEF Out
<1>3. CASE ~Holds
    BY <1>1, <1>3 DEF Out
<1> QED
    BY <1>2, <1>3

\* A payload goes to the end of the queue or of the buffer.
LEMMA ArriveStream ==
    ASSUME DInv, Arrive
    PROVE  RoleInv' /\ StreamInv' /\ LateInv'
<1> USE ThreadNames DEF gate, fx, spine, history
<1>0. TypeOK /\ arrived \in Nat /\ queue \in Seq(Nat) /\ buffer \in Seq(Nat)
      /\ pc["reader"] = "idle" /\ delivered \in Seq(Nat)
    BY DEF DInv, IInv, TypeOK, Arrive
<1>1. UNCHANGED <<closing, sme, reader, hand, delivered, late>> /\ arrived' = arrived + 1
    BY DEF Arrive
<1>2. CASE ~Allowed \/ (~reader /\ Overflow)
  <2>1. ~Allowed' /\ UNCHANGED <<buffer, queue, dispatcher>>
      BY <1>1, <1>2 DEF Arrive, Allowed
  <2>2. pc' = pc \/ Go("reader", "claim")
      BY <1>2 DEF Arrive
  <2>3. Moves
      BY <1>0, <2>2, GoMoves DEF Moves, DInv, RoleInv, Dispatching, Setting
  <2>4. \A t \in Threads : \A l \in {"check", "call"} : pc'[t] = l <=> pc[t] = l
      BY <2>3 DEF Moves, Dispatching
  <2>5. RoleInv'
      BY <1>1, <2>1, <2>3 DEF DInv, RoleInv, Moves
  <2>6. StreamInv' /\ LateInv'
      BY <1>1, <2>1, <2>4 DEF DInv, StreamInv, LateInv
  <2> QED
      BY <2>5, <2>6
<1>3. CASE Allowed /\ reader
  <2>1. /\ queue' = Append(queue, arrived + 1) /\ UNCHANGED <<terminal, buffer>> /\ Allowed' = Allowed
        /\ IF dispatcher = "none" THEN dispatcher' = "reader" /\ Go("reader", "dispatch")
                                  ELSE UNCHANGED <<dispatcher, pc>>
      BY <1>1, <1>3 DEF Arrive, Allowed
  <2>2. pc' = pc \/ (pc'["reader"] = "dispatch" /\ \A u \in Threads \ {"reader"} : pc'[u] = pc[u])
      BY <1>0, <2>1 DEF TypeOK, Go
  <2>3. \A t \in Threads : \A l \in {"check", "call"} : pc'[t] = l <=> pc[t] = l
      BY <1>0, <2>2
  <2>4. RoleInv'
    <3>1. CASE dispatcher = "none"
      <4>1. dispatcher' = "reader" /\ pc'["reader"] = "dispatch"
            /\ \A u \in Threads \ {"reader"} : pc'[u] = pc[u]
          BY <1>0, <2>1, <3>1 DEF TypeOK, Go
      <4>2. \A u \in Threads : pc[u] \notin Dispatching
          BY <3>1 DEF DInv, RoleInv
      <4> QED
          BY <1>1, <1>3, <4>1, <4>2 DEF DInv, RoleInv, Dispatching, Setting
    <3>2. CASE dispatcher # "none"
        BY <1>1, <2>1, <3>2 DEF DInv, RoleInv
    <3> QED
        BY <3>1, <3>2
  <2>5. Out' = Out /\ Out \in Nat
      BY <1>0, <1>1, <2>3, OutCounts DEF Out, Holds
  <2>6. Out + Len(queue) = arrived + 1 /\ buffer = <<>>
        /\ \A i \in 1..Len(queue) : queue[i] = Out + i - 1
      BY <1>3 DEF DInv, StreamInv
  <2>7. arrived + 1 \in Nat
      BY <1>0
  <2>8. /\ Out + Len(queue') = arrived' + 1
        /\ \A i \in 1..Len(queue') : queue'[i] = Out + i - 1
      BY <1>0, <1>1, <2>1, <2>5, <2>6, <2>7, Continued
  <2>9. StreamInv'
      BY <1>1, <1>3, <2>1, <2>3, <2>5, <2>6, <2>8 DEF DInv, StreamInv
  <2>10. LateInv'
      BY <1>1, <2>1, <2>3 DEF DInv, LateInv
  <2> QED
      BY <2>4, <2>9, <2>10
<1>4. CASE Allowed /\ ~reader /\ ~Overflow
  <2>1. /\ buffer' = Append(buffer, arrived + 1) /\ UNCHANGED <<terminal, queue, dispatcher, pc>>
        /\ Allowed' = Allowed
      BY <1>1, <1>4 DEF Arrive, Allowed
  <2>2. RoleInv' /\ LateInv'
      BY <1>1, <2>1 DEF DInv, RoleInv, LateInv
  <2>3. Len(buffer) = arrived /\ \A i \in 1..Len(buffer) : buffer[i] = i
      BY <1>4 DEF DInv, StreamInv
  <2>4. Len(buffer') = arrived' /\ \A i \in 1..Len(buffer') : buffer'[i] = i
      BY <1>0, <1>1, <2>1, <2>3
  <2>5. Out' = Out
      BY <1>1, <2>1 DEF Out, Holds
  <2>6. StreamInv'
      BY <1>1, <1>4, <2>1, <2>4, <2>5 DEF DInv, StreamInv
  <2> QED
      BY <2>2, <2>6
<1> QED
    BY <1>2, <1>3, <1>4

\* The queue without its head.
LEMMA Shortened ==
    ASSUME NEW s \in Seq(Nat), s # <<>>
    PROVE  /\ Head(s) = s[1] /\ Len(s) \in Nat \ {0} /\ Len(Tail(s)) = Len(s) - 1
           /\ Tail(s) \in Seq(Nat) /\ \A i \in 1..Len(Tail(s)) : Tail(s)[i] = s[i + 1]
OBVIOUS

\* The rest of a queue without a gap has none.
LEMMA Remainder ==
    ASSUME NEW s \in Seq(Nat), s # <<>>, NEW n \in Nat, \A i \in 1..Len(s) : s[i] = n + i - 1
    PROVE  /\ Head(s) = n
           /\ (n + 1) + Len(Tail(s)) = n + Len(s)
           /\ \A i \in 1..Len(Tail(s)) : Tail(s)[i] = (n + 1) + i - 1
<1>1. /\ Head(s) = s[1] /\ Len(s) \in Nat \ {0} /\ Len(Tail(s)) = Len(s) - 1
      /\ \A i \in 1..Len(Tail(s)) : Tail(s)[i] = s[i + 1]
    BY Shortened
<1> QED
    BY <1>1

\* The dispatching thread takes the next task, or stops.
LEMMA TakeStream ==
    ASSUME DInv, NEW t \in Threads, DispatchTake(t)
    PROVE  RoleInv' /\ StreamInv' /\ LateInv'
<1> USE ThreadNames DEF gate, fx, spine, history
<1>0. /\ TypeOK /\ queue \in Seq(Nat) /\ pc[t] = "dispatch" /\ t # "finisher" /\ dispatcher = t
      /\ \A u \in Threads \ {t} : pc[u] \notin Dispatching
    BY OneDispatcher DEF DInv, IInv, TypeOK, DispatchTake, RoleInv, Dispatching
<1>1. /\ UNCHANGED <<sme, reader, buffer, arrived, delivered, late>> /\ Allowed' = Allowed
      /\ reader
    BY <1>0 DEF DispatchTake, Allowed, DInv, RoleInv
<1>2. \A u \in Threads : pc[u] \notin {"check", "call"}
    BY <1>0 DEF Dispatching
<1>3. Out = Len(delivered) /\ Out \in Nat
    BY <1>0, <1>2, OutCounts DEF Holds
<1>4. CASE queue = <<>>
  <2>1. dispatcher' = "none" /\ UNCHANGED <<queue, hand>> /\ Return(t)
      BY <1>4 DEF DispatchTake
  <2>2. PICK l \in {"approve", "idle", "repeat", "end"} : Go(t, l)
      BY <1>0, <2>1, ReturnType
  <2>3. pc'[t] = l /\ \A u \in Threads \ {t} : pc'[u] = pc[u]
      BY <1>0, <2>2 DEF TypeOK, Go
  <2>4. \A u \in Threads : pc'[u] \notin Dispatching
      BY <1>0, <2>3 DEF Dispatching
  <2>5. RoleInv'
      BY <1>0, <1>1, <2>1, <2>3, <2>4 DEF DInv, RoleInv, Setting
  <2>6. \A u \in Threads : pc'[u] \notin {"check", "call"}
      BY <2>4 DEF Dispatching
  <2>7. Out' = Out
      BY <1>1, <1>2, <2>6 DEF Out, Holds
  <2>8. StreamInv'
      BY <1>1, <2>1, <2>6, <2>7 DEF DInv, StreamInv
  <2>9. LateInv'
      BY <1>1, <2>6 DEF DInv, LateInv
  <2> QED
      BY <2>5, <2>8, <2>9
<1>5. CASE queue # <<>>
  <2>1. hand' = Head(queue) /\ queue' = Tail(queue) /\ dispatcher' = t /\ Go(t, "check")
      BY <1>0, <1>5 DEF DispatchTake
  <2>2. pc'[t] = "check" /\ \A u \in Threads \ {t} : pc'[u] = pc[u]
      BY <1>0, <2>1 DEF TypeOK, Go
  <2>3. RoleInv'
      BY <1>0, <1>1, <2>1, <2>2 DEF DInv, RoleInv, Setting, Dispatching
  <2>4. Holds' /\ \A u \in Threads : pc'[u] # "call" /\ (pc'[u] = "check" => u = t)
      BY <1>0, <2>2 DEF Holds, Dispatching
  <2>5. Out' = Out + 1
      BY <1>1, <1>3, <2>4 DEF Out
  <2>6. ASSUME Allowed
        PROVE  /\ hand' = Len(delivered)
               /\ Out' + Len(queue') = arrived + 1
               /\ \A i \in 1..Len(queue') : queue'[i] = Out' + i - 1
    <3>1. Out + Len(queue) = arrived + 1 /\ \A i \in 1..Len(queue) : queue[i] = Out + i - 1
        BY <1>1, <2>6 DEF DInv, StreamInv
    <3>2. /\ Head(queue) = Out
          /\ (Out + 1) + Len(Tail(queue)) = Out + Len(queue)
          /\ \A i \in 1..Len(Tail(queue)) : Tail(queue)[i] = (Out + 1) + i - 1
        BY <1>0, <1>3, <1>5, <3>1, Remainder
    <3> QED
        BY <1>3, <2>1, <2>5, <3>1, <3>2
  <2>7. StreamInv'
      BY <1>1, <2>4, <2>6 DEF DInv, StreamInv
  <2>8. LateInv'
      BY <1>1, <2>4 DEF DInv, LateInv
  <2> QED
      BY <2>3, <2>7, <2>8
<1> QED
    BY <1>4, <1>5

\* It asks whether the connection has ended, and drops the task if it has.
LEMMA CheckStream ==
    ASSUME DInv, NEW t \in Threads, DispatchCheck(t)
    PROVE  RoleInv' /\ StreamInv' /\ LateInv'
<1> USE ThreadNames DEF gate, fx, spine, history
<1>0. /\ pc[t] = "check" /\ t # "finisher" /\ dispatcher = t
      /\ \A u \in Threads \ {t} : pc[u] \notin Dispatching
    BY OneDispatcher DEF DInv, DispatchCheck, RoleInv, Dispatching
<1>1. UNCHANGED <<sme, spine, delivered, late>> /\ Allowed' = Allowed
    BY DEF DispatchCheck, Allowed
<1>2. /\ pc'[t] = IF Allowed THEN "call" ELSE "dispatch"
      /\ \A u \in Threads \ {t} : pc'[u] = pc[u]
    BY DEF DInv, IInv, TypeOK, DispatchCheck, Go
<1>3. RoleInv'
    BY <1>0, <1>1, <1>2 DEF DInv, RoleInv, Setting, Dispatching
<1>4. CASE Allowed
  <2>1. Holds /\ Holds'
      BY <1>0, <1>2, <1>4 DEF Holds
  <2>2. Out' = Out
      BY <1>1, <2>1 DEF Out
  <2>3. \A u \in Threads : pc'[u] \in {"check", "call"} => u = t
      BY <1>0, <1>2 DEF Dispatching
  <2>4. hand' = Len(delivered') /\ late' = 0
      BY <1>0, <1>1, <1>4 DEF DInv, StreamInv, LateInv
  <2>5. StreamInv'
      BY <1>1, <2>2, <2>3, <2>4 DEF DInv, StreamInv
  <2>6. LateInv'
      BY <2>4 DEF LateInv
  <2> QED
      BY <1>3, <2>5, <2>6
<1>5. CASE ~Allowed
  <2>1. \A u \in Threads : pc'[u] \notin {"check", "call"}
      BY <1>0, <1>2, <1>5 DEF Dispatching
  <2>2. StreamInv' /\ LateInv'
      BY <1>1, <1>5, <2>1 DEF DInv, StreamInv, LateInv
  <2> QED
      BY <1>3, <2>2
<1> QED
    BY <1>4, <1>5

\* The task is delivered, one at most after the connection has ended.
LEMMA CallStream ==
    ASSUME DInv, NEW t \in Threads, DispatchCall(t)
    PROVE  RoleInv' /\ StreamInv' /\ LateInv'
<1> USE ThreadNames DEF gate, fx, spine, history
<1>0. /\ TypeOK /\ delivered \in Seq(Nat) /\ pc[t] = "call" /\ t # "finisher" /\ dispatcher = t
      /\ \A u \in Threads \ {t} : pc[u] \notin Dispatching
    BY OneDispatcher DEF DInv, IInv, TypeOK, DispatchCall, RoleInv, Dispatching
<1>1. /\ UNCHANGED <<sme, spine>> /\ Allowed' = Allowed /\ delivered' = Append(delivered, hand)
      /\ late' = late + (IF Allowed THEN 0 ELSE 1)
    BY DEF DispatchCall, Allowed
<1>2. pc'[t] = "dispatch" /\ \A u \in Threads \ {t} : pc'[u] = pc[u]
    BY <1>0 DEF TypeOK, DispatchCall, Go
<1>3. RoleInv'
    BY <1>0, <1>1, <1>2 DEF DInv, RoleInv, Setting, Dispatching
<1>4. Holds /\ \A u \in Threads : pc'[u] \notin {"check", "call"}
    BY <1>0, <1>2 DEF Holds, Dispatching
<1>5. hand = Len(delivered) /\ late = 0 /\ reader
    BY <1>0 DEF DInv, StreamInv, LateInv, RoleInv
<1>6. /\ Len(delivered') = Len(delivered) + 1
      /\ \A i \in 1..Len(delivered') : delivered'[i] = i - 1
  <2>1. 0 + Len(delivered) = Len(delivered) /\ Len(delivered) \in Nat
      BY <1>0
  <2>2. \A i \in 1..Len(delivered) : delivered[i] = 0 + i - 1
      BY DEF DInv, StreamInv
  <2>3. /\ 0 + Len(delivered') = Len(delivered) + 1
        /\ \A i \in 1..Len(delivered') : delivered'[i] = 0 + i - 1
      BY <1>0, <1>1, <1>5, <2>1, <2>2, Continued
  <2>4. Len(delivered') \in Nat
      BY <1>0, <1>1
  <2> QED
      BY <2>3, <2>4
<1>7. Out' = Out
    BY <1>0, <1>4, <1>6, OutCounts DEF Out, Holds
<1>8. StreamInv'
    BY <1>1, <1>4, <1>5, <1>6, <1>7 DEF DInv, StreamInv
<1>9. late' = IF Allowed THEN 0 ELSE 1
    BY <1>1, <1>5
<1>10. LateInv'
    BY <1>1, <1>4, <1>9 DEF LateInv
<1> QED
    BY <1>3, <1>8, <1>10

\* The close clears the queue and the buffer behind a gate it has closed.
LEMMA CloseStream ==
    ASSUME DInv, EffectClose
    PROVE  RoleInv' /\ StreamInv' /\ LateInv'
<1>1. /\ ~Allowed' /\ queue' = <<>>
      /\ UNCHANGED <<pc, sme, reader, dispatcher, hand, delivered, late>>
    BY DEF EffectClose, Allowed, history
<1>2. RoleInv'
    BY <1>1 DEF DInv, RoleInv
<1>3. StreamInv' /\ LateInv'
    BY <1>1 DEF DInv, StreamInv, LateInv
<1> QED
    BY <1>2, <1>3

\* The invariant holds at first: no reader, no payload.
LEMMA InitDInv == Init => DInv
<1> SUFFICES ASSUME Init PROVE DInv
    OBVIOUS
<1>1. RoleInv
    BY ThreadNames DEF Init, RoleInv, Dispatching, Setting
<1>2. StreamInv /\ LateInv
    BY DEF Init, StreamInv, LateInv
<1> QED
    BY <1>1, <1>2, InitIInv DEF DInv

\* It is inductive.
LEMMA StepDInv == DInv /\ [Next]_vars => DInv'
<1> SUFFICES ASSUME DInv, [Next]_vars PROVE DInv'
    OBVIOUS
<1>1. IInv'
    BY StepIInv DEF DInv
<1>2. Bystanding \/ Dispatches
    BY BystandsOrDispatches DEF DInv
<1>3. CASE Bystanding
    BY <1>1, <1>3, BystandingKeeps DEF DInv
<1>4. CASE Dispatches
    BY <1>1, <1>4, ApproveStream, InstallStream, ArriveStream, TakeStream, CheckStream,
       CallStream, CloseStream DEF DInv, Dispatches
<1> QED
    BY <1>2, <1>3, <1>4

\* The application hears of the completion first and then gets every payload in
\* the order of arrival, none lost and none twice, whichever threads buffer them,
\* install the reader and dispatch; after the end of the connection at most the one
\* whose delivery was decided on (routeOrBufferSpinePayload, drainSpineDispatchQueue).
THEOREM PayloadsInOrder == Spec => []InOrder
<1>1. DInv => InOrder
  <2> SUFFICES ASSUME DInv PROVE InOrder
      OBVIOUS
  <2>1. DOMAIN delivered = 1..Len(delivered)
      BY DEF DInv, IInv, TypeOK
  <2> QED
      BY <2>1 DEF DInv, StreamInv, LateInv, InOrder
<1> QED
    BY <1>1, InitDInv, StepDInv, PTL DEF Spec
==============================================================================
