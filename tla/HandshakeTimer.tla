---------------------------- MODULE HandshakeTimer ----------------------------
(***************************************************************************)
(* The handshake timer of one ShipConnection, lock by lock                 *)
(* (setHandshakeTimer ... handshakeTimerCallbacksActive of                 *)
(* ship/handshake.go) and the teardown of closeConnection that waits for   *)
(* it.  Every call of setHandshakeTimer starts a goroutine of its own, a   *)
(* generation; stopping and replacing are two critical sections, and the   *)
(* callers are the websocket reader, the hub and the timeout handlers      *)
(* themselves.  Time is left out: a waiting timer may expire at any        *)
(* moment.                                                                 *)
(***************************************************************************)
EXTENDS Naturals, FiniteSets

CONSTANTS
    Callers,   \* threads that set and stop the timer
    Timers,    \* the generations; bound: the number of setHandshakeTimer calls
    Closer,    \* the thread that closes the connection
    Nobody     \* a nil channel

ASSUME ThreadAssumption ==
    /\ Callers \cap Timers = {}
    /\ Closer \notin Callers \cup Timers
    /\ Nobody \notin Callers \cup Timers \cup {Closer}

VARIABLES
    shutdown,   \* shutdownChan is closed
    current,    \* the generation of handshakeTimerStopChan
    done,       \* the generation of handshakeTimerDoneChan
    running,    \* handshakeTimerRunning
    active,     \* handshakeTimerActive
    stopped,    \* the generations whose stopChan is closed
    phase,      \* phase[g]: where the goroutine of g is
    pc,         \* pc[t]: the call a thread is in
    wait,       \* wait[t]: the generation whose doneChan it waits for
    revoked     \* history: generations stopped or replaced since they began

vars == <<shutdown, current, done, running, active, stopped, phase, pc, wait, revoked>>

Threads == Callers \cup Timers \cup {Closer}

\* Goroutines that still count for handshakeTimerActive.
LivePhases == {"waiting", "expired", "handling", "leaving"}
Live == {g \in Timers : phase[g] \in LivePhases}
Begun == {g \in Timers : phase[g] # "unused"}

Init ==
    /\ shutdown = FALSE
    /\ current = Nobody /\ done = Nobody /\ running = FALSE
    /\ active = 0 /\ stopped = {}
    /\ phase = [g \in Timers |-> "unused"]
    /\ pc = [t \in Threads |-> "idle"]
    /\ wait = [t \in Threads |-> Nobody]
    /\ revoked = {}
------------------------------------------------------------------------------
(***************************************************************************)
(* Setting and stopping.                                                   *)
(***************************************************************************)
\* The critical section of stopHandshakeTimer; the thread then waits for the
\* goroutine if it had not fired yet.
Revoke(t) ==
    /\ current' = Nobody
    /\ stopped' = stopped \cup ({current} \ {Nobody})
    /\ running' = FALSE
    /\ wait' = [wait EXCEPT ![t] = IF running THEN done ELSE Nobody]
    /\ revoked' = Begun

Joined(t) == IF wait[t] = Nobody THEN TRUE ELSE phase[wait[t]] = "closed"

\* A goroutine calls only from inside its timeout handler.
MayCall(t) == pc[t] = "idle" /\ (t \in Timers => phase[t] = "handling")

\* Bound: a generation is left for every call that will arm one.
TimerLeft ==
    Cardinality({t \in Threads : pc[t] = "set"}) < Cardinality(Timers \ Begun)

Stop(t) ==
    /\ MayCall(t) /\ Revoke(t)
    /\ pc' = [pc EXCEPT ![t] = "stop"]
    /\ UNCHANGED <<shutdown, done, active, phase>>

StopReturn(t) ==
    /\ pc[t] = "stop" /\ Joined(t)
    /\ pc' = [pc EXCEPT ![t] = "idle"]
    /\ wait' = [wait EXCEPT ![t] = Nobody]
    /\ UNCHANGED <<shutdown, current, done, running, active, stopped, phase, revoked>>

\* setHandshakeTimer stops ...
Set(t) ==
    /\ MayCall(t) /\ TimerLeft /\ Revoke(t)
    /\ pc' = [pc EXCEPT ![t] = "set"]
    /\ UNCHANGED <<shutdown, done, active, phase>>

\* Mutant: arms a timer of a connection that is closing.
ArmAlways(t) ==
    /\ pc[t] = "set" /\ Joined(t)
    /\ pc' = [pc EXCEPT ![t] = "idle"]
    /\ wait' = [wait EXCEPT ![t] = Nobody]
    /\ \E g \in Timers \ Begun :
          /\ current' = g /\ done' = g /\ running' = TRUE
          /\ active' = active + 1
          /\ phase' = [phase EXCEPT ![g] = "waiting"]
    /\ revoked' = Begun
    /\ UNCHANGED <<shutdown, stopped>>

\* ... and, in a second critical section, begins a new generation.
Arm(t) ==
    /\ pc[t] = "set" /\ Joined(t)
    /\ pc' = [pc EXCEPT ![t] = "idle"]
    /\ wait' = [wait EXCEPT ![t] = Nobody]
    /\ IF shutdown THEN UNCHANGED <<current, done, running, active, phase, revoked>>
       ELSE /\ \E g \in Timers \ Begun :
                  /\ current' = g /\ done' = g /\ running' = TRUE
                  /\ phase' = [phase EXCEPT ![g] = "waiting"]
            /\ active' = active + 1
            /\ revoked' = Begun
    /\ UNCHANGED <<shutdown, stopped>>
------------------------------------------------------------------------------
(***************************************************************************)
(* The goroutine of a generation.                                          *)
(***************************************************************************)
Step(g, from, to) ==
    /\ phase[g] = from
    /\ phase' = [phase EXCEPT ![g] = to]

\* Mutant: counts a stopped goroutine out before it finishes.
StopCountedTwice(g) ==
    /\ g \in stopped /\ Step(g, "waiting", "leaving")
    /\ active' = active - 1
    /\ UNCHANGED <<shutdown, current, done, running, stopped, pc, wait, revoked>>

StopReceived(g) ==
    /\ g \in stopped /\ Step(g, "waiting", "leaving")
    /\ UNCHANGED <<shutdown, current, done, running, active, stopped, pc, wait, revoked>>

Expire(g) ==
    /\ Step(g, "waiting", "expired")
    /\ UNCHANGED <<shutdown, current, done, running, active, stopped, pc, wait, revoked>>

\* Mutant: fires without looking for a newer generation.
FireAnyway(g) ==
    /\ IF running
       THEN Step(g, "expired", "handling") /\ running' = FALSE
       ELSE Step(g, "expired", "leaving") /\ UNCHANGED running
    /\ UNCHANGED <<shutdown, current, done, active, stopped, pc, wait, revoked>>

\* Mutant: the flag stays set while the handler runs.
FireStillRunning(g) ==
    /\ IF current = g /\ running THEN Step(g, "expired", "handling")
       ELSE Step(g, "expired", "leaving")
    /\ UNCHANGED <<shutdown, current, done, running, active, stopped, pc, wait, revoked>>

\* Only the current generation, if it was not stopped, calls handleState.
Fire(g) ==
    /\ IF current = g /\ running
       THEN Step(g, "expired", "handling") /\ running' = FALSE
       ELSE Step(g, "expired", "leaving") /\ UNCHANGED running
    /\ UNCHANGED <<shutdown, current, done, active, stopped, pc, wait, revoked>>

HandlerReturn(g) ==
    /\ pc[g] = "idle" /\ Step(g, "handling", "leaving")
    /\ UNCHANGED <<shutdown, current, done, running, active, stopped, pc, wait, revoked>>

\* Mutant: nobody is woken.
FinishSilently(g) ==
    /\ Step(g, "leaving", "finished")
    /\ active' = active - 1
    /\ UNCHANGED <<shutdown, current, done, running, stopped, pc, wait, revoked>>

\* finishHandshakeTimer wakes the closer that sleeps on the condition variable.
Finish(g) ==
    /\ Step(g, "leaving", "finished")
    /\ active' = active - 1
    /\ pc' = [pc EXCEPT ![Closer] = IF @ = "asleep" THEN "barrier" ELSE @]
    /\ UNCHANGED <<shutdown, current, done, running, stopped, wait, revoked>>

CloseDone(g) ==
    /\ Step(g, "finished", "closed")
    /\ UNCHANGED <<shutdown, current, done, running, active, stopped, pc, wait, revoked>>
------------------------------------------------------------------------------
(***************************************************************************)
(* Closing: CloseConnection closes shutdownChan, closeConnection stops the *)
(* timer and asks for active callbacks, and if there are any               *)
(* stopHandshakeTimerAndWait is the barrier.                               *)
(***************************************************************************)
Shutdown ==
    /\ pc[Closer] = "idle"
    /\ shutdown' = TRUE
    /\ pc' = [pc EXCEPT ![Closer] = "closing"]
    /\ UNCHANGED <<current, done, running, active, stopped, phase, wait, revoked>>

CloserStop(from, to) ==
    /\ pc[Closer] = from /\ Revoke(Closer)
    /\ pc' = [pc EXCEPT ![Closer] = to]
    /\ UNCHANGED <<shutdown, done, active, phase>>

CloserCheck(from, busy) ==
    /\ pc[Closer] = from /\ Joined(Closer)
    /\ pc' = [pc EXCEPT ![Closer] = IF active = 0 THEN "quiet" ELSE busy]
    /\ wait' = [wait EXCEPT ![Closer] = Nobody]
    /\ UNCHANGED <<shutdown, current, done, running, active, stopped, phase, revoked>>

CloseConnection == CloserStop("closing", "stopping")
CallbacksActive == CloserCheck("stopping", "barrier")
BarrierStop == CloserStop("barrier", "barred")
BarrierCheck == CloserCheck("barred", "asleep")

Close == CloseConnection \/ CallbacksActive \/ BarrierStop \/ BarrierCheck
------------------------------------------------------------------------------
Call(t) == Stop(t) \/ Set(t)
Goroutine(g) == StopReceived(g) \/ Fire(g) \/ Finish(g) \/ CloseDone(g)

Next ==
    \/ \E t \in Callers \cup Timers : Call(t) \/ StopReturn(t) \/ Arm(t)
    \/ \E g \in Timers : Goroutine(g) \/ Expire(g) \/ HandlerReturn(g)
    \/ Shutdown \/ Close

Spec == Init /\ [][Next]_vars

(***************************************************************************)
(* Fairness: a goroutine that can go on does, and a handler returns after  *)
(* finitely many calls.  Nobody has to call, and a timer need not expire,  *)
(* since the longest lasts minutes.                                        *)
(***************************************************************************)
FairSpec ==
    /\ Spec
    /\ \A t \in Callers \cup Timers : WF_vars(StopReturn(t)) /\ WF_vars(Arm(t))
    /\ \A g \in Timers : WF_vars(Goroutine(g)) /\ SF_vars(HandlerReturn(g))
    /\ WF_vars(Close)

\* Timers run: one that nobody stops expires.
TimersExpire == \A g \in Timers : WF_vars(Expire(g))
------------------------------------------------------------------------------
(***************************************************************************)
(* Properties.                                                             *)
(***************************************************************************)
\* The variables have their types.
TypeOK ==
    /\ shutdown \in BOOLEAN /\ running \in BOOLEAN
    /\ current \in Timers \cup {Nobody} /\ done \in Timers \cup {Nobody}
    /\ active \in Nat
    /\ stopped \subseteq Timers /\ revoked \subseteq Timers
    /\ phase \in [Timers -> LivePhases \cup {"unused", "finished", "closed"}]
    /\ pc \in [Threads -> {"idle", "stop", "set", "closing", "stopping", "barrier",
                           "barred", "asleep", "quiet"}]
    /\ wait \in [Threads -> Timers \cup {Nobody}]

\* Once the closer passed the barrier of stopHandshakeTimerAndWait no timeout
\* handler runs, and no goroutine is left that could start one, although other
\* threads may still be inside setHandshakeTimer.
QuietAfterBarrier == pc[Closer] = "quiet" => Live = {}

\* A generation that was stopped or replaced does not call handleState any more,
\* although its timer may expire in the same moment.
RevokedNeverFires ==
    [][\A g \in revoked : phase'[g] = "handling" => phase[g] = "handling"]_vars

\* stopHandshakeTimer and setHandshakeTimer return without waiting for a timer
\* to expire, also when a timeout handler calls them.
StopReturns == \A t \in Callers \cup Timers : pc[t] \in {"stop", "set"} ~> pc[t] = "idle"

\* closeConnection gets past its barrier, at the latest when the timers that
\* nobody stopped have expired.
BarrierPasses == TimersExpire => (shutdown ~> pc[Closer] = "quiet")
==============================================================================
