------------------------- MODULE HandshakeTimer_proofs -------------------------
(***************************************************************************)
(* Proofs about HandshakeTimer for any number of callers and generations.  *)
(*                                                                         *)
(* The counter handshakeTimerActive is the number of live goroutines       *)
(* (CountInv), so a closer that reads zero knows that none is left; and as *)
(* shutdownChan is closed before it reads, none begins afterwards          *)
(* (BarrierInv).  A revoked generation is not the current running one      *)
(* (RevokedInv), which is what the goroutine asks before it fires.         *)
(***************************************************************************)
EXTENDS HandshakeTimer, FiniteSetTheorems, TLAPS

CountInv == IsFiniteSet(Live) /\ active = Cardinality(Live)

BarrierInv ==
    /\ pc[Closer] # "idle" => shutdown
    /\ pc[Closer] = "quiet" => active = 0

RevokedInv ==
    /\ revoked \subseteq Begun
    /\ running => current \notin revoked

\* The inductive invariant.
IInv == TypeOK /\ CountInv /\ BarrierInv /\ RevokedInv

------------------------------------------------------------------------------
\* The initial states satisfy the inductive invariant.
LEMMA InitIInv == Init => IInv
<1> SUFFICES ASSUME Init PROVE IInv
    OBVIOUS
<1>1. TypeOK
    BY DEF Init, TypeOK, Threads
<1>2. Live = {}
    BY DEF Init, Live, LivePhases
<1>3. CountInv
    BY <1>2, FS_EmptySet DEF Init, CountInv
<1>4. BarrierInv /\ RevokedInv
    BY DEF Init, BarrierInv, RevokedInv, Threads, Begun
<1> QED
    BY <1>1, <1>3, <1>4 DEF IInv

\* What the critical section of stopHandshakeTimer leaves well typed.
LEMMA RevokeType ==
    ASSUME TypeOK, NEW t \in Threads, Revoke(t)
    PROVE /\ current' = Nobody /\ running' = FALSE
          /\ stopped' \subseteq Timers /\ revoked' \subseteq Timers
          /\ wait' \in [Threads -> Timers \cup {Nobody}]
<1>1. current' = Nobody /\ running' = FALSE
    BY DEF Revoke
<1>2. stopped' \subseteq Timers
    BY DEF TypeOK, Revoke
<1>3. revoked' \subseteq Timers
    BY DEF Revoke, Begun
<1>4. wait' \in [Threads -> Timers \cup {Nobody}]
    BY DEF TypeOK, Revoke
<1> QED
    BY <1>1, <1>2, <1>3, <1>4

\* A step keeps the types.
LEMMA NextType == TypeOK /\ CountInv /\ [Next]_vars => TypeOK'
<1> SUFFICES ASSUME TypeOK, CountInv, [Next]_vars PROVE TypeOK'
    OBVIOUS
<1>1. ASSUME NEW t \in Callers \cup Timers, Stop(t) \/ Set(t) \/ StopReturn(t)
      PROVE TypeOK'
  <2>1. t \in Threads
      BY DEF Threads
  <2>2. CASE Stop(t) \/ Set(t)
      BY <2>1, <2>2, RevokeType DEF TypeOK, Stop, Set
  <2>3. CASE StopReturn(t)
      BY <2>1, <2>3 DEF TypeOK, StopReturn
  <2> QED
      BY <1>1, <2>2, <2>3
<1>2. ASSUME NEW t \in Callers \cup Timers, Arm(t)
      PROVE TypeOK'
  <2>1. t \in Threads
      BY DEF Threads
  <2>2. CASE shutdown
      BY <1>2, <2>1, <2>2 DEF TypeOK, Arm
  <2>3. CASE ~shutdown
    <3>1. PICK g \in Timers \ Begun :
              /\ current' = g /\ done' = g /\ running' = TRUE
              /\ phase' = [phase EXCEPT ![g] = "waiting"]
        BY <1>2, <2>3 DEF Arm
    <3>2. phase' \in [Timers -> LivePhases \cup {"unused", "finished", "closed"}]
        BY <3>1 DEF TypeOK, LivePhases
    <3>3. revoked' \subseteq Timers /\ active' \in Nat
        BY <1>2, <2>3 DEF TypeOK, Arm, Begun
    <3> QED
        BY <1>2, <2>1, <3>1, <3>2, <3>3 DEF TypeOK, Arm
  <2> QED
      BY <2>2, <2>3
<1>3. ASSUME NEW g \in Timers,
             StopReceived(g) \/ Fire(g) \/ CloseDone(g) \/ Expire(g) \/ HandlerReturn(g)
      PROVE TypeOK'
    BY <1>3 DEF TypeOK, StopReceived, Fire, CloseDone, Expire, HandlerReturn, Step,
                LivePhases
<1>4. ASSUME NEW g \in Timers, Finish(g)
      PROVE TypeOK'
  <2>1. g \in Live
      BY <1>4 DEF Finish, Step, Live, LivePhases
  <2>2. active # 0
      BY <2>1, FS_EmptySet DEF CountInv
  <2> QED
      BY <1>4, <2>2 DEF TypeOK, Finish, Step, LivePhases, Threads
<1>5. CASE Shutdown
    BY <1>5 DEF TypeOK, Shutdown, Threads
<1>6. CASE Close
  <2>1. Closer \in Threads
      BY DEF Threads
  <2>2. CASE CloseConnection \/ BarrierStop
      BY <2>1, <2>2, RevokeType DEF TypeOK, CloseConnection, BarrierStop, CloserStop
  <2>3. CASE CallbacksActive \/ BarrierCheck
      BY <2>1, <2>3 DEF TypeOK, CallbacksActive, BarrierCheck, CloserCheck
  <2> QED
      BY <1>6, <2>2, <2>3 DEF Close
<1>7. CASE UNCHANGED vars
    BY <1>7 DEF TypeOK, vars, LivePhases, Threads
<1> QED
    BY <1>1, <1>2, <1>3, <1>4, <1>5, <1>6, <1>7 DEF Next, Call, Goroutine

\* The steps that begin and end no goroutine leave the count alone.
LEMMA SameLive ==
    ASSUME CountInv, active' = active, Live' = Live
    PROVE CountInv'
BY DEF CountInv

\* A step keeps the counter equal to the number of live goroutines.
LEMMA NextCount == TypeOK /\ CountInv /\ [Next]_vars => CountInv'
<1> SUFFICES ASSUME TypeOK, CountInv, [Next]_vars PROVE CountInv'
    OBVIOUS
<1>1. ASSUME NEW t \in Callers \cup Timers, Stop(t) \/ Set(t) \/ StopReturn(t)
      PROVE CountInv'
    BY <1>1, SameLive DEF Stop, Set, StopReturn, Live
<1>2. ASSUME NEW t \in Callers \cup Timers, Arm(t)
      PROVE CountInv'
  <2>1. CASE shutdown
      BY <1>2, <2>1, SameLive DEF Arm, Live
  <2>2. CASE ~shutdown
    <3>1. PICK g \in Timers \ Begun : phase' = [phase EXCEPT ![g] = "waiting"]
        BY <1>2, <2>2 DEF Arm
    <3>2. g \notin Live /\ Live' = Live \cup {g}
        BY <3>1 DEF TypeOK, Live, Begun, LivePhases
    <3>3. active' = active + 1
        BY <1>2, <2>2 DEF Arm
    <3> QED
        BY <3>2, <3>3, FS_AddElement DEF CountInv
  <2> QED
      BY <2>1, <2>2
<1>3. ASSUME NEW g \in Timers,
             StopReceived(g) \/ Fire(g) \/ CloseDone(g) \/ Expire(g) \/ HandlerReturn(g)
      PROVE CountInv'
  <2>1. active' = active
      BY <1>3 DEF StopReceived, Fire, CloseDone, Expire, HandlerReturn
  <2>2. Live' = Live
      BY <1>3 DEF TypeOK, StopReceived, Fire, CloseDone, Expire, HandlerReturn, Step,
                  Live, LivePhases
  <2> QED
      BY <2>1, <2>2, SameLive
<1>4. ASSUME NEW g \in Timers, Finish(g)
      PROVE CountInv'
  <2>1. g \in Live /\ Live' = Live \ {g}
      BY <1>4 DEF TypeOK, Finish, Step, Live, LivePhases
  <2>2. active' = active - 1
      BY <1>4 DEF Finish
  <2> QED
      BY <2>1, <2>2, FS_RemoveElement DEF CountInv
<1>5. CASE Shutdown
    BY <1>5, SameLive DEF Shutdown, Live
<1>6. CASE Close
    BY <1>6, SameLive DEF Close, CloseConnection, CallbacksActive, BarrierStop,
                          BarrierCheck, CloserStop, CloserCheck, Live
<1>7. CASE UNCHANGED vars
    BY <1>7, SameLive DEF vars, Live
<1> QED
    BY <1>1, <1>2, <1>3, <1>4, <1>5, <1>6, <1>7 DEF Next, Call, Goroutine

\* A step keeps the barrier: nothing is armed once shutdownChan is closed.
LEMMA NextBarrier == TypeOK /\ CountInv /\ BarrierInv /\ [Next]_vars => BarrierInv'
<1> SUFFICES ASSUME TypeOK, CountInv, BarrierInv, [Next]_vars PROVE BarrierInv'
    OBVIOUS
<1> USE ThreadAssumption
<1>1. ASSUME NEW t \in Callers \cup Timers, Stop(t) \/ Set(t) \/ StopReturn(t)
      PROVE BarrierInv'
    BY <1>1 DEF TypeOK, BarrierInv, Stop, Set, StopReturn, Threads
<1>2. ASSUME NEW t \in Callers \cup Timers, Arm(t)
      PROVE BarrierInv'
    BY <1>2 DEF TypeOK, BarrierInv, Arm, Threads
<1>3. ASSUME NEW g \in Timers,
             StopReceived(g) \/ Fire(g) \/ CloseDone(g) \/ Expire(g) \/ HandlerReturn(g)
      PROVE BarrierInv'
    BY <1>3 DEF BarrierInv, StopReceived, Fire, CloseDone, Expire, HandlerReturn
<1>4. ASSUME NEW g \in Timers, Finish(g)
      PROVE BarrierInv'
  <2>1. g \in Live
      BY <1>4 DEF Finish, Step, Live, LivePhases
  <2>2. active # 0
      BY <2>1, FS_EmptySet DEF CountInv
  <2> QED
      BY <1>4, <2>2 DEF TypeOK, BarrierInv, Finish, Threads
<1>5. CASE Shutdown
    BY <1>5 DEF TypeOK, BarrierInv, Shutdown, Threads
<1>6. CASE Close
    BY <1>6 DEF TypeOK, BarrierInv, Close, CloseConnection, CallbacksActive,
                BarrierStop, BarrierCheck, CloserStop, CloserCheck, Threads
<1>7. CASE UNCHANGED vars
    BY <1>7 DEF BarrierInv, vars
<1> QED
    BY <1>1, <1>2, <1>3, <1>4, <1>5, <1>6, <1>7 DEF Next, Call, Goroutine

\* A step keeps revoked generations from being the running one.
LEMMA NextRevoked == TypeOK /\ RevokedInv /\ [Next]_vars => RevokedInv'
<1> SUFFICES ASSUME TypeOK, RevokedInv, [Next]_vars PROVE RevokedInv'
    OBVIOUS
<1>1. ASSUME NEW t \in Callers \cup Timers, Stop(t) \/ Set(t) \/ StopReturn(t)
      PROVE RevokedInv'
    BY <1>1 DEF RevokedInv, Stop, Set, StopReturn, Revoke, Begun
<1>2. ASSUME NEW t \in Callers \cup Timers, Arm(t)
      PROVE RevokedInv'
    BY <1>2 DEF TypeOK, RevokedInv, Arm, Begun
<1>3. ASSUME NEW g \in Timers,
             StopReceived(g) \/ Fire(g) \/ CloseDone(g) \/ Expire(g) \/ HandlerReturn(g)
      PROVE RevokedInv'
    BY <1>3 DEF TypeOK, RevokedInv, StopReceived, Fire, CloseDone, Expire,
                HandlerReturn, Step, Begun
<1>4. ASSUME NEW g \in Timers, Finish(g)
      PROVE RevokedInv'
    BY <1>4 DEF TypeOK, RevokedInv, Finish, Step, Begun
<1>5. CASE Shutdown
    BY <1>5 DEF RevokedInv, Shutdown, Begun
<1>6. CASE Close
    BY <1>6 DEF RevokedInv, Close, CloseConnection, CallbacksActive, BarrierStop,
                BarrierCheck, CloserStop, CloserCheck, Revoke, Begun
<1>7. CASE UNCHANGED vars
    BY <1>7 DEF RevokedInv, vars, Begun
<1> QED
    BY <1>1, <1>2, <1>3, <1>4, <1>5, <1>6, <1>7 DEF Next, Call, Goroutine

\* The inductive invariant holds in every reachable state.
THEOREM Inductive == Spec => []IInv
<1>1. IInv /\ [Next]_vars => IInv'
    BY NextType, NextCount, NextBarrier, NextRevoked DEF IInv
<1> QED
    BY InitIInv, <1>1, PTL DEF Spec

\* The variables of the handshake timer keep their types; handshakeTimerActive
\* never becomes negative.
THEOREM TimerTypeCorrect == Spec => []TypeOK
BY Inductive, PTL DEF IInv

\* After the teardown barrier no timer goroutine is left (stopHandshakeTimerAndWait).
THEOREM BarrierIsQuiet == Spec => []QuietAfterBarrier
<1>1. IInv => QuietAfterBarrier
  <2> SUFFICES ASSUME IInv, pc[Closer] = "quiet" PROVE Live = {}
      BY DEF QuietAfterBarrier
  <2>1. IsFiniteSet(Live) /\ Cardinality(Live) = 0
      BY DEF IInv, CountInv, BarrierInv
  <2> QED
      BY <2>1, FS_EmptySet
<1> QED
    BY Inductive, <1>1, PTL

\* A stopped or replaced generation never starts its timeout handler.
THEOREM RevokedStaysSilent == Spec => RevokedNeverFires
<1>1. IInv /\ [Next]_vars =>
          [\A g \in revoked : phase'[g] = "handling" => phase[g] = "handling"]_vars
  <2> SUFFICES ASSUME IInv, Next, NEW h \in revoked, phase'[h] = "handling"
               PROVE phase[h] = "handling"
      BY DEF vars
  <2> USE DEF IInv, TypeOK
  <2>1. ASSUME NEW t \in Callers \cup Timers, Call(t) \/ StopReturn(t)
        PROVE phase[h] = "handling"
      BY <2>1 DEF Call, Stop, Set, StopReturn
  <2>2. ASSUME NEW t \in Callers \cup Timers, Arm(t)
        PROVE phase[h] = "handling"
      BY <2>2 DEF Arm
  <2>3. ASSUME NEW g \in Timers, Fire(g)
        PROVE phase[h] = "handling"
      BY <2>3 DEF Fire, Step, RevokedInv
  <2>4. ASSUME NEW g \in Timers,
               StopReceived(g) \/ CloseDone(g) \/ Expire(g) \/ HandlerReturn(g) \/ Finish(g)
        PROVE phase[h] = "handling"
      BY <2>4 DEF StopReceived, CloseDone, Expire, HandlerReturn, Finish, Step
  <2>5. CASE Shutdown \/ Close
      BY <2>5 DEF Shutdown, Close, CloseConnection, CallbacksActive, BarrierStop,
                  BarrierCheck, CloserStop, CloserCheck
  <2> QED
      BY <2>1, <2>2, <2>3, <2>4, <2>5 DEF Next, Goroutine
<1> QED
    BY Inductive, <1>1, PTL DEF Spec, RevokedNeverFires
==============================================================================
