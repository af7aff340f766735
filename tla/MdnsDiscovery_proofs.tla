------------------------- MODULE MdnsDiscovery_proofs -------------------------
(***************************************************************************)
(* Proofs about MdnsDiscovery, for any keys, addresses and sightings and   *)
(* any number of updates and calls.                                        *)
(*                                                                         *)
(* What the hub has admitted and not yet applied is in the queue, and the  *)
(* newest revision it has heard of is shown or queued (AdmissionInv).  A   *)
(* retry that is on record has the current authority and belongs to what   *)
(* is shown, and at most one goroutine works for it (RetryInv).  Where     *)
(* entries are not requested before the first observation, a snapshot is   *)
(* numbered as the table it copies (OrderInv); a candidate that has gone   *)
(* from the table does not come back to it (LineageInv), so the hub may    *)
(* forget it (SpentInv).                                                   *)
(***************************************************************************)
EXTENDS MdnsDiscovery, SequenceTheorems, WellFoundedInduction, TLAPS

Task      == [rev : Nat, adm : Nat, ver : Nat]
Attempts  == [kind : {"candidate", "retry"}, auth : Nat,
              pc : {"launch", "checked", "dialing", "done"}]
Selection == [ref : Nat, host : Nat, auth : Nat, issued : BOOLEAN]

\* Every copy under way is a copy of a table the manager has had.
LogInv ==
    /\ Revision \in Versions
    /\ view \in 0 .. Revision
    /\ \A v \in Versions : reports[v] > 0 => v <= Revision
    /\ \A i \in 1 .. Len(queue) : queue[i].ver <= Revision

AdmissionInv ==
    /\ admission = applied + Len(queue)
    /\ \A i \in 1 .. Len(queue) :
           queue[i].adm = applied + i /\ queue[i].rev <= snapshotRevision
    /\ latest <= snapshotRevision
    /\ \/ latest = snapshotRevision
       \/ \E i \in 1 .. Len(queue) : queue[i].rev = snapshotRevision

RetryInv ==
    /\ authority >= 1
    /\ retry # NoRetry =>
           /\ trusted /\ retry.auth = authority
           /\ retry.at = applied /\ retry.ver = view
    /\ \A a \in attempts : a.kind = "retry" =>
           /\ a.auth <= authority
           /\ a.auth = authority => retry # NoRetry
           /\ a.pc = "dialing" => a.auth = authority
    /\ \A a, b \in attempts :
           a.kind = "retry" /\ b.kind = "retry" /\ a.auth = b.auth => a = b

OrderInv ==
    /\ reports[0] = 0
    /\ view = latest
    /\ \A i \in 1 .. Len(queue) : queue[i].ver = queue[i].rev

LineageInv ==
    /\ \A v \in 0 .. Revision : \A r \in Refs(v) : r <= generation
    /\ \A v, w, x \in 0 .. Revision :
           v <= w /\ w <= x => Refs(v) \cap Refs(x) \subseteq Refs(w)

SpentInv ==
    /\ \A r \in spent : \E v \in 0 .. view : r \in Refs(v)
    /\ \A w \in view .. Revision : spent \cap Refs(w) \subseteq consumed

\* The inductive invariant that holds in any case.
BaseInv == TypeOK /\ LogInv /\ AdmissionInv

-------------------------------------------------------------------------------
(* Which actions touch what.                                               *)

\* Only a report moves the queue of snapshots and what is shown.
LEMMA PipelineFrame ==
    ASSUME [Next]_vars
    PROVE  \/ \E v \in Versions : enqueueMdnsSnapshot(v)
           \/ reportStaleSnapshot \/ reportMdnsSnapshot
           \/ UNCHANGED <<snapshotRevision, admission, queue, shown>>
BY DEF Next, vars, pipeline, shown, pairing, dialling, bounds, manager,
       processScopedMdnsEntry, removeMdnsEntry, Drain, drainMdnsSnapshots, User,
       admitPairingCandidate, connectPairingCandidate, RegisterRemoteSKI,
       UnregisterRemoteSKI, RetryTrustedRemote, Attempt, launchPairingCandidate,
       runTrustedRemoteRetry, registerOutboundAttemptForLaunch, DialSucceeds,
       DialFails, candidateNotReached, finishTrustedRemoteRetry,
       withTransientPINForAuthority, HandleShipHandshakeStateUpdate,
       HandleConnectionClosedWithAttempt

\* Only the manager changes its table.
LEMMA ManagerFrame ==
    ASSUME [Next]_vars
    PROVE  \/ \E k \in Keys, s \in Sightings : processScopedMdnsEntry(k, s)
           \/ \E k \in Keys : removeMdnsEntry(k)
           \/ /\ UNCHANGED <<log, generation>>
              /\ \/ \E v \in Versions : enqueueMdnsSnapshot(v)
                 \/ RequestMdnsEntries
                 \/ UNCHANGED reports
<1>1. CASE \E v \in Versions : enqueueMdnsSnapshot(v)
    BY <1>1 DEF enqueueMdnsSnapshot
<1>2. CASE Drain \/ UNCHANGED vars
    BY <1>2 DEF Drain, drainMdnsSnapshots, reportStaleSnapshot, reportMdnsSnapshot, manager, vars
<1>3. CASE User
    BY <1>3 DEF User, manager, admitPairingCandidate, connectPairingCandidate,
       RegisterRemoteSKI, UnregisterRemoteSKI, RetryTrustedRemote, RequestMdnsEntries
<1>4. CASE \E a \in attempts : Attempt(a)
    BY <1>4 DEF manager, Attempt, launchPairingCandidate,
       runTrustedRemoteRetry, registerOutboundAttemptForLaunch, DialSucceeds,
       DialFails, candidateNotReached, finishTrustedRemoteRetry
<1>5. CASE withTransientPINForAuthority \/ HandleShipHandshakeStateUpdate
    BY <1>5 DEF manager, withTransientPINForAuthority, HandleShipHandshakeStateUpdate
<1>6. CASE HandleConnectionClosedWithAttempt
    BY <1>6 DEF manager, HandleConnectionClosedWithAttempt, RequestMdnsEntries
<1> QED
    BY <1>1, <1>2, <1>3, <1>4, <1>5, <1>6 DEF Next

\* A set of numbers has a least member.
LEMMA LeastIn ==
    ASSUME NEW S, S \subseteq Nat, S # {}
    PROVE  Least(S) \in S
<1>1. \E a \in S : \A b \in S : ~(<<b, a>> \in OpToRel(<, Nat))
    BY WFMin, NatLessThanWellFounded
<1>2. \A a, b \in Nat : ~(<<b, a>> \in OpToRel(<, Nat)) => a <= b
    BY DEF OpToRel
<1>3. \E a \in S : \A b \in S : a <= b
    BY <1>1, <1>2
<1> QED
    BY <1>3 DEF Least
-------------------------------------------------------------------------------
(* The tables of the manager.                                              *)

TableRefs(T) == {T[k].ref : k \in {j \in Keys : T[j].ref # 0}}

\* A step that adds a table: it has the references of the one before it and at
\* most one new one, the next of the generation.
ExtendedBy(T) ==
    /\ log' = Append(log, T) /\ Revision < MaxUpdates
    /\ reports' = [reports EXCEPT ![Revision + 1] = @ + 1]
    /\ generation' \in {generation, generation + 1}
    /\ \A r \in TableRefs(T) :
           r \in Refs(Revision) \/ (r = generation + 1 /\ generation' = r)
    /\ UNCHANGED <<queue, view, latest, spent, consumed, active, pin, trusted>>

\* The log only grows, by a table of this kind.
LEMMA LogStep ==
    ASSUME TypeOK, LogInv, [Next]_vars
    PROVE  \/ /\ UNCHANGED <<log, generation>>
              /\ \/ \E v \in Versions : enqueueMdnsSnapshot(v)
                 \/ RequestMdnsEntries
                 \/ UNCHANGED reports
           \/ \E T \in Table : ExtendedBy(T)
<1> DEFINE last == At(Revision)
<1>1. last \in Table
    BY ElementOfSeq, LenProperties DEF TypeOK, At, Revision
<1>2. ASSUME NEW k \in Keys, NEW s \in Sightings, processScopedMdnsEntry(k, s)
      PROVE \E T \in Table : ExtendedBy(T)
  <2> DEFINE rotate == last[k].ref = 0 \/ ~(last[k].facts \subseteq s)
             ref    == IF rotate THEN generation + 1 ELSE last[k].ref
             T      == [last EXCEPT ![k] = [facts |-> s, ref |-> ref]]
  <2>1. s \in SUBSET (Nat \ {0}) /\ ref \in Nat
      BY <1>1, SightingAssumption DEF Table, Cell, TypeOK
  <2>2. T \in Table
      BY <1>1, <2>1 DEF Table, Cell
  <2>3. /\ log' = Append(log, T) /\ Revision < MaxUpdates
        /\ reports' = [reports EXCEPT ![Revision + 1] = @ + 1]
        /\ generation' = IF rotate THEN generation + 1 ELSE generation
        /\ UNCHANGED <<queue, view, latest, spent, consumed, active, pin, trusted>>
      BY <1>2 DEF processScopedMdnsEntry, Send, pipeline, shown, pairing, dialling, bounds
  <2>4. ASSUME NEW j \in Keys, T[j].ref # 0
        PROVE T[j].ref \in Refs(Revision)
              \/ (T[j].ref = generation + 1 /\ generation' = T[j].ref)
    <3>1. CASE j = k /\ rotate
        BY <1>1, <2>1, <2>3, <3>1 DEF Table
    <3>2. CASE ~(j = k /\ rotate)
      <4>1. T[j].ref = last[j].ref
          BY <1>1, <2>1, <3>2 DEF Table, Cell
      <4> QED
          BY <2>4, <4>1 DEF Refs, Observed
    <3> QED
        BY <3>1, <3>2
  <2>5. \A r \in TableRefs(T) :
            r \in Refs(Revision) \/ (r = generation + 1 /\ generation' = r)
      BY <2>4 DEF TableRefs
  <2>6. generation' \in {generation, generation + 1}
      BY <2>3
  <2> HIDE DEF T, rotate
  <2> QED
      BY <2>2, <2>3, <2>5, <2>6 DEF ExtendedBy
<1>3. ASSUME NEW k \in Keys, removeMdnsEntry(k)
      PROVE \E T \in Table : ExtendedBy(T)
  <2> DEFINE T == [last EXCEPT ![k] = Absent]
  <2>1. T \in Table
      BY <1>1 DEF Table, Cell, Absent
  <2>2. \A r \in TableRefs(T) : r \in Refs(Revision)
      BY <1>1 DEF TableRefs, Refs, Observed, Table, Cell, Absent
  <2>3. /\ log' = Append(log, T) /\ Revision < MaxUpdates
        /\ reports' = [reports EXCEPT ![Revision + 1] = @ + 1]
        /\ generation' = generation
        /\ UNCHANGED <<queue, view, latest, spent, consumed, active, pin, trusted>>
      BY <1>3 DEF removeMdnsEntry, Send, pipeline, shown, pairing, dialling, bounds
  <2> HIDE DEF T
  <2> QED
      BY <2>1, <2>2, <2>3 DEF ExtendedBy
<1> QED
    BY <1>2, <1>3, ManagerFrame
\* The log is well formed after a step, and a table once numbered stays as it was.
LEMMA LogKept ==
    ASSUME TypeOK, LogInv, [Next]_vars
    PROVE  /\ log' \in Seq(Table) /\ log' # <<>> /\ generation' \in Nat
           /\ Revision' \in Versions /\ Revision <= Revision'
           /\ \A v \in 0 .. Revision :
                 At(v)' = At(v) /\ Refs(v)' = Refs(v) /\ Observed(v)' = Observed(v)
<1>0. Revision \in Nat /\ Len(log) = Revision + 1
    BY LenProperties, EmptySeq DEF TypeOK, Revision
<1>1. CASE UNCHANGED <<log, generation>>
    BY <1>1, <1>0 DEF TypeOK, LogInv, Revision, At, Refs, Observed
<1>2. CASE \E T \in Table : ExtendedBy(T)
  <2>1. PICK T \in Table : ExtendedBy(T)
      BY <1>2
  <2>2. /\ log' \in Seq(Table) /\ log' # <<>> /\ Len(log') = Len(log) + 1
        /\ \A i \in 1 .. Len(log) : log'[i] = log[i]
      BY <2>1, AppendProperties DEF TypeOK, ExtendedBy
  <2>3. Revision' = Revision + 1 /\ Revision' \in Versions
      BY <2>1, <2>2, <1>0, BoundAssumption DEF Revision, ExtendedBy, LogInv, Versions
  <2>4. \A v \in 0 .. Revision : At(v)' = At(v)
      BY <2>2, <1>0 DEF At
  <2>5. \A v \in 0 .. Revision : Observed(v)' = Observed(v)
      BY <2>4 DEF Observed
  <2>6. \A v \in 0 .. Revision : Refs(v)' = Refs(v)
      BY <2>4, <2>5 DEF Refs
  <2>7. generation' \in Nat
      BY <2>1 DEF ExtendedBy, TypeOK
  <2> QED
      BY <2>2, <2>3, <2>4, <2>5, <2>6, <2>7, <1>0
<1> QED
    BY <1>1, <1>2, LogStep

\* The reports under way stay counted, and each is a copy of a table of the log.
LEMMA ReportsKept ==
    ASSUME TypeOK, LogInv, [Next]_vars
    PROVE  /\ reports' \in [Versions -> Nat]
           /\ \A v \in Versions : reports'[v] > 0 => v <= Revision'
<1>0. Revision \in Versions /\ Versions \subseteq Nat
    BY BoundAssumption DEF LogInv, Versions
<1>1. CASE \E T \in Table : ExtendedBy(T)
  <2>1. PICK T \in Table : ExtendedBy(T)
      BY <1>1
  <2>2. Revision' = Revision + 1 /\ Revision + 1 \in Versions
      BY <2>1, <1>0, AppendProperties, BoundAssumption, LenProperties
         DEF Revision, ExtendedBy, LogInv, Versions, TypeOK
  <2>3. reports' = [reports EXCEPT ![Revision + 1] = @ + 1]
      BY <2>1 DEF ExtendedBy
  <2> QED
      BY <2>2, <2>3, <1>0 DEF TypeOK, LogInv
<1>2. CASE UNCHANGED <<log, generation>> /\ \E v \in Versions : enqueueMdnsSnapshot(v)
  <2>1. PICK v \in Versions : reports[v] > 0 /\ reports' = [reports EXCEPT ![v] = @ - 1]
      BY <1>2 DEF enqueueMdnsSnapshot
  <2>2. Revision' = Revision
      BY <1>2 DEF Revision
  <2> QED
      BY <2>1, <2>2, <1>0 DEF TypeOK, LogInv
<1>3. CASE UNCHANGED <<log, generation>> /\ RequestMdnsEntries
  <2>1. Revision' = Revision /\ reports' = [reports EXCEPT ![Revision] = @ + 1]
      BY <1>3 DEF RequestMdnsEntries, Send, Revision
  <2> QED
      BY <2>1, <1>0 DEF TypeOK, LogInv
<1>4. CASE UNCHANGED <<log, generation, reports>>
    BY <1>4 DEF TypeOK, LogInv, Revision
<1> QED
    BY <1>1, <1>2, <1>3, <1>4, LogStep
-------------------------------------------------------------------------------
(* The queue of snapshots.                                                 *)

\* The types of the queue, its tasks and the numbers that go with it.
LEMMA QueueTypes ==
    ASSUME TypeOK
    PROVE  /\ queue \in Seq(Task) /\ Len(queue) \in Nat
           /\ \A i \in 1 .. Len(queue) : queue[i] \in Task
           /\ snapshotRevision \in Nat /\ admission \in Nat
           /\ latest \in Nat /\ applied \in Nat /\ view \in Nat
<1>1. queue \in Seq(Task)
    BY DEF TypeOK, Task
<1>2. Len(queue) \in Nat /\ \A i \in 1 .. Len(queue) : queue[i] \in Task
    BY <1>1, LenProperties, ElementOfSeq
<1> QED
    BY <1>1, <1>2 DEF TypeOK

\* The fields of a queued snapshot are numbers.
LEMMA TaskFields ==
    ASSUME NEW t \in Task
    PROVE  t.rev \in Nat /\ t.adm \in Nat /\ t.ver \in Nat
BY DEF Task

\* A snapshot joins the queue.
LEMMA EnqueueKept ==
    ASSUME TypeOK, LogInv, AdmissionInv, NEW v \in Versions, enqueueMdnsSnapshot(v)
    PROVE  /\ snapshotRevision' \in Nat /\ admission' \in Nat /\ queue' \in Seq(Task)
           /\ \A i \in 1 .. Len(queue') : queue'[i].ver <= Revision
           /\ AdmissionInv'
<1> DEFINE rev  == IF v = 0 THEN snapshotRevision + 1 ELSE v
           task == [rev |-> rev, adm |-> admission + 1, ver |-> v]
<1>0. /\ snapshotRevision \in Nat /\ admission \in Nat /\ Len(queue) \in Nat
      /\ latest \in Nat /\ applied \in Nat
    BY QueueTypes
<1>1. v \in Nat /\ v <= Revision
    BY BoundAssumption DEF enqueueMdnsSnapshot, LogInv, Versions
<1>2. task \in Task /\ rev \in Nat /\ queue \in Seq(Task) /\ Len(queue) \in Nat
    BY <1>1, QueueTypes DEF Task
<1>3. /\ queue' = Append(queue, task) /\ admission' = admission + 1
      /\ snapshotRevision' = IF rev > snapshotRevision THEN rev ELSE snapshotRevision
      /\ UNCHANGED <<latest, applied, view>>
    BY DEF enqueueMdnsSnapshot, shown
<1>4. /\ queue' \in Seq(Task) /\ Len(queue') = Len(queue) + 1
      /\ \A i \in 1 .. Len(queue) : queue'[i] = queue[i]
      /\ queue'[Len(queue) + 1] = task
    BY <1>2, <1>3, AppendProperties
<1>6. \A i \in 1 .. Len(queue') : i \in 1 .. Len(queue) \/ i = Len(queue) + 1
    BY <1>2, <1>4
<1>7. task.rev = rev /\ task.adm = admission + 1 /\ task.ver = v
    OBVIOUS
<1>8. \A i \in 1 .. Len(queue) : queue[i].rev \in Nat
    BY QueueTypes, TaskFields
<1> HIDE DEF task, rev
<1>5. /\ snapshotRevision' \in Nat /\ admission' \in Nat
      /\ snapshotRevision <= snapshotRevision' /\ rev <= snapshotRevision'
    BY <1>2, <1>3, QueueTypes
<1>9. \A i \in 1 .. Len(queue') : queue'[i].ver <= Revision
    BY <1>1, <1>4, <1>6, <1>7 DEF LogInv
<1>10. \A i \in 1 .. Len(queue') :
           queue'[i].adm = applied' + i /\ queue'[i].rev <= snapshotRevision'
  <2>1. ASSUME NEW i \in 1 .. Len(queue)
        PROVE queue'[i].adm = applied' + i /\ queue'[i].rev <= snapshotRevision'
    <3>1. queue[i].adm = applied + i /\ queue[i].rev <= snapshotRevision
        BY DEF AdmissionInv
    <3> QED
        BY <3>1, <1>0, <1>3, <1>4, <1>5, <1>8
  <2>2. queue'[Len(queue) + 1].adm = applied' + (Len(queue) + 1)
      BY <1>2, <1>3, <1>4, <1>7, QueueTypes DEF AdmissionInv
  <2> QED
      BY <2>1, <2>2, <1>4, <1>5, <1>6, <1>7
<1>11. admission' = applied' + Len(queue') /\ latest' <= snapshotRevision'
    BY <1>0, <1>3, <1>4, <1>5 DEF AdmissionInv
<1>12. \/ latest' = snapshotRevision'
       \/ \E i \in 1 .. Len(queue') : queue'[i].rev = snapshotRevision'
  <2>1. CASE rev > snapshotRevision
      BY <2>1, <1>2, <1>3, <1>4, <1>7
  <2>2. CASE ~(rev > snapshotRevision)
    <3>1. snapshotRevision' = snapshotRevision
        BY <2>2, <1>3
    <3>2. \A i \in 1 .. Len(queue) : i \in 1 .. Len(queue') /\ queue'[i].rev = queue[i].rev
        BY <1>2, <1>4
    <3> QED
        BY <3>1, <3>2, <1>3 DEF AdmissionInv
  <2> QED
      BY <2>1, <2>2
<1> QED
    BY <1>4, <1>5, <1>9, <1>10, <1>11, <1>12 DEF AdmissionInv

\* The snapshot at the head is applied; latest and view say what is shown then.
LEMMA ApplyKept ==
    ASSUME TypeOK, LogInv, AdmissionInv, queue # <<>>, queue' = Tail(queue),
           applied' = Head(queue).adm, UNCHANGED <<snapshotRevision, admission>>,
           \/ latest' = latest /\ Head(queue).rev < latest
           \/ latest' = Head(queue).rev /\ Head(queue).rev >= latest
    PROVE  /\ Head(queue) \in Task /\ Head(queue).ver <= Revision
           /\ queue' \in Seq(Task) /\ applied' \in Nat /\ latest' \in Nat
           /\ \A i \in 1 .. Len(queue') : queue'[i].ver <= Revision
           /\ AdmissionInv'
<1>0. /\ snapshotRevision \in Nat /\ admission \in Nat /\ Len(queue) \in Nat
      /\ latest \in Nat /\ applied \in Nat
    BY QueueTypes
<1>1. /\ queue \in Seq(Task) /\ Len(queue) \in Nat /\ Len(queue) >= 1
      /\ Head(queue) = queue[1] /\ Head(queue) \in Task
  <2>1. Len(queue) >= 1 /\ Head(queue) = queue[1]
      BY QueueTypes, EmptySeq
  <2> QED
      BY <2>1, QueueTypes, HeadTailProperties
<1>2. /\ queue' \in Seq(Task) /\ Len(queue') = Len(queue) - 1
      /\ \A i \in 1 .. Len(queue') : queue'[i] = queue[i + 1] /\ i + 1 \in 1 .. Len(queue)
    BY <1>1, HeadTailProperties
<1>3. \A i \in 1 .. Len(queue) :
          queue[i].rev \in Nat /\ queue[i].adm \in Nat /\ queue[i].ver \in Nat
    BY QueueTypes, TaskFields
<1>4. applied' = applied + 1 /\ Head(queue).rev <= snapshotRevision /\ Head(queue).ver <= Revision
    BY <1>1 DEF AdmissionInv, LogInv
<1>5. applied' \in Nat /\ latest' \in Nat /\ latest' <= snapshotRevision'
    BY <1>1, <1>3, <1>4, QueueTypes DEF AdmissionInv
<1>6. \A i \in 1 .. Len(queue') :
          /\ queue'[i].adm = applied' + i /\ queue'[i].rev <= snapshotRevision'
          /\ queue'[i].ver <= Revision
  <2> TAKE i \in 1 .. Len(queue')
  <2>1. queue'[i] = queue[i + 1] /\ i + 1 \in 1 .. Len(queue) /\ i \in Nat
      BY <1>1, <1>2
  <2>2. /\ queue[i + 1].adm = applied + (i + 1)
        /\ queue[i + 1].rev <= snapshotRevision /\ queue[i + 1].ver <= Revision
      BY <2>1 DEF AdmissionInv, LogInv
  <2> QED
      BY <2>1, <2>2, <1>4, <1>0
<1>7. admission' = applied' + Len(queue')
    BY <1>1, <1>2, <1>4, QueueTypes DEF AdmissionInv
<1>8. \/ latest' = snapshotRevision'
      \/ \E i \in 1 .. Len(queue') : queue'[i].rev = snapshotRevision'
  <2>1. CASE latest = snapshotRevision
      BY <2>1, <1>1, <1>3, <1>4, QueueTypes
  <2>2. ASSUME NEW i \in 1 .. Len(queue), queue[i].rev = snapshotRevision
        PROVE \/ latest' = snapshotRevision'
              \/ \E j \in 1 .. Len(queue') : queue'[j].rev = snapshotRevision'
    <3>1. CASE i = 1
        BY <2>2, <3>1, <1>1, <1>3, QueueTypes DEF AdmissionInv
    <3>2. CASE i # 1
      <4>1. i - 1 \in 1 .. Len(queue') /\ (i - 1) + 1 = i
          BY <3>2, <1>1, <1>2
      <4>2. queue'[i - 1] = queue[i]
          BY <4>1, <1>2
      <4> QED
          BY <2>2, <4>1, <4>2
    <3> QED
        BY <3>1, <3>2
  <2> QED
      BY <2>1, <2>2 DEF AdmissionInv
<1> QED
    BY <1>1, <1>2, <1>4, <1>5, <1>6, <1>7, <1>8 DEF AdmissionInv

\* What every step keeps of the queue and of what is shown.
LEMMA PipelineKept ==
    ASSUME BaseInv, [Next]_vars
    PROVE  /\ snapshotRevision' \in Nat /\ admission' \in Nat /\ queue' \in Seq(Task)
           /\ latest' \in Nat /\ applied' \in Nat /\ view' \in Nat
           /\ LogInv' /\ AdmissionInv'
<1> USE DEF BaseInv
<1>1. Revision \in Nat /\ Revision' \in Versions /\ Revision' \in Nat /\ Revision <= Revision'
    BY LogKept, BoundAssumption DEF LogInv, Versions
<1>2. \A v \in Versions : reports'[v] > 0 => v <= Revision'
    BY ReportsKept
<1>3. SUFFICES /\ snapshotRevision' \in Nat /\ admission' \in Nat /\ queue' \in Seq(Task)
               /\ latest' \in Nat /\ applied' \in Nat
               /\ view' \in 0 .. Revision /\ AdmissionInv'
               /\ \A i \in 1 .. Len(queue') : queue'[i].ver <= Revision
  <2>1. view' \in 0 .. Revision' /\ view' \in Nat
      BY <1>1, <1>3
  <2>2. \A i \in 1 .. Len(queue') : queue'[i] \in Task /\ queue'[i].ver \in Nat
      BY <1>3, ElementOfSeq, TaskFields
  <2>3. \A i \in 1 .. Len(queue') : queue'[i].ver <= Revision'
      BY <1>1, <1>3, <2>2
  <2> QED
      BY <1>1, <1>2, <1>3, <2>1, <2>3 DEF LogInv
<1>4. CASE \E v \in Versions : enqueueMdnsSnapshot(v)
    BY <1>4, EnqueueKept DEF enqueueMdnsSnapshot, shown, TypeOK, LogInv
<1>5. CASE reportStaleSnapshot
    BY <1>5, ApplyKept DEF reportStaleSnapshot, TypeOK, LogInv
<1>6. CASE reportMdnsSnapshot
  <2>1. /\ queue # <<>> /\ queue' = Tail(queue) /\ applied' = Head(queue).adm
        /\ UNCHANGED <<snapshotRevision, admission>>
        /\ latest' = Head(queue).rev /\ Head(queue).rev >= latest
        /\ view' = Head(queue).ver
      BY <1>6 DEF reportMdnsSnapshot
  <2>2. view' \in 0 .. Revision
      BY <2>1, ApplyKept, <1>1 DEF Task
  <2> QED
      BY <2>1, <2>2, ApplyKept DEF TypeOK
<1>7. CASE UNCHANGED <<snapshotRevision, admission, queue, shown>>
    BY <1>7 DEF shown, TypeOK, LogInv, AdmissionInv, Task
<1> QED
    BY <1>4, <1>5, <1>6, <1>7, PipelineFrame
-------------------------------------------------------------------------------
(* The decisions: candidates, PINs, retries and their goroutines.          *)

DecisionsOK ==
    /\ drainer \in {"off", "take", "apply"}
    /\ consumed \subseteq Nat
    /\ active \in Selection
    /\ pin \in Nat /\ authority \in Nat /\ trusted \in BOOLEAN
    /\ retry \in [auth : Nat, at : Nat, ver : Nat]
    /\ attempts \subseteq Attempts
    /\ link \in Nat /\ calls \in Nat /\ spent \subseteq Nat

\* The end of a candidate keeps the types.
LEMMA RetireType ==
    ASSUME DecisionsOK, NEW auth \in Nat, NEW as, as \subseteq Attempts,
           retirePairingCandidate(auth, as)
    PROVE  /\ authority' \in Nat /\ active' \in Selection /\ pin' \in Nat
           /\ attempts' \subseteq Attempts /\ link' \in Nat
<1>0. None \in Selection
    BY DEF None, Selection
<1>1. CASE active # None /\ active.auth = auth /\ ~trusted
  <2>1. /\ authority' = authority + 1 /\ active' = None
        /\ pin' = (IF pin = auth THEN 0 ELSE pin)
        /\ attempts' = Unregistered(as) /\ link' = 0
      BY <1>1 DEF retirePairingCandidate
  <2>2. authority' \in Nat /\ pin' \in Nat /\ link' \in Nat
      BY <2>1 DEF DecisionsOK
  <2>3. attempts' \subseteq Attempts
      BY <2>1 DEF Unregistered
  <2> QED
      BY <1>0, <2>1, <2>2, <2>3
<1>2. CASE ~(active # None /\ active.auth = auth /\ ~trusted)
  <2>1. attempts' = as /\ UNCHANGED <<authority, active, pin, link>>
      BY <1>2 DEF retirePairingCandidate
  <2> QED
      BY <2>1 DEF DecisionsOK
<1> QED
    BY <1>1, <1>2

\* The end of the retry keeps the types.
LEMMA InvalidateType ==
    ASSUME DecisionsOK, NEW auth \in Nat,
           invalidateTrustedRemoteRetries(auth, attempts, link)
    PROVE  /\ authority' \in Nat /\ attempts' \subseteq Attempts /\ link' \in Nat
           /\ retry' \in [auth : Nat, at : Nat, ver : Nat]
BY DEF DecisionsOK, invalidateTrustedRemoteRetries, Unregistered, NoRetry

\* A goroutine that goes on keeps the types.
LEMMA MoveType ==
    ASSUME attempts \subseteq Attempts, NEW a \in attempts,
           NEW pc \in {"launch", "checked", "dialing", "done"}, Move(a, pc)
    PROVE  attempts' \subseteq Attempts
<1>1. [a EXCEPT !.pc = pc] \in Attempts
    BY DEF Attempts
<1> QED
    BY <1>1 DEF Move

\* The references of a view are numbers, and so are the addresses it shows.
LEMMA ViewTypes ==
    ASSUME TypeOK, LogInv, NEW v \in 0 .. Revision
    PROVE  /\ At(v) \in Table /\ Refs(v) \subseteq Nat \ {0}
           /\ \A r : Facts(v, r) \subseteq Nat
<1>1. v + 1 \in 1 .. Len(log)
    BY BoundAssumption, LenProperties DEF LogInv, Versions, Revision, TypeOK
<1>2. At(v) \in Table
    BY <1>1, ElementOfSeq DEF At, TypeOK
<1> QED
    BY <1>2 DEF Refs, Facts, Observed, Table, Cell

\* A step of an attempt's goroutine keeps the types.
LEMMA AttemptType ==
    ASSUME DecisionsOK, NEW a \in attempts, Attempt(a)
    PROVE  DecisionsOK'
<1>0. a \in Attempts /\ a.auth \in Nat
    BY DEF DecisionsOK, Attempts
<1>1. CASE launchPairingCandidate(a)
  <2>1. attempts' \subseteq Attempts
      BY <1>1, MoveType DEF launchPairingCandidate, DecisionsOK
  <2> QED
      BY <1>1, <2>1 DEF launchPairingCandidate, DecisionsOK, pipeline, pairing, bounds
<1>2. CASE runTrustedRemoteRetry(a)
  <2>1. attempts' \subseteq Attempts
      BY <1>2, MoveType DEF runTrustedRemoteRetry, DecisionsOK
  <2> QED
      BY <1>2, <2>1 DEF runTrustedRemoteRetry, DecisionsOK, pipeline, pairing, bounds
<1>3. CASE registerOutboundAttemptForLaunch(a)
  <2>1. attempts' \subseteq Attempts
      BY <1>3, MoveType DEF registerOutboundAttemptForLaunch, DecisionsOK
  <2> QED
      BY <1>3, <2>1 DEF registerOutboundAttemptForLaunch, DecisionsOK, pipeline, pairing, bounds
<1>4. CASE DialSucceeds(a)
  <2>1. attempts' \subseteq Attempts
      BY <1>4, MoveType DEF DialSucceeds, DecisionsOK
  <2> QED
      BY <1>0, <1>4, <2>1 DEF DialSucceeds, DecisionsOK, pipeline, pairing, bounds
<1>5. CASE DialFails(a)
  <2>1. attempts' \subseteq Attempts
      BY <1>5, MoveType DEF DialFails, DecisionsOK
  <2> QED
      BY <1>5, <2>1 DEF DialFails, DecisionsOK, pipeline, pairing, bounds
<1>6. CASE candidateNotReached(a)
  <2>1. attempts \ {a} \subseteq Attempts
      BY DEF DecisionsOK
  <2> QED
      BY <1>0, <1>6, <2>1, RetireType
         DEF candidateNotReached, DecisionsOK, pipeline, bounds
<1>7. CASE finishTrustedRemoteRetry(a)
    BY <1>7 DEF finishTrustedRemoteRetry, DecisionsOK, pipeline, pairing, bounds, NoRetry
<1> QED
    BY <1>1, <1>2, <1>3, <1>4, <1>5, <1>6, <1>7 DEF Attempt

\* A call of the user keeps the types.
LEMMA UserType ==
    ASSUME TypeOK, LogInv, DecisionsOK, User
    PROVE  DecisionsOK'
<1>1. ASSUME NEW ref \in Refs(view), NEW connect \in BOOLEAN,
             admitPairingCandidate(ref, connect)
      PROVE DecisionsOK'
  <2>0. view \in 0 .. Revision
      BY DEF LogInv
  <2>1. ref \in Nat /\ Facts(view, ref) \cap Addresses \subseteq Nat
      BY <2>0, ViewTypes
  <2>2. Least(Facts(view, ref) \cap Addresses) \in Nat
      BY <1>1, <2>1, LeastIn DEF admitPairingCandidate
  <2>3. active' \in Selection /\ authority' \in Nat
      BY <1>1, <2>1, <2>2 DEF admitPairingCandidate, Selection, DecisionsOK
  <2>4. attempts' \subseteq Attempts
      BY <1>1 DEF admitPairingCandidate, Goroutine, Attempts, DecisionsOK
  <2>5. consumed' \subseteq Nat /\ spent' \subseteq Nat /\ calls' \in Nat
      BY <1>1, <2>1 DEF admitPairingCandidate, Call, DecisionsOK
  <2> QED
      BY <1>1, <2>3, <2>4, <2>5 DEF admitPairingCandidate, DecisionsOK, pipeline
<1>2. ASSUME NEW withPin \in BOOLEAN, connectPairingCandidate(withPin)
      PROVE DecisionsOK'
  <2>1. active' \in Selection /\ pin' \in Nat
      BY <1>2 DEF connectPairingCandidate, Selection, DecisionsOK
  <2>2. attempts' \subseteq Attempts
      BY <1>2 DEF connectPairingCandidate, Goroutine, Attempts, Selection, DecisionsOK
  <2> QED
      BY <1>2, <2>1, <2>2 DEF connectPairingCandidate, Call, DecisionsOK, pipeline
<1>3. CASE RegisterRemoteSKI
    BY <1>3 DEF RegisterRemoteSKI, DecisionsOK, Call, pipeline, None, Selection
<1>4. CASE UnregisterRemoteSKI
  <2>1. None \in Selection /\ NoRetry \in [auth : Nat, at : Nat, ver : Nat]
      BY DEF None, Selection, NoRetry
  <2>2. Unregistered(attempts) \subseteq Attempts
      BY DEF Unregistered, DecisionsOK
  <2> QED
    <3>1. /\ authority' = authority + 1 /\ calls' = calls + 1 /\ pin' = 0 /\ link' = 0
          /\ attempts' = Unregistered(attempts) /\ active' = None /\ retry' = NoRetry
          /\ trusted' = FALSE /\ UNCHANGED <<drainer, consumed, spent>>
        BY <1>4 DEF UnregisterRemoteSKI, Call, pipeline
    <3>2. authority' \in Nat /\ calls' \in Nat /\ pin' \in Nat /\ link' \in Nat
        BY <3>1 DEF DecisionsOK
    <3> QED
        BY <2>1, <2>2, <3>1, <3>2 DEF DecisionsOK
<1>5. CASE RetryTrustedRemote
  <2>1. Goroutine("retry", authority) \in Attempts
      BY DEF Goroutine, Attempts, DecisionsOK
  <2>2. attempts' \subseteq Attempts /\ retry' \in [auth : Nat, at : Nat, ver : Nat]
      BY <1>5, <2>1 DEF RetryTrustedRemote, DecisionsOK, TypeOK
  <2> QED
      BY <1>5, <2>2 DEF RetryTrustedRemote, DecisionsOK, Call, pipeline, pairing
<1> QED
    BY <1>1, <1>2, <1>3, <1>4, <1>5 DEF User

\* Every step keeps the types of the decisions.
LEMMA DecisionsKept ==
    ASSUME TypeOK, LogInv, [Next]_vars
    PROVE  DecisionsOK'
<1>0. DecisionsOK
    BY DEF TypeOK, DecisionsOK, Selection, Attempts
<1>1. CASE UNCHANGED vars
    BY <1>0, <1>1 DEF vars, pipeline, pairing, dialling, bounds, DecisionsOK
<1>2. CASE \/ \E k \in Keys, s \in Sightings : processScopedMdnsEntry(k, s)
           \/ \E k \in Keys : removeMdnsEntry(k)
    BY <1>0, <1>2 DEF processScopedMdnsEntry, removeMdnsEntry, pipeline, pairing,
       dialling, bounds, DecisionsOK
<1>3. CASE \E v \in Versions : enqueueMdnsSnapshot(v)
    BY <1>0, <1>3 DEF enqueueMdnsSnapshot, pairing, dialling, bounds, DecisionsOK
<1>4. CASE drainMdnsSnapshots
    BY <1>0, <1>4 DEF drainMdnsSnapshots, pairing, dialling, bounds, DecisionsOK
<1>5. CASE reportStaleSnapshot
  <2>1. invalidateTrustedRemoteRetries(authority, attempts, link) /\ authority \in Nat
      BY <1>0, <1>5 DEF reportStaleSnapshot, DecisionsOK
  <2> QED
      BY <1>0, <1>5, <2>1, InvalidateType DEF reportStaleSnapshot, pairing, bounds, DecisionsOK
<1>6. CASE reportMdnsSnapshot
  <2>1. \E auth \in Nat : invalidateTrustedRemoteRetries(auth, attempts, link)
      BY <1>0, <1>6 DEF reportMdnsSnapshot, DecisionsOK
  <2>2. /\ authority' \in Nat /\ attempts' \subseteq Attempts /\ link' \in Nat
        /\ retry' \in [auth : Nat, at : Nat, ver : Nat]
      BY <1>0, <2>1, InvalidateType
  <2> QED
      BY <1>0, <1>6, <2>2 DEF reportMdnsSnapshot, bounds, DecisionsOK, Selection, None
<1>7. CASE User
    BY <1>0, <1>7, UserType
<1>8. CASE \E a \in attempts : Attempt(a)
    BY <1>0, <1>8, AttemptType
<1>9. CASE withTransientPINForAuthority
    BY <1>0, <1>9 DEF withTransientPINForAuthority, pipeline, dialling, bounds, DecisionsOK
<1>10. CASE HandleShipHandshakeStateUpdate
    BY <1>0, <1>10 DEF HandleShipHandshakeStateUpdate, pipeline, bounds, DecisionsOK,
       Selection, None
<1>11. CASE HandleConnectionClosedWithAttempt
  <2>1. CASE trusted
    <3>1. /\ calls' = calls + 1 /\ link' = 0 /\ pin' \in {pin, 0}
          /\ UNCHANGED <<active, authority, attempts, spent, drainer, consumed, trusted, retry>>
        BY <1>11, <2>1 DEF HandleConnectionClosedWithAttempt, pipeline, Call
    <3> QED
        BY <1>0, <3>1 DEF DecisionsOK
  <2>2. CASE ~trusted
    <3>1. retirePairingCandidate(link, attempts) /\ link \in Nat /\ attempts \subseteq Attempts
        BY <1>0, <1>11, <2>2 DEF HandleConnectionClosedWithAttempt, DecisionsOK
    <3>2. UNCHANGED <<calls, spent, drainer, consumed, trusted, retry>>
        BY <1>11, <2>2 DEF HandleConnectionClosedWithAttempt, pipeline, bounds
    <3> QED
        BY <1>0, <3>1, <3>2, RetireType DEF DecisionsOK
  <2> QED
      BY <2>1, <2>2
<1> QED
    BY <1>1, <1>2, <1>3, <1>4, <1>5, <1>6, <1>7, <1>8, <1>9, <1>10, <1>11 DEF Next, Drain
-------------------------------------------------------------------------------
(* Types and admission.                                                    *)

\* Nothing is under way at first.
LEMMA InitBase == Init => BaseInv
<1> SUFFICES ASSUME Init PROVE BaseInv
    OBVIOUS
<1>1. Empty \in Table /\ <<Empty>> \in Seq(Table) /\ Len(<<Empty>>) = 1
    BY DEF Empty, Absent, Table, Cell
<1>2. Len(queue) = 0 /\ queue \in Seq(Task)
    BY DEF Init
<1>3. TypeOK
    BY <1>1, <1>2 DEF Init, TypeOK, Task, None, NoRetry
<1>4. LogInv
    BY <1>1, <1>2, BoundAssumption DEF Init, LogInv, Revision, Versions
<1>5. AdmissionInv
    BY <1>2 DEF Init, AdmissionInv
<1> QED
    BY <1>3, <1>4, <1>5 DEF BaseInv

\* Types, copies under way and admissions are kept together.
LEMMA NextBase == BaseInv /\ [Next]_vars => BaseInv'
<1> SUFFICES ASSUME BaseInv, [Next]_vars PROVE BaseInv'
    OBVIOUS
<1>1. TypeOK /\ LogInv
    BY DEF BaseInv
<1>2. LogInv' /\ AdmissionInv'
    BY PipelineKept
<1>3. DecisionsOK'
    BY <1>1, DecisionsKept
<1>4. log' \in Seq(Table) /\ log' # <<>> /\ generation' \in Nat /\ reports' \in [Versions -> Nat]
    BY <1>1, LogKept, ReportsKept
<1>5. /\ snapshotRevision' \in Nat /\ admission' \in Nat /\ queue' \in Seq(Task)
      /\ latest' \in Nat /\ applied' \in Nat /\ view' \in Nat
    BY PipelineKept
<1>6. TypeOK'
    BY <1>3, <1>4, <1>5 DEF DecisionsOK, TypeOK, Task, Selection, Attempts
<1> QED
    BY <1>2, <1>6 DEF BaseInv

\* The invariant that holds with and without early requests.
LEMMA BaseHolds == Spec => []BaseInv
<1>1. Init => BaseInv
    BY InitBase
<1>2. BaseInv /\ [Next]_vars => BaseInv'
    BY NextBase
<1> QED
    BY <1>1, <1>2, PTL DEF Spec

\* The variables keep their types, however the reports, the drainer, the user and
\* the attempts interleave: no report is taken that nobody has sent, and a
\* selection always has an address to dial.
THEOREM TypeCorrect == Spec => []TypeOK
<1>1. BaseInv => TypeOK
    BY DEF BaseInv
<1> QED
    BY <1>1, BaseHolds, PTL

\* When a candidate or a retry is let in (hub_mdns.go:128), the hub has applied
\* every snapshot it had admitted and shows the newest of them.
THEOREM AdmissionIsComplete == Spec => []AdmissionSeesAll
<1>1. BaseInv => AdmissionSeesAll
  <2> SUFFICES ASSUME BaseInv, applied = admission
               PROVE queue = <<>> /\ latest = snapshotRevision
      BY DEF AdmissionSeesAll
  <2>1. Len(queue) \in Nat /\ applied \in Nat /\ queue \in Seq(Task)
      BY QueueTypes DEF BaseInv
  <2>2. Len(queue) = 0
      BY <2>1 DEF BaseInv, AdmissionInv
  <2>3. queue = <<>>
      BY <2>1, <2>2, EmptySeq
  <2> QED
      BY <2>2, <2>3 DEF BaseInv, AdmissionInv
<1> QED
    BY <1>1, BaseHolds, PTL
-------------------------------------------------------------------------------
(* Retries.                                                                *)

\* The types of what RetryInv speaks about.
LEMMA AttemptTypes ==
    ASSUME TypeOK
    PROVE  /\ authority \in Nat /\ trusted \in BOOLEAN
           /\ \A a \in attempts : a \in Attempts /\ a.auth \in Nat
BY DEF TypeOK, Attempts

\* The authority is raised and every registered dial is cancelled.
LEMMA RevokeKeepsRetryInv ==
    ASSUME TypeOK, RetryInv, authority' \in Nat, authority' > authority, retry' = NoRetry,
           NEW as, as \subseteq attempts, attempts' = Unregistered(as)
    PROVE  RetryInv'
<1>1. \A a \in attempts' : a \in attempts /\ a.pc # "dialing"
    BY DEF Unregistered
<1>2. authority \in Nat /\ authority >= 1 /\ \A a \in attempts : a.auth \in Nat
    BY AttemptTypes DEF RetryInv
<1>3. \A a \in attempts : a.kind = "retry" => a.auth <= authority
    BY DEF RetryInv
<1>4. ASSUME NEW a \in attempts', a.kind = "retry"
      PROVE a.auth <= authority' /\ a.auth # authority'
  <2>1. a.auth \in Nat /\ a.auth <= authority
      BY <1>1, <1>2, <1>3, <1>4
  <2> QED
      BY <2>1, <1>2
<1>5. authority' >= 1
    BY <1>2
<1>6. \A a, b \in attempts' :
           a.kind = "retry" /\ b.kind = "retry" /\ a.auth = b.auth => a = b
    BY <1>1 DEF RetryInv
<1> QED
    BY <1>1, <1>4, <1>5, <1>6 DEF RetryInv

\* The goroutine of an attempt moves on to another place.
LEMMA MoveKeepsRetryInv ==
    ASSUME TypeOK, RetryInv, NEW a \in attempts,
           NEW pc \in {"launch", "checked", "dialing", "done"}, Move(a, pc),
           pc = "dialing" => authority = a.auth,
           UNCHANGED <<authority, retry, trusted, applied, view>>
    PROVE  RetryInv'
<1> DEFINE b == [a EXCEPT !.pc = pc]
<1>1. b.kind = a.kind /\ b.auth = a.auth /\ b.pc = pc
    BY DEF TypeOK
<1>2. attempts' = (attempts \ {a}) \cup {b}
    BY DEF Move
<1> HIDE DEF b
<1>3. \A c \in attempts' : c.kind = "retry" =>
           /\ c.auth <= authority
           /\ c.auth = authority => retry # NoRetry
           /\ c.pc = "dialing" => c.auth = authority
    BY <1>1, <1>2 DEF RetryInv
<1>4. \A c, d \in attempts' :
           c.kind = "retry" /\ d.kind = "retry" /\ c.auth = d.auth => c = d
    BY <1>1, <1>2 DEF RetryInv
<1> QED
    BY <1>3, <1>4 DEF RetryInv

\* Goroutines of retries end, or goroutines of candidates begin.
LEMMA FewerKeepsRetryInv ==
    ASSUME RetryInv, \A a \in attempts' : a \in attempts \/ a.kind # "retry",
           trusted => trusted',
           UNCHANGED <<authority, retry, applied, view>>
    PROVE  RetryInv'
BY DEF RetryInv

\* The authority is raised for a remote that has no retry.
LEMMA RaiseKeepsRetryInv ==
    ASSUME TypeOK, RetryInv, retry = NoRetry, authority' = authority + 1,
           \A a \in attempts' : a \in attempts \/ a.kind # "retry",
           UNCHANGED retry
    PROVE  RetryInv'
<1>1. authority \in Nat /\ authority >= 1 /\ \A a \in attempts : a.auth \in Nat
    BY AttemptTypes DEF RetryInv
<1>2. \A a \in attempts' : a.kind = "retry" =>
           /\ a.auth <= authority /\ a.auth \in Nat /\ a.pc # "dialing"
    BY <1>1 DEF RetryInv
<1>3. \A a \in attempts' : a.kind = "retry" => a.auth <= authority' /\ a.auth # authority'
    BY <1>1, <1>2
<1>4. authority' >= 1
    BY <1>1
<1>5. \A a, b \in attempts' :
           a.kind = "retry" /\ b.kind = "retry" /\ a.auth = b.auth => a = b
    BY DEF RetryInv
<1> QED
    BY <1>2, <1>3, <1>4, <1>5 DEF RetryInv

\* The end of a candidate.
LEMMA RetireKeepsRetryInv ==
    ASSUME TypeOK, RetryInv, NEW auth, NEW as, as \subseteq attempts,
           retirePairingCandidate(auth, as), UNCHANGED <<retry, trusted, applied, view>>
    PROVE  RetryInv'
<1>1. CASE active # None /\ active.auth = auth /\ ~trusted
  <2>1. authority' = authority + 1 /\ attempts' = Unregistered(as) /\ retry = NoRetry
      BY <1>1 DEF retirePairingCandidate, RetryInv
  <2>2. \A a \in attempts' : a \in attempts
      BY <2>1 DEF Unregistered
  <2> QED
      BY <2>1, <2>2, RaiseKeepsRetryInv
<1>2. CASE ~(active # None /\ active.auth = auth /\ ~trusted)
  <2>1. attempts' = as /\ UNCHANGED authority
      BY <1>2 DEF retirePairingCandidate
  <2> QED
      BY <2>1, FewerKeepsRetryInv
<1> QED
    BY <1>1, <1>2

\* A snapshot is applied.
LEMMA InvalidateKeepsRetryInv ==
    ASSUME TypeOK, RetryInv, NEW auth \in Nat,
           invalidateTrustedRemoteRetries(auth, attempts, link),
           auth = authority \/ (~trusted /\ auth = authority + 1), UNCHANGED trusted
    PROVE  RetryInv'
<1>0. authority \in Nat
    BY AttemptTypes
<1>1. CASE retry # NoRetry
  <2>1. authority' = auth + 1 /\ attempts' = Unregistered(attempts) /\ retry' = NoRetry
      BY <1>1 DEF invalidateTrustedRemoteRetries
  <2>2. authority' \in Nat /\ authority' > authority
      BY <1>0, <2>1
  <2> QED
      BY <2>1, <2>2, RevokeKeepsRetryInv
<1>2. CASE retry = NoRetry
  <2>1. authority' = auth /\ attempts' = attempts /\ retry' = retry
      BY <1>2 DEF invalidateTrustedRemoteRetries
  <2>2. CASE auth = authority
      BY <1>2, <2>1, <2>2 DEF RetryInv
  <2>3. CASE auth = authority + 1
      BY <1>2, <2>1, <2>3, RaiseKeepsRetryInv
  <2> QED
      BY <2>2, <2>3
<1> QED
    BY <1>1, <1>2

\* A step of an attempt's goroutine.
LEMMA AttemptKeepsRetryInv ==
    ASSUME TypeOK, RetryInv, NEW a \in attempts, Attempt(a)
    PROVE  RetryInv'
<1>0. a.auth \in Nat /\ authority \in Nat
    BY AttemptTypes
<1>1. CASE launchPairingCandidate(a)
  <2>1. UNCHANGED <<authority, retry, trusted, applied, view>>
      BY <1>1 DEF launchPairingCandidate, shown
  <2>2. CASE active.auth = a.auth /\ active.issued
      BY <1>1, <2>1, <2>2, MoveKeepsRetryInv DEF launchPairingCandidate
  <2>3. CASE ~(active.auth = a.auth /\ active.issued)
      BY <1>1, <2>1, <2>3, FewerKeepsRetryInv DEF launchPairingCandidate
  <2> QED
      BY <2>2, <2>3
<1>2. CASE runTrustedRemoteRetry(a)
  <2>1. UNCHANGED <<authority, retry, trusted, applied, view>>
      BY <1>2 DEF runTrustedRemoteRetry, shown
  <2>2. \E pc \in {"checked", "done"} : Move(a, pc)
      BY <1>2 DEF runTrustedRemoteRetry
  <2> QED
      BY <2>1, <2>2, MoveKeepsRetryInv
<1>3. CASE registerOutboundAttemptForLaunch(a)
  <2>1. UNCHANGED <<authority, retry, trusted, applied, view>>
      BY <1>3 DEF registerOutboundAttemptForLaunch, shown
  <2>2. \E pc \in {"dialing", "done"} : Move(a, pc) /\ (pc = "dialing" => authority = a.auth)
      BY <1>3 DEF registerOutboundAttemptForLaunch
  <2> QED
      BY <2>1, <2>2, MoveKeepsRetryInv
<1>4. CASE DialSucceeds(a)
  <2>1. UNCHANGED <<authority, retry, trusted, applied, view>>
      BY <1>4 DEF DialSucceeds, shown
  <2>2. CASE a.kind = "retry"
      BY <1>4, <2>1, <2>2, MoveKeepsRetryInv DEF DialSucceeds
  <2>3. CASE a.kind # "retry"
      BY <1>4, <2>1, <2>3, FewerKeepsRetryInv DEF DialSucceeds
  <2> QED
      BY <2>2, <2>3
<1>5. CASE DialFails(a)
  <2>1. UNCHANGED <<authority, retry, trusted, applied, view>> /\ Move(a, "done")
      BY <1>5 DEF DialFails, shown
  <2> QED
      BY <2>1, MoveKeepsRetryInv
<1>6. CASE candidateNotReached(a)
  <2>1. UNCHANGED <<retry, trusted, applied, view>>
        /\ retirePairingCandidate(a.auth, attempts \ {a})
      BY <1>6 DEF candidateNotReached, shown
  <2> QED
      BY <2>1, RetireKeepsRetryInv
<1>7. CASE finishTrustedRemoteRetry(a)
  <2>1. /\ a.kind = "retry" /\ attempts' = attempts \ {a}
        /\ retry' = (IF retry.auth = a.auth THEN NoRetry ELSE retry)
        /\ UNCHANGED <<authority, trusted, applied, view>>
      BY <1>7 DEF finishTrustedRemoteRetry, shown
  <2>2. CASE retry.auth # a.auth
      BY <2>1, <2>2, FewerKeepsRetryInv
  <2>3. CASE retry.auth = a.auth
    <3>1. \A b \in attempts' : b.kind = "retry" => b.auth # authority
        BY <2>1, <2>3 DEF RetryInv
    <3> QED
        BY <2>1, <2>3, <3>1 DEF RetryInv
  <2> QED
      BY <2>2, <2>3
<1> QED
    BY <1>1, <1>2, <1>3, <1>4, <1>5, <1>6, <1>7 DEF Attempt

\* Every step keeps RetryInv: whoever raises the authority cancels the dials that
\* are registered, and while a remote is trusted only its retry or the end of the
\* trust can raise it.
LEMMA NextRetry ==
    ASSUME TypeOK, RetryInv, [Next]_vars
    PROVE  RetryInv'
<1>0. authority \in Nat /\ authority >= 1
    BY AttemptTypes DEF RetryInv
<1>1. CASE UNCHANGED <<shown, authority, trusted, retry, attempts>>
    BY <1>1, FewerKeepsRetryInv DEF shown
<1>2. CASE reportStaleSnapshot
  <2>1. invalidateTrustedRemoteRetries(authority, attempts, link) /\ UNCHANGED trusted
      BY <1>2 DEF reportStaleSnapshot
  <2> QED
      BY <1>0, <2>1, InvalidateKeepsRetryInv
<1>3. CASE reportMdnsSnapshot
  <2>1. /\ UNCHANGED trusted
        /\ \/ invalidateTrustedRemoteRetries(authority, attempts, link)
           \/ ~trusted /\ invalidateTrustedRemoteRetries(authority + 1, attempts, link)
      BY <1>3 DEF reportMdnsSnapshot
  <2> QED
      BY <1>0, <2>1, InvalidateKeepsRetryInv
<1>4. ASSUME NEW ref \in Refs(view), NEW connect \in BOOLEAN,
             admitPairingCandidate(ref, connect)
      PROVE RetryInv'
  <2>1. /\ ~trusted /\ authority' = authority + 1
        /\ UNCHANGED <<retry, trusted, applied, view>>
        /\ \A a \in attempts' : a \in attempts \/ a.kind # "retry"
      BY <1>4 DEF admitPairingCandidate, shown, Goroutine
  <2>2. retry = NoRetry
      BY <2>1 DEF RetryInv
  <2> QED
      BY <1>0, <2>1, <2>2, RaiseKeepsRetryInv
<1>5. ASSUME NEW withPin \in BOOLEAN, connectPairingCandidate(withPin)
      PROVE RetryInv'
  <2>1. /\ UNCHANGED <<authority, retry, trusted, applied, view>>
        /\ \A a \in attempts' : a \in attempts \/ a.kind # "retry"
      BY <1>5 DEF connectPairingCandidate, shown, Goroutine
  <2> QED
      BY <2>1, FewerKeepsRetryInv
<1>6. CASE RegisterRemoteSKI \/ HandleShipHandshakeStateUpdate
  <2>1. trusted' /\ UNCHANGED <<authority, retry, attempts, applied, view>>
      BY <1>6 DEF RegisterRemoteSKI, HandleShipHandshakeStateUpdate, shown
  <2> QED
      BY <2>1, FewerKeepsRetryInv
<1>7. CASE UnregisterRemoteSKI
  <2>1. authority' = authority + 1 /\ retry' = NoRetry /\ attempts' = Unregistered(attempts)
      BY <1>7 DEF UnregisterRemoteSKI
  <2> QED
      BY <1>0, <2>1, RevokeKeepsRetryInv
<1>8. CASE RetryTrustedRemote
  <2> DEFINE g == Goroutine("retry", authority)
  <2>1. /\ retry = NoRetry /\ trusted /\ attempts' = attempts \cup {g}
        /\ retry' = [auth |-> authority, at |-> applied, ver |-> view]
        /\ UNCHANGED <<authority, trusted, applied, view>>
      BY <1>8 DEF RetryTrustedRemote, shown
  <2>2. g.kind = "retry" /\ g.auth = authority /\ g.pc = "launch"
      BY DEF Goroutine
  <2>3. retry' # NoRetry /\ retry'.auth = authority /\ retry'.at = applied /\ retry'.ver = view
      BY <1>0, <2>1 DEF NoRetry
  <2>4. \A a \in attempts : a.kind = "retry" => a.auth # authority
      BY <2>1 DEF RetryInv
  <2> HIDE DEF g
  <2>5. \A a, b \in attempts' :
             a.kind = "retry" /\ b.kind = "retry" /\ a.auth = b.auth => a = b
      BY <2>1, <2>2, <2>4 DEF RetryInv
  <2>6. \A a \in attempts' : a.kind = "retry" =>
             a.auth <= authority /\ (a.pc = "dialing" => a.auth = authority)
      BY <1>0, <2>1, <2>2 DEF RetryInv
  <2> QED
      BY <1>0, <2>1, <2>3, <2>5, <2>6 DEF RetryInv
<1>9. CASE \E a \in attempts : Attempt(a)
    BY <1>9, AttemptKeepsRetryInv
<1>10. CASE HandleConnectionClosedWithAttempt
  <2>1. UNCHANGED <<retry, trusted, applied, view>>
      BY <1>10 DEF HandleConnectionClosedWithAttempt, shown
  <2>2. CASE trusted
      BY <1>10, <2>1, <2>2, FewerKeepsRetryInv DEF HandleConnectionClosedWithAttempt
  <2>3. CASE ~trusted
      BY <1>10, <2>1, <2>3, RetireKeepsRetryInv DEF HandleConnectionClosedWithAttempt
  <2> QED
      BY <2>2, <2>3
<1>11. CASE \/ UNCHANGED vars
            \/ \E k \in Keys, s \in Sightings : processScopedMdnsEntry(k, s)
            \/ \E k \in Keys : removeMdnsEntry(k)
            \/ \E v \in Versions : enqueueMdnsSnapshot(v)
            \/ drainMdnsSnapshots \/ withTransientPINForAuthority
  <2>1. UNCHANGED <<shown, authority, trusted, retry, attempts>>
      BY <1>11 DEF vars, shown, dialling, processScopedMdnsEntry, removeMdnsEntry,
         enqueueMdnsSnapshot, drainMdnsSnapshots, withTransientPINForAuthority
  <2> QED
      BY <1>1, <2>1
<1> QED
    BY <1>2, <1>3, <1>4, <1>5, <1>6, <1>7, <1>8, <1>9, <1>10, <1>11 DEF Next, Drain, User

\* The invariant of the retry.
LEMMA RetryHolds == Spec => []RetryInv
<1>1. Init => RetryInv
    BY DEF Init, RetryInv, NoRetry
<1>2. BaseInv /\ RetryInv /\ [Next]_vars => RetryInv'
    BY NextRetry DEF BaseInv
<1> QED
    BY <1>1, <1>2, BaseHolds, PTL DEF Spec

\* A dial of a retry that is registered belongs to the observation it was started
\* for, however stale and newer snapshots, failed attempts, registrations and
\* unregistrations interleave with it (hub_mdns.go:342-344).
THEOREM RetryIsBound == Spec => []RetryIsCurrent
<1>1. RetryInv => RetryIsCurrent
    BY DEF RetryInv, RetryIsCurrent
<1> QED
    BY <1>1, RetryHolds, PTL
-------------------------------------------------------------------------------
(* The selection and its PIN.                                              *)

\* What is shown of the selection does not change with the manager's table.
LEMMA MatchKept ==
    ASSUME TypeOK, LogInv, [Next]_vars, UNCHANGED <<active, view>>
    PROVE  StillMatches(view)' <=> StillMatches(view)
<1>1. log'[view + 1] = log[view + 1]
    BY LogKept DEF LogInv, At
<1> QED
    BY <1>1 DEF StillMatches, Refs, Facts, Observed, At

\* The end of a candidate takes its PIN along.
LEMMA RetireKeepsSelection ==
    ASSUME TypeOK, LogInv, SelectionSound, [Next]_vars, NEW auth, NEW as,
           retirePairingCandidate(auth, as), UNCHANGED <<trusted, view>>
    PROVE  SelectionSound'
<1>1. CASE active # None /\ active.auth = auth /\ ~trusted
  <2>1. active' = None /\ pin' = (IF pin = auth THEN 0 ELSE pin)
      BY <1>1 DEF retirePairingCandidate
  <2> QED
      BY <1>1, <2>1 DEF SelectionSound
<1>2. CASE ~(active # None /\ active.auth = auth /\ ~trusted)
  <2>1. UNCHANGED <<active, pin>>
      BY <1>2 DEF retirePairingCandidate
  <2> QED
      BY <2>1, MatchKept DEF SelectionSound
<1> QED
    BY <1>1, <1>2

\* Every step keeps the selection sound, one case per action that touches it.
LEMMA NextSelection ==
    ASSUME TypeOK, LogInv, SelectionSound, [Next]_vars
    PROVE  SelectionSound'
<1>1. CASE UNCHANGED <<active, pin, trusted, view>>
    BY <1>1, MatchKept DEF SelectionSound
<1>2. CASE reportMdnsSnapshot
  <2> DEFINE ver     == Head(queue).ver
             retired == active # None /\ ~active.issued /\ ~trusted /\ ~StillMatches(ver)
  <2>1. /\ view' = ver /\ active' = (IF retired THEN None ELSE active)
        /\ pin' = (IF retired /\ pin = active.auth THEN 0 ELSE pin)
        /\ UNCHANGED <<trusted, log>>
      BY <1>2 DEF reportMdnsSnapshot, manager
  <2>2. CASE retired
      BY <2>1, <2>2 DEF SelectionSound
  <2>3. CASE ~retired
    <3>1. active' = active /\ pin' = pin
        BY <2>1, <2>3
    <3>2. StillMatches(view)' <=> StillMatches(ver)
        BY <2>1, <3>1 DEF StillMatches, Refs, Facts, Observed, At
    <3> QED
        BY <2>1, <2>3, <3>1, <3>2 DEF SelectionSound
  <2> QED
      BY <2>2, <2>3
<1>3. ASSUME NEW ref \in Refs(view), NEW connect \in BOOLEAN,
             admitPairingCandidate(ref, connect)
      PROVE SelectionSound'
  <2> DEFINE addresses == Facts(view, ref) \cap Addresses
  <2>1. /\ active = None /\ ~trusted /\ addresses # {}
        /\ active' = [ref |-> ref, host |-> Least(addresses),
                      auth |-> authority + 1, issued |-> connect]
        /\ UNCHANGED <<pin, trusted, view, log>>
      BY <1>3 DEF admitPairingCandidate, shown, manager
  <2>2. addresses \subseteq Nat
      BY ViewTypes DEF LogInv
  <2>3. Least(addresses) \in addresses
      BY <2>1, <2>2, LeastIn
  <2>4. StillMatches(view)'
      BY <2>1, <2>3 DEF StillMatches, Refs, Facts, Observed, At
  <2>5. pin' = 0
      BY <2>1 DEF SelectionSound, None, TypeOK
  <2> QED
      BY <2>4, <2>5 DEF SelectionSound
<1>4. ASSUME NEW withPin \in BOOLEAN, connectPairingCandidate(withPin)
      PROVE SelectionSound'
  <2>1. /\ active' = [active EXCEPT !.issued = TRUE] /\ ~trusted
        /\ pin' = (IF withPin THEN active.auth ELSE pin) /\ UNCHANGED trusted
      BY <1>4 DEF connectPairingCandidate
  <2>2. active'.issued = TRUE /\ active'.auth = active.auth
      BY <2>1 DEF TypeOK
  <2> QED
      BY <2>1, <2>2 DEF SelectionSound
<1>5. CASE RegisterRemoteSKI \/ HandleShipHandshakeStateUpdate
    BY <1>5 DEF RegisterRemoteSKI, HandleShipHandshakeStateUpdate, SelectionSound
<1>6. CASE UnregisterRemoteSKI
    BY <1>6 DEF UnregisterRemoteSKI, SelectionSound
<1>7. CASE withTransientPINForAuthority
  <2>1. pin' = 0 /\ UNCHANGED <<active, trusted, view>>
      BY <1>7 DEF withTransientPINForAuthority, shown, dialling
  <2> QED
      BY <2>1, MatchKept DEF SelectionSound
<1>8. CASE HandleConnectionClosedWithAttempt
  <2>1. UNCHANGED <<trusted, view>>
      BY <1>8 DEF HandleConnectionClosedWithAttempt, shown
  <2>2. CASE trusted
      BY <2>1, <2>2 DEF SelectionSound
  <2>3. CASE ~trusted
      BY <1>8, <2>1, <2>3, RetireKeepsSelection DEF HandleConnectionClosedWithAttempt
  <2> QED
      BY <2>2, <2>3
<1>9. ASSUME NEW a \in attempts, candidateNotReached(a)
      PROVE SelectionSound'
    BY <1>9, RetireKeepsSelection DEF candidateNotReached, shown
<1>10. CASE \/ UNCHANGED vars
            \/ \E k \in Keys, s \in Sightings : processScopedMdnsEntry(k, s)
            \/ \E k \in Keys : removeMdnsEntry(k)
            \/ \E v \in Versions : enqueueMdnsSnapshot(v)
            \/ drainMdnsSnapshots \/ reportStaleSnapshot \/ RetryTrustedRemote
    BY <1>1, <1>10 DEF vars, shown, dialling, pairing, processScopedMdnsEntry, removeMdnsEntry,
       enqueueMdnsSnapshot, drainMdnsSnapshots, reportStaleSnapshot, RetryTrustedRemote
<1>11. ASSUME NEW a \in attempts, Attempt(a), ~candidateNotReached(a)
       PROVE SelectionSound'
    BY <1>1, <1>11 DEF Attempt, launchPairingCandidate, runTrustedRemoteRetry,
       registerOutboundAttemptForLaunch, DialSucceeds, DialFails,
       finishTrustedRemoteRetry, pairing, shown
<1> QED
    BY <1>2, <1>3, <1>4, <1>5, <1>6, <1>7, <1>8, <1>9, <1>10, <1>11 DEF Next, Drain, User

\* A selection nobody has connected yet names a candidate and an address the hub
\* shows, and the PIN provider of an untrusted remote belongs to the candidate
\* that is being paired (hub_mdns.go:188-199, hub_pairing.go:497).
THEOREM SelectionIsSound == Spec => []SelectionSound
<1>1. Init => SelectionSound
    BY DEF Init, SelectionSound
<1>2. BaseInv /\ SelectionSound /\ [Next]_vars => SelectionSound'
    BY NextSelection DEF BaseInv
<1> QED
    BY <1>1, <1>2, BaseHolds, PTL DEF Spec
-------------------------------------------------------------------------------
(* The view, where entries are not requested before the first observation. *)

\* No copy of revision 0 is sent, so a snapshot has the number of its table.
LEMMA NextOrder ==
    ASSUME EarlyRequests = FALSE, BaseInv, OrderInv, [Next]_vars
    PROVE  OrderInv'
<1>0. /\ TypeOK /\ LogInv /\ Revision \in Nat /\ Revision \in Versions
      /\ 0 \in Versions /\ Versions \subseteq Nat
    BY BoundAssumption DEF BaseInv, LogInv, Versions
<1>1. reports'[0] = 0
  <2>1. CASE \E T \in Table : ExtendedBy(T)
    <3>1. reports' = [reports EXCEPT ![Revision + 1] = @ + 1] /\ Revision + 1 # 0
        BY <1>0, <2>1 DEF ExtendedBy
    <3> QED
        BY <1>0, <3>1 DEF OrderInv, TypeOK
  <2>2. CASE \E v \in Versions : enqueueMdnsSnapshot(v)
    <3>1. PICK v \in Versions : reports[v] > 0 /\ reports' = [reports EXCEPT ![v] = @ - 1]
        BY <2>2 DEF enqueueMdnsSnapshot
    <3>2. v # 0
        BY <3>1 DEF OrderInv
    <3> QED
        BY <1>0, <3>1, <3>2 DEF OrderInv, TypeOK
  <2>3. CASE RequestMdnsEntries
    <3>1. Revision # 0 /\ reports' = [reports EXCEPT ![Revision] = @ + 1]
        BY <1>0, <2>3 DEF RequestMdnsEntries, Send
    <3> QED
        BY <1>0, <3>1 DEF OrderInv, TypeOK
  <2>4. CASE UNCHANGED reports
      BY <2>4 DEF OrderInv
  <2> QED
      BY <1>0, <2>1, <2>2, <2>3, <2>4, LogStep
<1>2. ASSUME NEW v \in Versions, enqueueMdnsSnapshot(v)
      PROVE OrderInv'
  <2> DEFINE task == [rev |-> v, adm |-> admission + 1, ver |-> v]
  <2>1. v # 0
      BY <1>2 DEF enqueueMdnsSnapshot, OrderInv
  <2>2. queue' = Append(queue, task) /\ UNCHANGED <<latest, view>>
      BY <1>2, <2>1 DEF enqueueMdnsSnapshot, shown
  <2>3. queue \in Seq(Task) /\ Len(queue) \in Nat /\ task \in Task
      BY <1>0, QueueTypes DEF Task
  <2>4. /\ Len(queue') = Len(queue) + 1 /\ queue'[Len(queue) + 1] = task
        /\ \A i \in 1 .. Len(queue) : queue'[i] = queue[i]
      BY <2>2, <2>3, AppendProperties
  <2>5. task.ver = task.rev
      OBVIOUS
  <2> HIDE DEF task
  <2>6. \A i \in 1 .. Len(queue') : i \in 1 .. Len(queue) \/ i = Len(queue) + 1
      BY <2>3, <2>4
  <2> QED
      BY <1>1, <2>2, <2>4, <2>5, <2>6 DEF OrderInv
<1>3. CASE reportStaleSnapshot \/ reportMdnsSnapshot
  <2>1. /\ queue # <<>> /\ queue' = Tail(queue)
        /\ \/ UNCHANGED <<latest, view>>
           \/ latest' = Head(queue).rev /\ view' = Head(queue).ver
      BY <1>3 DEF reportStaleSnapshot, reportMdnsSnapshot
  <2>2. queue \in Seq(Task) /\ Len(queue) \in Nat /\ Len(queue) >= 1 /\ Head(queue) = queue[1]
      BY <1>0, <2>1, QueueTypes, EmptySeq
  <2>3. Head(queue).ver = Head(queue).rev
      BY <2>2 DEF OrderInv
  <2>4. \A i \in 1 .. Len(queue') : queue'[i] = queue[i + 1] /\ i + 1 \in 1 .. Len(queue)
      BY <2>1, <2>2, HeadTailProperties
  <2> QED
      BY <1>1, <2>1, <2>3, <2>4 DEF OrderInv
<1>4. CASE UNCHANGED <<snapshotRevision, admission, queue, shown>>
    BY <1>1, <1>4 DEF OrderInv, shown
<1> QED
    BY <1>2, <1>3, <1>4, PipelineFrame

\* A step leaves the view alone or moves it to a newer table, and the log grows by
\* one table at most.
LEMMA NextViews ==
    ASSUME EarlyRequests = FALSE, BaseInv, OrderInv, [Next]_vars
    PROVE  Views!Update \/ Views!CatchUp \/ UNCHANGED <<log, view>>
<1>0. TypeOK /\ LogInv
    BY DEF BaseInv
<1>1. CASE \E T \in Table : ExtendedBy(T)
  <2>1. PICK T \in Table : log' = Append(log, T) /\ UNCHANGED view
      BY <1>1 DEF ExtendedBy
  <2>2. log'[Len(log')] = T
      BY <1>0, <2>1, AppendProperties DEF TypeOK
  <2> QED
      BY <2>1, <2>2 DEF Views!Update
<1>2. CASE UNCHANGED log /\ reportMdnsSnapshot
  <2>1. /\ queue # <<>> /\ view' = Head(queue).ver /\ Head(queue).rev >= latest
      BY <1>2 DEF reportMdnsSnapshot
  <2>2. /\ queue \in Seq(Task) /\ Len(queue) \in Nat /\ Len(queue) >= 1
        /\ Head(queue) = queue[1] /\ queue[1] \in Task
      BY <1>0, <2>1, QueueTypes, EmptySeq
  <2>3. /\ Head(queue).ver = Head(queue).rev /\ Head(queue).ver \in Nat
        /\ Head(queue).ver <= Revision
      BY <1>0, <2>2, TaskFields DEF OrderInv, LogInv
  <2>4. view' \in Nat /\ view' >= view /\ view' <= Len(log) - 1 /\ view \in Nat /\ Len(log) \in Nat
      BY <1>0, <2>1, <2>3, LenProperties DEF OrderInv, Revision, TypeOK
  <2>5. CASE view' = view
      BY <1>2, <2>5
  <2>6. CASE view' # view
    <3>1. view' \in (view + 1) .. (Len(log) - 1)
        BY <2>4, <2>6
    <3> QED
        BY <1>2, <3>1 DEF Views!CatchUp
  <2> QED
      BY <2>5, <2>6
<1>3. CASE UNCHANGED log /\ ~reportMdnsSnapshot
    BY <1>3, PipelineFrame DEF enqueueMdnsSnapshot, reportStaleSnapshot, shown
<1> QED
    BY <1>0, <1>1, <1>2, <1>3, LogStep

\* The invariant of the numbers.
LEMMA OrderHolds ==
    ASSUME EarlyRequests = FALSE
    PROVE  Spec => []OrderInv
<1>1. Init => OrderInv
    BY BoundAssumption DEF Init, OrderInv, Versions
<1>2. BaseInv /\ OrderInv /\ [Next]_vars => OrderInv'
    BY NextOrder
<1> QED
    BY <1>1, <1>2, BaseHolds, PTL DEF Spec

\* Discovery implements the safe part of LatestView: whatever the order in which
\* the goroutines deliver the copies of the table, the hub shows one of them and
\* never goes back to an older one (hub_mdns.go:146-160).
THEOREM ViewIsLatest ==
    ASSUME EarlyRequests = FALSE
    PROVE  Spec => Views!SafeSpec
<1>1. Init => Views!Init
    BY DEF Init, Views!Init
<1>2. BaseInv /\ OrderInv /\ [Next]_vars => [Views!Next]_(Views!vars)
    BY NextViews DEF Views!Next, Views!vars
<1> QED
    BY <1>1, <1>2, BaseHolds, OrderHolds, PTL DEF Spec, Views!SafeSpec
-------------------------------------------------------------------------------
(* The candidates, where entries are not requested before the first one.   *)

\* A new table brings back no reference that had gone.
LEMMA NextLineage ==
    ASSUME TypeOK, LogInv, LineageInv, [Next]_vars
    PROVE  LineageInv'
<1>0. Revision \in Nat /\ \A v \in 0 .. Revision : Refs(v) \subseteq Nat \ {0}
    BY ViewTypes, BoundAssumption DEF LogInv, Versions
<1>1. CASE UNCHANGED <<log, generation>>
  <2>1. Revision' = Revision /\ generation' = generation
      BY <1>1 DEF Revision
  <2>2. \A v \in 0 .. Revision : Refs(v)' = Refs(v)
      BY LogKept
  <2> QED
      BY <2>1, <2>2 DEF LineageInv
<1>2. CASE \E T \in Table : ExtendedBy(T)
  <2>1. PICK T \in Table : ExtendedBy(T)
      BY <1>2
  <2>2. Revision' = Revision + 1 /\ log'[Revision' + 1] = T
      BY <1>0, <2>1, AppendProperties, LenProperties DEF TypeOK, ExtendedBy, Revision
  <2>3. \A v \in 0 .. Revision : Refs(v)' = Refs(v)
      BY LogKept
  <2>4. generation \in Nat /\ generation' \in Nat /\ generation <= generation'
      BY <2>1 DEF ExtendedBy, TypeOK
  <2>5. \A r \in Refs(Revision)' :
            r \in Refs(Revision) \/ (r = generation + 1 /\ generation' = r)
    <3>1. Refs(Revision)' = TableRefs(T)
        BY <2>2 DEF Refs, Observed, At, TableRefs
    <3> QED
        BY <2>1, <3>1 DEF ExtendedBy
  <2>6. Revision \in 0 .. Revision /\ \A r \in Refs(Revision) : r <= generation /\ r \in Nat
      BY <1>0 DEF LineageInv
  <2>7. \A v \in 0 .. Revision' : v \in 0 .. Revision \/ v = Revision'
      BY <1>0, <2>2
  <2>8. ASSUME NEW v \in 0 .. Revision', NEW r \in Refs(v)'
        PROVE r <= generation'
    <3>1. CASE v \in 0 .. Revision
      <4>1. r \in Refs(v) /\ r \in Nat /\ r <= generation
          BY <1>0, <2>3, <2>8, <3>1 DEF LineageInv
      <4> QED
          BY <4>1, <2>4
    <3>2. CASE v = Revision'
      <4>1. r \in Refs(Revision)'
          BY <2>8, <3>2
      <4>2. r \in Refs(Revision) \/ r = generation'
          BY <2>5, <4>1
      <4> QED
          BY <2>4, <2>6, <4>2
    <3> QED
        BY <2>7, <3>1, <3>2
  <2>9. ASSUME NEW v \in 0 .. Revision', NEW w \in 0 .. Revision', NEW x \in 0 .. Revision',
               v <= w, w <= x, NEW r \in Refs(v)', r \in Refs(x)'
        PROVE r \in Refs(w)'
    <3>1. CASE x \in 0 .. Revision
      <4>1. v \in 0 .. Revision /\ w \in 0 .. Revision
          BY <1>0, <2>9, <3>1
      <4>2. r \in Refs(v) /\ r \in Refs(x)
          BY <2>3, <2>9, <3>1, <4>1
      <4>3. r \in Refs(w)
          BY <2>9, <3>1, <4>1, <4>2 DEF LineageInv
      <4> QED
          BY <2>3, <4>1, <4>3
    <3>2. CASE x = Revision'
      <4>1. CASE w = Revision'
          BY <2>9, <3>2, <4>1
      <4>2. CASE w # Revision'
        <5>1. w \in 0 .. Revision /\ v \in 0 .. Revision /\ w <= Revision
            BY <1>0, <2>7, <2>9, <4>2
        <5>2. r \in Refs(v) /\ r \in Nat /\ r <= generation
            BY <1>0, <2>3, <2>9, <5>1 DEF LineageInv
        <5>3. r \in Refs(Revision)
          <6>1. r \in Refs(Revision)'
              BY <2>9, <3>2
          <6>2. r # generation + 1
              BY <2>4, <5>2
          <6> QED
              BY <2>5, <6>1, <6>2
        <5>4. r \in Refs(w)
            BY <2>6, <2>9, <5>1, <5>2, <5>3 DEF LineageInv
        <5> QED
            BY <2>3, <5>1, <5>4
      <4> QED
          BY <4>1, <4>2
    <3> QED
        BY <2>7, <3>1, <3>2
  <2> QED
      BY <2>8, <2>9 DEF LineageInv
<1> QED
    BY <1>1, <1>2, LogStep

\* The steps that change what is remembered of candidates.
LEMMA SpentFrame ==
    ASSUME [Next]_vars
    PROVE  \/ reportMdnsSnapshot
           \/ \E ref \in Refs(view), connect \in BOOLEAN : admitPairingCandidate(ref, connect)
           \/ UNCHANGED <<view, consumed, spent>>
BY DEF Next, vars, pipeline, shown, pairing, dialling, bounds, manager,
       processScopedMdnsEntry, removeMdnsEntry, enqueueMdnsSnapshot, Drain,
       drainMdnsSnapshots, reportStaleSnapshot, User,
       connectPairingCandidate, RegisterRemoteSKI,
       UnregisterRemoteSKI, RetryTrustedRemote, Attempt, launchPairingCandidate,
       runTrustedRemoteRetry, registerOutboundAttemptForLaunch, DialSucceeds,
       DialFails, candidateNotReached, finishTrustedRemoteRetry,
       withTransientPINForAuthority, HandleShipHandshakeStateUpdate,
       HandleConnectionClosedWithAttempt

\* A candidate that was selected is remembered as long as a copy of the table that
\* is shown or still to come may hold it.
LEMMA NextSpent ==
    ASSUME EarlyRequests = FALSE, BaseInv, OrderInv, LineageInv, SpentInv, [Next]_vars
    PROVE  SpentInv'
<1>0. /\ TypeOK /\ LogInv /\ Revision \in Nat /\ view \in 0 .. Revision /\ view \in Nat
      /\ view' \in 0 .. Revision' /\ Revision' \in Nat
    BY PipelineKept, BoundAssumption DEF BaseInv, LogInv, Versions
<1>1. \A v \in 0 .. Revision : Refs(v)' = Refs(v)
    BY <1>0, LogKept
<1>2. CASE (\E T \in Table : ExtendedBy(T))
  <2>1. PICK T \in Table : ExtendedBy(T)
      BY <1>2
  <2>2. Revision' = Revision + 1 /\ log'[Revision' + 1] = T
      BY <1>0, <2>1, AppendProperties, LenProperties DEF TypeOK, ExtendedBy, Revision
  <2>3. UNCHANGED <<view, spent, consumed>>
      BY <2>1 DEF ExtendedBy
  <2>4. \A r \in Refs(Revision)' : r \in Refs(Revision) \/ r = generation + 1
    <3>1. Refs(Revision)' = TableRefs(T)
        BY <2>2 DEF Refs, Observed, At, TableRefs
    <3> QED
        BY <2>1, <3>1 DEF ExtendedBy
  <2>5. generation \in Nat /\ \A r \in spent : r # generation + 1
    <3>1. \A r \in spent : \E v \in 0 .. Revision : r \in Refs(v)
        BY <1>0 DEF SpentInv
    <3>2. generation \in Nat /\ \A v \in 0 .. Revision : \A r \in Refs(v) : r \in Nat /\ r <= generation
        BY <1>0, ViewTypes DEF LineageInv, TypeOK
    <3> QED
        BY <3>1, <3>2
  <2>6. \A r \in spent : \E v \in 0 .. view : r \in Refs(v)'
    <3>1. \A v \in 0 .. view : v \in 0 .. Revision
        BY <1>0
    <3> QED
        BY <1>1, <3>1 DEF SpentInv
  <2>7. ASSUME NEW w \in view .. Revision', NEW r \in spent, r \in Refs(w)'
        PROVE r \in consumed
    <3>1. CASE w <= Revision
      <4>1. w \in view .. Revision /\ w \in 0 .. Revision
          BY <1>0, <2>2, <3>1
      <4> QED
          BY <1>1, <2>7, <4>1 DEF SpentInv
    <3>2. CASE ~(w <= Revision)
      <4>1. w = Revision' /\ Revision \in view .. Revision
          BY <1>0, <2>2, <3>2
      <4>2. r \in Refs(Revision)
        <5>1. r \in Refs(Revision)'
            BY <2>7, <4>1
        <5> QED
            BY <2>4, <2>5, <2>7, <5>1
      <4> QED
          BY <4>1, <4>2 DEF SpentInv
    <3> QED
        BY <3>1, <3>2
  <2> QED
      BY <2>3, <2>6, <2>7 DEF SpentInv
<1>3. ASSUME UNCHANGED log, reportMdnsSnapshot
      PROVE SpentInv'
  <2>1. /\ view' = Head(queue).ver /\ consumed' = consumed \cap Refs(Head(queue).ver)
        /\ UNCHANGED spent
      BY <1>3 DEF reportMdnsSnapshot, bounds
  <2>2. Revision' = Revision /\ view' \in view .. Revision
    <3>1. Revision' = Revision
        BY <1>3 DEF Revision
    <3>2. view' = view \/ view' \in (view + 1) .. (Len(log) - 1)
      <4>1. ~Views!Update
        <5>1. Len(log) # Len(log) + 1
            BY <1>0, LenProperties DEF TypeOK
        <5>2. \A T \in Table : Len(Append(log, T)) = Len(log) + 1
            BY <1>0, AppendProperties DEF TypeOK
        <5> QED
            BY <1>3, <5>1, <5>2 DEF Views!Update
      <4> QED
          BY <4>1, NextViews DEF Views!CatchUp
    <3> QED
        BY <1>0, <3>1, <3>2 DEF Revision
  <2> DEFINE ver == view'
  <2>3. \A v \in 0 .. Revision : Refs(v)' = Refs(v)
      BY <1>1
  <2>4. ASSUME NEW r \in spent PROVE \E v \in 0 .. ver : r \in Refs(v)'
    <3>1. PICK v \in 0 .. view : r \in Refs(v)
        BY DEF SpentInv
    <3>2. v \in 0 .. ver /\ v \in 0 .. Revision
        BY <1>0, <2>2
    <3> QED
        BY <2>3, <3>1, <3>2
  <2>5. ASSUME NEW w \in ver .. Revision, NEW r \in spent, r \in Refs(w)'
        PROVE r \in consumed'
    <3>1. w \in view .. Revision /\ w \in 0 .. Revision /\ ver \in 0 .. Revision /\ ver <= w
        BY <1>0, <2>2
    <3>2. r \in Refs(w) /\ r \in consumed
        BY <2>3, <2>5, <3>1 DEF SpentInv
    <3>3. PICK v \in 0 .. view : r \in Refs(v)
        BY DEF SpentInv
    <3>4. v \in 0 .. Revision /\ v <= ver
        BY <1>0, <2>2
    <3>5. r \in Refs(ver)
        BY <3>1, <3>2, <3>3, <3>4 DEF LineageInv
    <3> QED
        BY <2>1, <3>2, <3>5
  <2> QED
      BY <2>1, <2>2, <2>4, <2>5 DEF SpentInv
<1>4. ASSUME UNCHANGED log, NEW ref \in Refs(view), NEW connect \in BOOLEAN,
             admitPairingCandidate(ref, connect)
      PROVE SpentInv'
  <2>1. /\ spent' = spent \cup {ref} /\ consumed' = consumed \cup {ref}
        /\ UNCHANGED view /\ Revision' = Revision
      BY <1>4 DEF admitPairingCandidate, shown, Revision
  <2>2. \A r \in spent' : \E v \in 0 .. view : r \in Refs(v)'
    <3>1. \A v \in 0 .. view : v \in 0 .. Revision
        BY <1>0
    <3>2. view \in 0 .. view
        BY <1>0
    <3> QED
        BY <1>1, <2>1, <3>1, <3>2 DEF SpentInv
  <2>3. \A w \in view .. Revision : w \in 0 .. Revision
      BY <1>0
  <2> QED
      BY <1>1, <2>1, <2>2, <2>3 DEF SpentInv
<1>5. CASE UNCHANGED log /\ UNCHANGED <<view, consumed, spent>>
    BY <1>5 DEF SpentInv, Refs, Observed, At, Revision
<1> QED
    BY <1>0, <1>2, <1>3, <1>4, <1>5, LogStep, SpentFrame

\* The invariants of the candidates.
LEMMA SpentHolds ==
    ASSUME EarlyRequests = FALSE
    PROVE  Spec => [](LineageInv /\ SpentInv)
<1>1. Init => LineageInv /\ SpentInv
  <2> SUFFICES ASSUME Init PROVE LineageInv /\ SpentInv
      OBVIOUS
  <2>1. Revision = 0 /\ spent = {}
      BY DEF Init, Revision
  <2>2. Refs(0) = {}
      BY DEF Init, Refs, Observed, At, Empty, Absent
  <2>3. \A v \in 0 .. Revision : v = 0
      BY <2>1
  <2>4. LineageInv
      BY <2>2, <2>3 DEF LineageInv
  <2>5. SpentInv
      BY <2>1 DEF SpentInv
  <2> QED
      BY <2>4, <2>5
<1>2. BaseInv /\ OrderInv /\ LineageInv /\ SpentInv /\ [Next]_vars => (LineageInv /\ SpentInv)'
    BY NextLineage, NextSpent DEF BaseInv
<1> QED
    BY <1>1, <1>2, BaseHolds, OrderHolds, PTL DEF Spec

\* A candidate once admitted is never admitted again, whatever became of the first
\* selection and however the copies of the table overtake each other
\* (hub_pairing.go:145).
THEOREM CandidateIsSelectedOnce ==
    ASSUME EarlyRequests = FALSE
    PROVE  Spec => CandidateOnce
<1>1. ASSUME BaseInv, SpentInv, [Next]_vars,
             active'.auth # active.auth, active' # None
      PROVE active'.ref \notin spent
  <2>1. \E ref \in Refs(view), connect \in BOOLEAN : admitPairingCandidate(ref, connect)
      BY <1>1 DEF Next, vars, pairing, processScopedMdnsEntry, removeMdnsEntry,
         enqueueMdnsSnapshot, Drain, drainMdnsSnapshots, reportStaleSnapshot,
         reportMdnsSnapshot, User, connectPairingCandidate, RegisterRemoteSKI,
         UnregisterRemoteSKI, RetryTrustedRemote, Attempt, launchPairingCandidate,
         runTrustedRemoteRetry, registerOutboundAttemptForLaunch, DialSucceeds,
         DialFails, candidateNotReached, retirePairingCandidate,
         finishTrustedRemoteRetry, withTransientPINForAuthority,
         HandleShipHandshakeStateUpdate, HandleConnectionClosedWithAttempt, BaseInv, TypeOK
  <2>2. PICK ref \in Refs(view), connect \in BOOLEAN : admitPairingCandidate(ref, connect)
      BY <2>1
  <2>3. active'.ref = ref /\ ref \notin consumed
      BY <2>2 DEF admitPairingCandidate
  <2>4. view \in view .. Revision
      BY <1>1, BoundAssumption DEF BaseInv, LogInv, Versions
  <2> QED
      BY <1>1, <2>3, <2>4 DEF SpentInv
<1>2. BaseInv /\ SpentInv /\ [Next]_vars
        => [active'.auth # active.auth /\ active' # None => active'.ref \notin spent]_vars
    BY <1>1
<1> QED
    BY <1>2, BaseHolds, SpentHolds, PTL DEF Spec, CandidateOnce
===============================================================================
