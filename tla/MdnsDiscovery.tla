---------------------------- MODULE MdnsDiscovery ----------------------------
(***************************************************************************)
(* Discovery, from the observations of the mDNS manager (mdns/mdns.go) to  *)
(* the decisions the hub takes on them (hub/hub_mdns.go, hub_pairing.go,   *)
(* hub_connections.go).  The manager numbers its table and sends every     *)
(* copy of it in a goroutine of its own, so copies overtake each other;    *)
(* the hub queues them, one thread at a time drains the queue, and the     *)
(* user selects pairing candidates and retries trusted remotes from what   *)
(* was applied.                                                            *)
(*                                                                         *)
(* There is one remote SKI.  A copy of the table is named by the revision  *)
(* the manager copied with it; log[r + 1] is what it held.  A sighting is  *)
(* the set of facts one resolved service shows: its addresses and the      *)
(* values of its text record.  A step is what a thread does under one      *)
(* lock, or under several taken together.  The delayed reconnects the      *)
(* drainer starts are in HubReconnect, the races of connections in         *)
(* HubConnections.  The 64-bit revision does not wrap here.                *)
(***************************************************************************)
EXTENDS Integers, Sequences, FiniteSets

CONSTANTS
    Keys,           \* observation keys, in their sorting order
    Addresses,      \* addresses, in the order orderedConnectionAddresses gives them
    Sightings,      \* what may be observed: sets of addresses and other facts
    EarlyRequests,  \* may entries be requested before anything was observed?
    MaxUpdates,     \* bound: how often the table changes
    MaxCalls        \* bound: how many calls the user makes

ASSUME KeyAssumption == Keys \subseteq Nat
ASSUME SightingAssumption ==
    Addresses \subseteq Nat \ {0} /\ Sightings \subseteq SUBSET (Nat \ {0})
ASSUME RequestAssumption == EarlyRequests \in BOOLEAN
ASSUME BoundAssumption == MaxUpdates \in Nat /\ MaxCalls \in Nat

VARIABLES
    log,               \* the tables the manager has had: entries and candidateRefs
    generation,        \* candidateGeneration
    reports,           \* reports[r]: goroutines under way with the copy of revision r
    snapshotRevision,  \* mdnsSnapshotRevision
    admission,         \* mdnsSnapshotAdmission
    queue,             \* mdnsSnapshotQueue
    drainer,           \* where the thread that drains the queue is
    latest,            \* latestPairingObservationRevision
    applied,           \* mdnsAppliedAdmission
    view,              \* the copy the visible candidates and observations come from
    consumed,          \* consumedPairingCandidates
    active,            \* activePairingCandidates[ski]
    pin,               \* authority of transientPINProviders[ski], or 0
    authority,         \* outboundAuthorities[ski]
    trusted,           \* service.Trusted()
    retry,             \* activeTrustedRemoteRetries[ski]
    attempts,          \* the goroutines of candidates and retries
    link,              \* authority of the outgoing connection registered, or 0
    calls,             \* bound: calls made
    spent              \* history: candidates admitted so far

manager  == <<log, generation, reports>>
pipeline == <<snapshotRevision, admission, queue, drainer>>
shown    == <<latest, applied, view>>
pairing  == <<consumed, active, pin>>
dialling == <<authority, trusted, retry, attempts, link>>
bounds   == <<calls, spent>>
vars     == <<manager, pipeline, shown, pairing, dialling, bounds>>

Cell     == [facts : SUBSET (Nat \ {0}), ref : Nat]
Absent   == [facts |-> {}, ref |-> 0]
Table    == [Keys -> Cell]
Empty    == [k \in Keys |-> Absent]
Versions == 0 .. MaxUpdates
Revision == Len(log) - 1
At(v)    == log[v + 1]

None     == [ref |-> 0, host |-> 0, auth |-> 0, issued |-> FALSE]
NoRetry  == [auth |-> 0, at |-> 0, ver |-> 0]

Observed(v)   == {k \in Keys : At(v)[k].ref # 0}
Refs(v)       == {At(v)[k].ref : k \in Observed(v)}
Facts(v, ref) == UNION {At(v)[k].facts : k \in {j \in Observed(v) : At(v)[j].ref = ref}}
Least(S)      == CHOOSE a \in S : \A b \in S : a <= b
-------------------------------------------------------------------------------
(* The mDNS manager.                                                       *)

Send(r) == reports' = [reports EXCEPT ![r] = @ + 1]

\* A service was resolved.  Losing a fact rotates the candidate; the same facts
\* in another order are an update as well.
processScopedMdnsEntry(k, s) ==
    LET cell   == At(Revision)[k]
        rotate == cell.ref = 0 \/ ~(cell.facts \subseteq s)
        ref    == IF rotate THEN generation + 1 ELSE cell.ref
    IN  /\ Revision < MaxUpdates
        /\ log' = Append(log, [At(Revision) EXCEPT ![k] = [facts |-> s, ref |-> ref]])
        /\ generation' = IF rotate THEN generation + 1 ELSE generation
        /\ Send(Revision + 1)
        /\ UNCHANGED <<pipeline, shown, pairing, dialling, bounds>>

\* A service has gone.
removeMdnsEntry(k) ==
    /\ Revision < MaxUpdates
    /\ k \in Observed(Revision)
    /\ log' = Append(log, [At(Revision) EXCEPT ![k] = Absent])
    /\ Send(Revision + 1)
    /\ UNCHANGED <<generation, pipeline, shown, pairing, dialling, bounds>>

\* The copy is sent whatever it holds; its revision is 0 before the first observation.
RequestMdnsEntries ==
    /\ EarlyRequests \/ Revision > 0
    /\ Send(Revision)
    /\ UNCHANGED <<log, generation>>
-------------------------------------------------------------------------------
(* The queue of snapshots.  A report of revision 0 gets the next local one. *)

\* Mutant: takes a report nobody has sent.
EnqueueUnsent(v) ==
    /\ reports' = [reports EXCEPT ![v] = @ - 1]
    /\ UNCHANGED <<log, generation, pipeline, shown, pairing, dialling, bounds>>

\* Mutant: counts only the admission of a snapshot that is newer.
EnqueueCountsNewer(v) ==
    LET rev   == IF v = 0 THEN snapshotRevision + 1 ELSE v
        newer == rev > snapshotRevision
    IN  /\ reports[v] > 0
        /\ reports' = [reports EXCEPT ![v] = @ - 1]
        /\ snapshotRevision' = IF newer THEN rev ELSE snapshotRevision
        /\ admission' = IF newer THEN admission + 1 ELSE admission
        /\ queue' = Append(queue, [rev |-> rev, adm |-> admission', ver |-> v])
        /\ drainer' = IF drainer = "off" THEN "take" ELSE drainer
        /\ UNCHANGED <<log, generation, shown, pairing, dialling, bounds>>

enqueueMdnsSnapshot(v) ==
    LET rev == IF v = 0 THEN snapshotRevision + 1 ELSE v
    IN  /\ reports[v] > 0
        /\ reports' = [reports EXCEPT ![v] = @ - 1]
        /\ snapshotRevision' = IF rev > snapshotRevision THEN rev ELSE snapshotRevision
        /\ admission' = admission + 1
        /\ queue' = Append(queue, [rev |-> rev, adm |-> admission + 1, ver |-> v])
        /\ drainer' = IF drainer = "off" THEN "take" ELSE drainer
        /\ UNCHANGED <<log, generation, shown, pairing, dialling, bounds>>

\* The drainer stops when the queue is empty.  A task stays at the head of the
\* queue here until it is applied: nobody else looks there.
drainMdnsSnapshots ==
    /\ drainer = "take"
    /\ drainer' = IF queue = <<>> THEN "off" ELSE "apply"
    /\ UNCHANGED <<manager, snapshotRevision, admission, queue, shown,
                   pairing, dialling, bounds>>

Unregistered(as) == {a \in as : a.pc # "dialing"}

\* Every applied snapshot has a new admission, so it ends whatever retry there is.
invalidateTrustedRemoteRetries(auth, as, conn) ==
    IF retry = NoRetry
    THEN /\ authority' = auth /\ attempts' = as /\ link' = conn
         /\ UNCHANGED retry
    ELSE /\ authority' = auth + 1 /\ attempts' = Unregistered(as) /\ link' = 0
         /\ retry' = NoRetry

\* Mutant: a stale snapshot does not end the retry.
StaleKeepsRetry ==
    /\ drainer = "apply" /\ queue # <<>>
    /\ Head(queue).rev < latest
    /\ applied' = Head(queue).adm
    /\ queue' = Tail(queue) /\ drainer' = "take"
    /\ UNCHANGED <<manager, snapshotRevision, admission, latest, view,
                   pairing, dialling, bounds>>

\* The path of a snapshot older than the latest one.
reportStaleSnapshot ==
    LET task == Head(queue)
    IN  /\ drainer = "apply" /\ queue # <<>>
        /\ task.rev < latest
        /\ applied' = task.adm
        /\ invalidateTrustedRemoteRetries(authority, attempts, link)
        /\ queue' = Tail(queue)
        /\ drainer' = "take"
        /\ UNCHANGED <<manager, snapshotRevision, admission, latest, view,
                       pairing, trusted, bounds>>

\* pairingCandidateObservationMatchesActive, of a candidate that is still visible.
StillMatches(v) ==
    active.ref \in Refs(v) /\ active.host \in Facts(v, active.ref) \cap Addresses

\* Mutant: shows every snapshot, an older one too.
ReportInAnyOrder ==
    /\ drainer = "apply" /\ queue # <<>>
    /\ latest' = IF Head(queue).rev > latest THEN Head(queue).rev ELSE latest
    /\ applied' = Head(queue).adm /\ view' = Head(queue).ver
    /\ queue' = Tail(queue) /\ drainer' = "take"
    /\ UNCHANGED <<manager, snapshotRevision, admission, pairing, dialling, bounds>>

\* A selection nobody has connected yet is retired when the snapshot lacks it.
reportMdnsSnapshot ==
    LET task    == Head(queue)
        retired == active # None /\ ~active.issued /\ ~trusted /\ ~StillMatches(task.ver)
    IN  /\ drainer = "apply" /\ queue # <<>>
        /\ task.rev >= latest
        /\ latest' = task.rev
        /\ applied' = task.adm
        /\ view' = task.ver
        /\ consumed' = consumed \cap Refs(task.ver)
        /\ active' = IF retired THEN None ELSE active
        /\ pin' = IF retired /\ pin = active.auth THEN 0 ELSE pin
        /\ invalidateTrustedRemoteRetries(
               IF retired THEN authority + 1 ELSE authority, attempts, link)
        /\ queue' = Tail(queue)
        /\ drainer' = "take"
        /\ UNCHANGED <<manager, snapshotRevision, admission, trusted, bounds>>
-------------------------------------------------------------------------------
(* Pairing candidates.                                                     *)

Call == calls < MaxCalls /\ calls' = calls + 1

lockPairingCandidateAdmission == applied = admission

Goroutine(kind, auth) == [kind |-> kind, auth |-> auth, pc |-> "launch"]

\* Mutant: does not remember the candidate that was selected.
AdmitForgets(ref, connect) ==
    /\ Call
    /\ lockPairingCandidateAdmission
    /\ ref \in Refs(view) /\ Facts(view, ref) \cap Addresses # {}
    /\ ~trusted /\ active = None
    /\ authority' = authority + 1
    /\ active' = [ref |-> ref, host |-> Least(Facts(view, ref) \cap Addresses),
                  auth |-> authority + 1, issued |-> FALSE]
    /\ spent' = spent \cup {ref}
    /\ UNCHANGED <<manager, pipeline, shown, consumed, pin, trusted, retry, attempts, link>>

\* SelectPairingCandidate, and QueuePairingCandidate where connect is true.
admitPairingCandidate(ref, connect) ==
    LET addresses == Facts(view, ref) \cap Addresses
    IN  /\ Call
        /\ lockPairingCandidateAdmission
        /\ ref \notin consumed /\ ref \in Refs(view)
        /\ addresses # {}
        /\ ~trusted /\ active = None
        /\ consumed' = consumed \cup {ref}
        /\ authority' = authority + 1
        /\ active' = [ref |-> ref, host |-> Least(addresses),
                      auth |-> authority + 1, issued |-> connect]
        /\ attempts' = IF connect THEN attempts \cup
                           {Goroutine("candidate", authority + 1)}
                       ELSE attempts
        /\ spent' = spent \cup {ref}
        /\ UNCHANGED <<manager, pipeline, shown, pin, trusted, retry, link>>

\* ConnectPairingCandidate, and ConnectPairingCandidateWithPIN where withPin is true.
connectPairingCandidate(withPin) ==
    /\ Call
    /\ lockPairingCandidateAdmission
    /\ active # None /\ ~trusted /\ ~active.issued
    /\ active' = [active EXCEPT !.issued = TRUE]
    /\ pin' = IF withPin THEN active.auth ELSE pin
    /\ attempts' = attempts \cup {Goroutine("candidate", active.auth)}
    /\ UNCHANGED <<manager, pipeline, shown, consumed, authority, trusted,
                   retry, link, spent>>

\* Mutant: leaves the PIN provider behind.
RetireKeepsPin(auth, as) ==
    IF active # None /\ active.auth = auth /\ ~trusted
    THEN /\ authority' = authority + 1
         /\ active' = None
         /\ attempts' = Unregistered(as)
         /\ link' = 0
         /\ UNCHANGED pin
    ELSE /\ attempts' = as
         /\ UNCHANGED <<authority, active, pin, link>>

\* retireActivePairingCandidateLocked and the cancellation of its attempts, for
\* the candidate with this authority; as is what remains of the goroutines.
retirePairingCandidate(auth, as) ==
    IF active # None /\ active.auth = auth /\ ~trusted
    THEN /\ authority' = authority + 1
         /\ active' = None
         /\ pin' = IF pin = auth THEN 0 ELSE pin
         /\ attempts' = Unregistered(as)
         /\ link' = 0
    ELSE /\ attempts' = as
         /\ UNCHANGED <<authority, active, pin, link>>

Move(a, pc) == attempts' = (attempts \ {a}) \cup {[a EXCEPT !.pc = pc]}

\* The goroutine of a candidate looks whether it is still the active one.
launchPairingCandidate(a) ==
    /\ a.kind = "candidate" /\ a.pc = "launch"
    /\ IF active.auth = a.auth /\ active.issued THEN Move(a, "checked")
                                                ELSE attempts' = attempts \ {a}
    /\ UNCHANGED <<manager, pipeline, shown, pairing, authority, trusted,
                   retry, link, bounds>>

\* The last look at the authority and the connections before the dial.
registerOutboundAttemptForLaunch(a) ==
    /\ a.pc = "checked"
    /\ Move(a, IF authority = a.auth /\ link = 0 THEN "dialing" ELSE "done")
    /\ UNCHANGED <<manager, pipeline, shown, pairing, authority, trusted,
                   retry, link, bounds>>

DialSucceeds(a) ==
    /\ a.pc = "dialing" /\ link = 0
    /\ link' = a.auth
    /\ IF a.kind = "retry" THEN Move(a, "done") ELSE attempts' = attempts \ {a}
    /\ UNCHANGED <<manager, pipeline, shown, pairing, authority, trusted,
                   retry, bounds>>

DialFails(a) ==
    /\ a.pc = "dialing"
    /\ Move(a, "done")
    /\ UNCHANGED <<manager, pipeline, shown, pairing, authority, trusted,
                   retry, link, bounds>>

\* A candidate that could not be reached is retired.
candidateNotReached(a) ==
    /\ a.kind = "candidate" /\ a.pc = "done"
    /\ retirePairingCandidate(a.auth, attempts \ {a})
    /\ UNCHANGED <<manager, pipeline, shown, consumed, trusted, retry, bounds>>

\* The handshake of the connection takes the PIN it was given.
withTransientPINForAuthority ==
    /\ pin # 0 /\ pin = link
    /\ pin' = 0
    /\ UNCHANGED <<manager, pipeline, shown, consumed, active, dialling, bounds>>

\* The handshake reaches HelloOk.
HandleShipHandshakeStateUpdate ==
    /\ link # 0 /\ ~trusted
    /\ trusted' = TRUE
    /\ active' = None
    /\ UNCHANGED <<manager, pipeline, shown, consumed, pin, authority, retry,
                   attempts, link, bounds>>

\* The connection closes: its PIN goes, its candidate is retired, and a trusted
\* remote is looked for again.
HandleConnectionClosedWithAttempt ==
    /\ link # 0
    /\ IF trusted
       THEN /\ Call
            /\ pin' = IF pin = link THEN 0 ELSE pin
            /\ link' = 0
            /\ RequestMdnsEntries
            /\ UNCHANGED <<active, authority, attempts, spent>>
       ELSE /\ retirePairingCandidate(link, attempts)
            /\ active.auth = link
            /\ UNCHANGED <<manager, bounds>>
    /\ UNCHANGED <<pipeline, shown, consumed, trusted, retry>>
-------------------------------------------------------------------------------
(* Trusted remotes.                                                        *)

\* A service somebody registered is looked for unless it is connected.
RegisterRemoteSKI ==
    /\ Call
    /\ trusted' = TRUE
    /\ active' = None
    /\ IF link = 0 THEN RequestMdnsEntries ELSE UNCHANGED manager
    /\ UNCHANGED <<pipeline, shown, consumed, pin, authority, retry, attempts,
                   link, spent>>

\* revokeOutboundAttempts, from UnregisterRemoteSKI and CancelPairingWithSKI.
UnregisterRemoteSKI ==
    /\ Call
    /\ authority' = authority + 1
    /\ attempts' = Unregistered(attempts)
    /\ active' = None /\ pin' = 0 /\ retry' = NoRetry
    /\ trusted' = FALSE
    /\ link' = 0
    /\ UNCHANGED <<manager, pipeline, shown, consumed, spent>>

\* One attempt at the endpoint of the view, the first observation key's.
RetryTrustedRemote ==
    /\ Call
    /\ applied = admission
    /\ Observed(view) # {}
    /\ trusted /\ retry = NoRetry /\ link = 0
    /\ \A a \in attempts : a.pc # "dialing"
    /\ retry' = [auth |-> authority, at |-> applied, ver |-> view]
    /\ attempts' = attempts \cup {Goroutine("retry", authority)}
    /\ UNCHANGED <<manager, pipeline, shown, pairing, authority, trusted,
                   link, spent>>

trustedRemoteRetryStillCurrent(a) ==
    /\ retry.auth = a.auth /\ retry.ver = view
    /\ applied = admission
    /\ trusted /\ link = 0
    /\ \A b \in attempts : b.pc # "dialing"
    /\ authority = a.auth

runTrustedRemoteRetry(a) ==
    /\ a.kind = "retry" /\ a.pc = "launch"
    /\ Move(a, IF trustedRemoteRetryStillCurrent(a) THEN "checked" ELSE "done")
    /\ UNCHANGED <<manager, pipeline, shown, pairing, authority, trusted,
                   retry, link, bounds>>

finishTrustedRemoteRetry(a) ==
    /\ a.kind = "retry" /\ a.pc = "done"
    /\ retry' = IF retry.auth = a.auth THEN NoRetry ELSE retry
    /\ attempts' = attempts \ {a}
    /\ UNCHANGED <<manager, pipeline, shown, pairing, authority, trusted,
                   link, bounds>>
-------------------------------------------------------------------------------
Init ==
    /\ log = <<Empty>> /\ generation = 0 /\ reports = [v \in Versions |-> 0]
    /\ snapshotRevision = 0 /\ admission = 0 /\ queue = <<>> /\ drainer = "off"
    /\ latest = 0 /\ applied = 0 /\ view = 0
    /\ consumed = {} /\ active = None /\ pin = 0
    /\ authority = 1 /\ trusted = FALSE /\ retry = NoRetry /\ attempts = {} /\ link = 0
    /\ calls = 0 /\ spent = {}

Drain == drainMdnsSnapshots \/ reportStaleSnapshot \/ reportMdnsSnapshot

Attempt(a) ==
    \/ launchPairingCandidate(a) \/ runTrustedRemoteRetry(a)
    \/ registerOutboundAttemptForLaunch(a) \/ DialSucceeds(a) \/ DialFails(a)
    \/ candidateNotReached(a) \/ finishTrustedRemoteRetry(a)

User ==
    \/ \E ref \in Refs(view), connect \in BOOLEAN : admitPairingCandidate(ref, connect)
    \/ \E withPin \in BOOLEAN : connectPairingCandidate(withPin)
    \/ RegisterRemoteSKI \/ UnregisterRemoteSKI \/ RetryTrustedRemote

Next ==
    \/ \E k \in Keys, s \in Sightings : processScopedMdnsEntry(k, s)
    \/ \E k \in Keys : removeMdnsEntry(k)
    \/ \E v \in Versions : enqueueMdnsSnapshot(v)
    \/ Drain
    \/ User
    \/ \E a \in attempts : Attempt(a)
    \/ withTransientPINForAuthority
    \/ HandleShipHandshakeStateUpdate \/ HandleConnectionClosedWithAttempt

Spec == Init /\ [][Next]_vars

\* Every goroutine of a report runs, and the drainer is never stopped.
FairSpec ==
    /\ Spec
    /\ \A v \in Versions : WF_vars(enqueueMdnsSnapshot(v))
    /\ WF_vars(Drain)
-------------------------------------------------------------------------------
TypeOK ==
    /\ log \in Seq(Table) /\ log # <<>>
    /\ generation \in Nat
    /\ reports \in [Versions -> Nat]
    /\ snapshotRevision \in Nat /\ admission \in Nat
    /\ queue \in Seq([rev : Nat, adm : Nat, ver : Nat])
    /\ drainer \in {"off", "take", "apply"}
    /\ latest \in Nat /\ applied \in Nat /\ view \in Nat
    /\ consumed \subseteq Nat
    /\ active \in [ref : Nat, host : Nat, auth : Nat, issued : BOOLEAN]
    /\ pin \in Nat /\ authority \in Nat /\ trusted \in BOOLEAN
    /\ retry \in [auth : Nat, at : Nat, ver : Nat]
    /\ attempts \subseteq [kind : {"candidate", "retry"}, auth : Nat,
                           pc : {"launch", "checked", "dialing", "done"}]
    /\ link \in Nat /\ calls \in Nat /\ spent \subseteq Nat

\* When the hub lets a candidate or a retry pass (hub_mdns.go:128), it has
\* applied every snapshot it had accepted and shows the newest of them, in
\* whatever order the goroutines delivered them.
AdmissionSeesAll ==
    applied = admission => queue = <<>> /\ latest = snapshotRevision

\* A registered dial of a retry belongs to the observation it was started for:
\* no snapshot was applied since, not even a stale one (hub_mdns.go:342-344).
RetryIsCurrent ==
    \A a \in attempts : a.kind = "retry" /\ a.pc = "dialing" =>
        /\ retry.auth = a.auth /\ a.auth = authority
        /\ retry.at = applied /\ retry.ver = view

\* The selected candidate fits what the hub shows and what it keeps for it.
\* A selection nobody has connected yet names a candidate of the view, at an
\* address that candidate still has (hub_mdns.go:188-199), and the PIN provider
\* of an untrusted remote belongs to the candidate that is being paired: every
\* end of the pairing takes it along (hub_pairing.go:497).
SelectionSound ==
    ~trusted => /\ active # None /\ ~active.issued => StillMatches(view)
                /\ pin # 0 => active.auth = pin

\* One selection per candidate: a candidate once admitted never gets another
\* authority, however the copies of the table overtake each other and whatever
\* becomes of the first one (hub_pairing.go:145).
CandidateOnce ==
    [][active'.auth # active.auth /\ active' # None => active'.ref \notin spent]_vars

\* The hub's view implements LatestView: it only moves to newer copies of the
\* table and reaches the newest one once the table stops changing
\* (hub_mdns.go:146-160).
Views == INSTANCE LatestView WITH shown <- view
Refines == Views!Spec

\* When no report is under way the hub shows the table the manager has
\* (api/pairing_candidate.go:162 calls even an empty one authoritative).
Converges ==
    (\A v \in Versions : reports[v] = 0) /\ queue = <<>> => view = Revision
===============================================================================
