----------------------------- MODULE MdnsAnnounce -----------------------------
(***************************************************************************)
(* The announcement of the local service: the life of the mDNS manager     *)
(* (mdns/mdns.go: start, shutdown, signal handler, announce, unannounce,   *)
(* the registration flags), the two providers it may use (avahi.go,        *)
(* zeroconf.go), and the reconnection to an Avahi daemon that goes away    *)
(* and comes back.                                                         *)
(*                                                                         *)
(* A step is what a thread does under lifecycleMu, under the mutex of a    *)
(* provider, or under both.  Of the announced text only the register entry *)
(* is kept; a text is a set of at most one Boolean, the empty set is none. *)
(* The Avahi daemon, external code, answers a provider that is connected   *)
(* to it and tells that provider when the connection is lost; published is *)
(* the text it was last asked to publish.  What the providers observe is   *)
(* the subject of MdnsDiscovery.                                           *)
(***************************************************************************)
EXTENDS Naturals

CONSTANTS
    Selections,   \* provider selections, each the set of providers to try
    Workers,      \* goroutines of attemptReconnect
    MaxCalls,     \* bound: calls of the hub
    MaxOutages    \* bound: how often the daemon goes away

ASSUME SelectionAssumption == Selections \subseteq SUBSET {"avahi", "zeroconf"}
ASSUME BoundAssumption == MaxCalls \in Nat /\ MaxOutages \in Nat

VARIABLES
    left,                                    \* the providers startProvider may still try
    claimed, terminal, provider,             \* startClaimed, terminal, mdnsProvider
    isAnnounced, flags,                      \* autoaccept and pairingRegistration
    lifecycle,                               \* who holds lifecycleMu
    once,                                    \* shutdownOnce: free, running, done
    stop,                                    \* signalStop is closed
    pc, text, mine,                          \* of the threads: place, text, provider
    manual, auto, setup, listening,          \* manualShutdown, autoReconnect, setupSuccessful, browser and listener
    data, entry,                             \* mdnsServiceData, avEntryGroup
    server,                                  \* avServer: off, on, or lost its daemon
    worker,                                  \* the goroutines of attemptReconnect
    zc, browsing,                            \* the zeroconf provider
    up, event, published,                    \* the daemon
    calls, outages, revived                  \* bounds; history: a reconnect undid a shutdown

manager == <<left, claimed, terminal, provider, isAnnounced, flags, once, stop>>
threads == <<lifecycle, pc, text, mine>>
avahi   == <<manual, auto, setup, listening, data, entry, server, published>>
zero    == <<zc, browsing>>
outside == <<worker, up, event, calls, outages, revived>>
vars    == <<manager, threads, avahi, zero, outside>>

Threads == {"starter", "caller", "closer", "handler"}
Closers == {"closer", "handler"}
Go(t, place)  == pc' = [pc EXCEPT ![t] = place]
LifecycleFree == lifecycle = "nobody"
registrationAvailable == flags # {}
-------------------------------------------------------------------------------
(* The Avahi provider.                                                     *)

\* start: the provider is in use from now on, whatever was called before; it
\* succeeds when the daemon answers, else it fails before or after the setup.
AvahiStart(reconnect, ok) ==
    /\ manual' = FALSE
    /\ listening' = (listening \/ ok)
    /\ auto' = (reconnect \/ ok)
    /\ ok => up
    /\ IF ok THEN setup' = TRUE /\ server' = "on"
       ELSE /\ ~up
            /\ \/ UNCHANGED <<setup, server>>
               \/ setup' = TRUE /\ server' = "off"
    /\ UNCHANGED <<data, entry, published>>

\* Announce: the text is kept for a reconnection before it is known to be published.
\* A second announcement makes a new entry group and drops the old one unfreed; the
\* model shows only the newest text, the one the provider can still withdraw.
AvahiAnnounce(t) ==
    /\ data' = t
    /\ IF server = "on" THEN entry' = t /\ published' = t
                        ELSE UNCHANGED <<entry, published>>
    /\ UNCHANGED <<manual, auto, setup, listening, server>>

AvahiUnannounce ==
    /\ data' = {} /\ entry' = {}
    /\ published' = IF entry = {} THEN published ELSE {}
    /\ UNCHANGED <<manual, auto, setup, listening, server>>

\* Shutdown, first section: no reconnection from here on, no more browsing.
AvahiShutdownBegins ==
    /\ manual' = TRUE
    /\ IF setup THEN auto' = FALSE /\ listening' = FALSE ELSE UNCHANGED <<auto, listening>>
    /\ UNCHANGED <<setup, data, entry, server, published>>

\* Shutdown, last section.
AvahiShutdownEnds ==
    /\ server' = "off" /\ published' = {} /\ entry' = {}
    /\ UNCHANGED <<manual, auto, setup, listening, data>>

Reconnect(w, place) == worker' = [worker EXCEPT ![w].pc = place]

\* Mutant: forgets what was announced.
CallbackForgets ==
    /\ event
    /\ event' = FALSE
    /\ \/ (manual \/ ~auto) /\ UNCHANGED worker
       \/ /\ ~manual /\ auto
          /\ \E w \in Workers :
                /\ worker[w].pc = "idle"
                /\ worker' = [worker EXCEPT ![w] = [pc |-> "look", data |-> {}]]
    /\ UNCHANGED <<manager, threads, avahi, zero, up, calls, outages, revived>>

\* The event that the connection to the daemon is lost.
avahiCallback ==
    /\ event
    /\ event' = FALSE
    /\ \/ (manual \/ ~auto) /\ UNCHANGED worker
       \/ /\ ~manual /\ auto
          /\ \E w \in Workers :
                /\ worker[w].pc = "idle"
                /\ worker' = [worker EXCEPT ![w] = [pc |-> "look", data |-> data]]
    /\ UNCHANGED <<manager, threads, avahi, zero, up, calls, outages, revived>>

\* attemptReconnect looks for a shutdown before its delay, ...
attemptReconnect(w) ==
    /\ worker[w].pc = "look"
    /\ Reconnect(w, IF manual THEN "idle" ELSE "sleep")
    /\ UNCHANGED <<manager, threads, avahi, zero, up, event, calls, outages, revived>>

\* ... starts the provider after it, ...
reconnectStarts(w) ==
    /\ worker[w].pc = "sleep"
    /\ \E ok \in BOOLEAN :
          /\ AvahiStart(TRUE, ok)
          /\ Reconnect(w, CASE ~ok -> "look"
                            [] ok /\ worker[w].data # {} -> "announce"
                            [] OTHER -> "idle")
    /\ revived' = (revived \/ manual)
    /\ UNCHANGED <<manager, threads, zero, up, event, calls, outages>>

\* ... and announces what was announced when the connection was lost.
reconnectAnnounces(w) ==
    /\ worker[w].pc = "announce"
    /\ AvahiAnnounce(worker[w].data)
    /\ Reconnect(w, "idle")
    /\ UNCHANGED <<manager, threads, zero, up, event, calls, outages, revived>>
-------------------------------------------------------------------------------
(* Start of the manager.                                                   *)

claimStart ==
    /\ pc["starter"] = "idle" /\ LifecycleFree /\ ~terminal /\ ~claimed
    /\ claimed' = TRUE
    /\ Go("starter", IF "avahi" \in left THEN "avahi" ELSE "zeroconf")
    /\ UNCHANGED <<left, terminal, provider, isAnnounced, flags, once, stop,
                   lifecycle, text, mine, avahi, zero, outside>>

\* startProvider: Avahi is asked to reconnect at once only where it must be used.
startAvahi ==
    /\ pc["starter"] = "avahi"
    /\ \E ok \in BOOLEAN :
          /\ AvahiStart(left = {"avahi"}, ok)
          /\ left' = IF ok THEN {} ELSE left \ {"avahi"}
          /\ Go("starter", IF ok THEN "install" ELSE "shut")
    /\ mine' = [mine EXCEPT !["starter"] = "avahi"]
    /\ UNCHANGED <<claimed, terminal, provider, isAnnounced, flags, once, stop,
                   lifecycle, text, zero, outside>>

startZeroconf ==
    /\ pc["starter"] = "zeroconf"
    /\ browsing' = TRUE /\ left' = {}
    /\ mine' = [mine EXCEPT !["starter"] = "zeroconf"]
    /\ Go("starter", "install")
    /\ UNCHANGED <<claimed, terminal, provider, isAnnounced, flags, once, stop,
                   lifecycle, text, avahi, zc, outside>>

\* Mutant: installs a provider after the shutdown.
InstallLate ==
    /\ pc["starter"] = "install" /\ LifecycleFree
    /\ provider' = mine["starter"] /\ Go("starter", "announce")
    /\ UNCHANGED <<left, claimed, terminal, isAnnounced, flags, once, stop,
                   lifecycle, text, mine, avahi, zero, outside>>

\* A provider that comes too late is shut down by Start itself.
installProvider ==
    /\ pc["starter"] = "install" /\ LifecycleFree
    /\ IF terminal THEN Go("starter", "shut") /\ UNCHANGED provider
       ELSE provider' = mine["starter"] /\ Go("starter", "announce")
    /\ UNCHANGED <<left, claimed, terminal, isAnnounced, flags, once, stop,
                   lifecycle, text, mine, avahi, zero, outside>>

installSignalHandler ==
    /\ pc["starter"] = "signal" /\ LifecycleFree
    /\ pc' = [pc EXCEPT !["starter"] = "returned",
                        !["handler"] = IF terminal THEN @ ELSE "waiting"]
    /\ UNCHANGED <<manager, lifecycle, text, mine, avahi, zero, outside>>
-------------------------------------------------------------------------------
(* Announcing.                                                             *)

\* Where a thread goes after AnnounceMdnsEntry: Start goes on unless it failed.
After(t, ok) ==
    IF t = "starter" THEN IF ok THEN "signal" ELSE "returned" ELSE "idle"

\* AnnounceMdnsEntry takes lifecycleMu and reads the flags, ...
AnnounceMdnsEntry(t) ==
    /\ pc[t] = "announce" /\ LifecycleFree
    /\ IF provider = "none"
       THEN Go(t, After(t, TRUE)) /\ UNCHANGED <<lifecycle, text>>
       ELSE /\ lifecycle' = t
            /\ text' = [text EXCEPT ![t] = {registrationAvailable}]
            /\ Go(t, "publish")
    /\ UNCHANGED <<manager, mine, avahi, zero, outside>>

\* ... has the provider publish the text, and notes that it has.
publish(t) ==
    LET ok == provider = "zeroconf" \/ server = "on"
    IN  /\ pc[t] = "publish"
        /\ IF provider = "avahi" THEN AvahiAnnounce(text[t]) /\ UNCHANGED zc
                                 ELSE zc' = text[t] /\ UNCHANGED avahi
        /\ isAnnounced' = (isAnnounced \/ ok)
        /\ lifecycle' = "nobody"
        /\ Go(t, After(t, ok))
        /\ UNCHANGED <<left, claimed, terminal, provider, flags, once, stop,
                       text, mine, browsing, outside>>

\* SetAutoAccept and SetPairingRegistration, ...
SetRegistration(flag) ==
    /\ pc["caller"] = "idle" /\ calls < MaxCalls /\ calls' = calls + 1
    /\ flags' = IF flag \in flags THEN flags \ {flag} ELSE flags \cup {flag}
    /\ Go("caller", "check")
    /\ UNCHANGED <<left, claimed, terminal, provider, isAnnounced, once, stop,
                   lifecycle, text, mine, avahi, zero, worker, up, event, outages, revived>>

\* ... which publish the text again if it was published before.
isServiceAnnounced ==
    /\ pc["caller"] = "check"
    /\ Go("caller", IF isAnnounced THEN "announce" ELSE "idle")
    /\ UNCHANGED <<manager, lifecycle, text, mine, avahi, zero, outside>>

\* The hub announces the service again when it looks for a remote.
Reannounce ==
    /\ pc["caller"] = "idle" /\ calls < MaxCalls /\ calls' = calls + 1
    /\ Go("caller", "announce")
    /\ UNCHANGED <<manager, lifecycle, text, mine, avahi, zero, worker, up, event,
                   outages, revived>>

UnannounceMdnsEntry ==
    /\ pc["caller"] = "idle" /\ calls < MaxCalls /\ calls' = calls + 1
    /\ isAnnounced
    /\ Go("caller", "unannounce")
    /\ UNCHANGED <<manager, lifecycle, text, mine, avahi, zero, worker, up, event,
                   outages, revived>>

Withdraw(kind) ==
    CASE kind = "avahi"    -> AvahiUnannounce /\ UNCHANGED zc
      [] kind = "zeroconf" -> zc' = {} /\ UNCHANGED avahi
      [] OTHER             -> UNCHANGED <<avahi, zc>>

unannounce ==
    /\ pc["caller"] = "unannounce" /\ LifecycleFree
    /\ Withdraw(provider)
    /\ isAnnounced' = (isAnnounced /\ provider = "none")
    /\ Go("caller", "idle")
    /\ UNCHANGED <<left, claimed, terminal, provider, flags, once, stop,
                   lifecycle, text, mine, browsing, outside>>
-------------------------------------------------------------------------------
(* Shutdown, by the hub or by the signal handler.                          *)

Shutdown ==
    /\ pc["closer"] = "idle"
    /\ Go("closer", "once")
    /\ UNCHANGED <<manager, lifecycle, text, mine, avahi, zero, outside>>

\* runSignalHandler: either case closes signalDone first.
runSignalHandler(signalled) ==
    /\ pc["handler"] = "waiting"
    /\ signalled \/ stop
    /\ Go("handler", IF signalled THEN "once" ELSE "returned")
    /\ UNCHANGED <<manager, lifecycle, text, mine, avahi, zero, outside>>

shutdownOnce(t) ==
    /\ pc[t] = "once"
    /\ \/ once = "free" /\ once' = "running" /\ Go(t, "take")
       \/ once = "done" /\ Go(t, "returned") /\ UNCHANGED once
    /\ UNCHANGED <<left, claimed, terminal, provider, isAnnounced, flags, stop,
                   lifecycle, text, mine, avahi, zero, outside>>

\* The provider and the channels of the signal handler are taken.
takeProvider(t) ==
    /\ pc[t] = "take" /\ LifecycleFree
    /\ terminal' = TRUE /\ provider' = "none"
    /\ mine' = [mine EXCEPT ![t] = provider]
    /\ stop' = (pc["handler"] # "off")
    /\ Go(t, "await")
    /\ UNCHANGED <<left, claimed, isAnnounced, flags, once, lifecycle, text,
                   avahi, zero, outside>>

\* Mutant: the handler has returned, if there was one.
AwaitReturn(t) ==
    /\ pc[t] = "await" /\ (stop => pc["handler"] = "returned")
    /\ IF mine[t] = "none" THEN Go(t, "returned") /\ once' = "done"
                           ELSE Go(t, "withdraw") /\ UNCHANGED once
    /\ UNCHANGED <<left, claimed, terminal, provider, isAnnounced, flags, stop,
                   lifecycle, text, mine, avahi, zero, outside>>

\* signalDone: the handler has left its select, if there was one.
awaitHandler(t) ==
    /\ pc[t] = "await" /\ (stop => pc["handler"] # "waiting")
    /\ IF mine[t] = "none" THEN Go(t, "returned") /\ once' = "done"
                           ELSE Go(t, "withdraw") /\ UNCHANGED once
    /\ UNCHANGED <<left, claimed, terminal, provider, isAnnounced, flags, stop,
                   lifecycle, text, mine, avahi, zero, outside>>

withdrawAnnouncement(t) ==
    /\ pc[t] = "withdraw"
    /\ Withdraw(IF isAnnounced THEN mine[t] ELSE "none")
    /\ isAnnounced' = FALSE
    /\ Go(t, "shut")
    /\ UNCHANGED <<left, claimed, terminal, provider, flags, once, stop,
                   lifecycle, text, mine, browsing, outside>>

\* The end of provider.Shutdown: Start falls back to zeroconf or fails.
ProviderIsShut(t) ==
    /\ IF t = "starter"
       THEN Go(t, IF left # {} THEN "zeroconf" ELSE "returned") /\ UNCHANGED once
       ELSE Go(t, "returned") /\ once' = "done"
    /\ UNCHANGED <<left, claimed, terminal, provider, isAnnounced, flags, stop,
                   lifecycle, text, mine, outside>>

shutZeroconf(t) ==
    /\ pc[t] = "shut" /\ mine[t] = "zeroconf"
    /\ zc' = {} /\ browsing' = FALSE
    /\ ProviderIsShut(t)
    /\ UNCHANGED avahi

shutAvahi(t) ==
    /\ pc[t] = "shut" /\ mine[t] = "avahi"
    /\ AvahiShutdownBegins
    /\ IF setup THEN /\ Go(t, "free")
                     /\ UNCHANGED <<manager, lifecycle, text, mine, outside>>
                ELSE ProviderIsShut(t)
    /\ UNCHANGED zero

freeEntryGroup(t) ==
    /\ pc[t] = "free"
    /\ AvahiUnannounce
    /\ Go(t, "server")
    /\ UNCHANGED <<manager, lifecycle, text, mine, zero, outside>>

shutServer(t) ==
    /\ pc[t] = "server"
    /\ AvahiShutdownEnds
    /\ ProviderIsShut(t)
    /\ UNCHANGED zero
ProviderShutdown(t) ==
    shutZeroconf(t) \/ shutAvahi(t) \/ freeEntryGroup(t) \/ shutServer(t)
-------------------------------------------------------------------------------
(* The daemon.                                                             *)

daemonStops ==
    /\ up /\ outages < MaxOutages
    /\ up' = FALSE /\ outages' = outages + 1
    /\ published' = {}
    /\ IF server = "on" THEN server' = "lost" /\ event' = TRUE ELSE UNCHANGED <<server, event>>
    /\ UNCHANGED <<manager, threads, manual, auto, setup, listening, data, entry, zero,
                   worker, calls, revived>>

daemonStarts ==
    /\ ~up
    /\ up' = TRUE
    /\ UNCHANGED <<manager, threads, avahi, zero, worker, event, calls, outages, revived>>
-------------------------------------------------------------------------------
Init ==
    /\ left \in Selections
    /\ claimed = FALSE /\ terminal = FALSE /\ provider = "none"
    /\ isAnnounced = FALSE /\ flags = {} /\ lifecycle = "nobody" /\ once = "free" /\ stop = FALSE
    /\ pc = [t \in Threads |-> IF t = "handler" THEN "off" ELSE "idle"]
    /\ text = [t \in Threads |-> {}] /\ mine = [t \in Threads |-> "none"]
    /\ manual = FALSE /\ auto = FALSE /\ setup = FALSE /\ listening = FALSE
    /\ data = {} /\ entry = {} /\ server = "off" /\ published = {}
    /\ worker = [w \in Workers |-> [pc |-> "idle", data |-> {}]]
    /\ zc = {} /\ browsing = FALSE
    /\ up \in BOOLEAN /\ event = FALSE
    /\ calls = 0 /\ outages = 0 /\ revived = FALSE

Starting == claimStart \/ startAvahi \/ startZeroconf \/ installProvider \/ installSignalHandler
Announcing(t) == AnnounceMdnsEntry(t) \/ publish(t)
Shutting(t) ==
    \/ shutdownOnce(t) \/ takeProvider(t) \/ awaitHandler(t) \/ withdrawAnnouncement(t)
    \/ ProviderShutdown(t)
Caller  == isServiceAnnounced \/ unannounce
Daemon  == daemonStops \/ daemonStarts
Work(w) == attemptReconnect(w) \/ reconnectStarts(w) \/ reconnectAnnounces(w)
User ==
    \/ Shutdown \/ Reannounce \/ UnannounceMdnsEntry
    \/ \E flag \in {"autoaccept", "pairing"} : SetRegistration(flag)

Next ==
    \/ Starting \/ ProviderShutdown("starter") \/ Caller \/ Daemon \/ User
    \/ avahiCallback
    \/ \E t \in {"starter", "caller"} : Announcing(t)
    \/ \E t \in Closers : Shutting(t)
    \/ \E signalled \in BOOLEAN : runSignalHandler(signalled)
    \/ \E w \in Workers : Work(w)

Spec == Init /\ [][Next]_vars

\* Threads that have begun go on; nobody has to call, to signal or to restart
\* the daemon.
FairSpec ==
    /\ Spec
    /\ WF_vars(Starting \/ ProviderShutdown("starter")) /\ WF_vars(Caller) /\ WF_vars(avahiCallback)
    /\ \A t \in {"starter", "caller"} : WF_vars(Announcing(t))
    /\ \A t \in Closers : WF_vars(Shutting(t))
    /\ WF_vars(runSignalHandler(FALSE))
    /\ \A w \in Workers : WF_vars(Work(w))
-------------------------------------------------------------------------------
TypeOK ==
    /\ left \subseteq {"avahi", "zeroconf"} /\ flags \subseteq {"autoaccept", "pairing"}
    /\ {claimed, terminal, isAnnounced, stop, manual, auto, setup, listening,
        browsing, up, event, revived} \subseteq BOOLEAN
    /\ provider \in {"none", "avahi", "zeroconf"}
    /\ mine \in [Threads -> {"none", "avahi", "zeroconf"}]
    /\ lifecycle \in Threads \cup {"nobody"} /\ once \in {"free", "running", "done"}
    /\ text \in [Threads -> SUBSET BOOLEAN]
    /\ {data, entry, published, zc} \subseteq SUBSET BOOLEAN
    /\ server \in {"off", "on", "lost"}
    /\ worker \in [Workers -> [pc : {"idle", "look", "sleep", "announce"}, data : SUBSET BOOLEAN]]
    /\ calls \in Nat /\ outages \in Nat

\* The types, and this: after Shutdown and Start have returned nothing is
\* announced and no provider runs, in whatever order the two met; the provider
\* that Start brings too late is shut down as well (mdns.go:184).  Only a
\* reconnection that was asleep when the provider was shut down can start it
\* again (avahi.go:273-280).
ShutdownInv ==
    /\ TypeOK
    /\ once = "done" /\ pc["starter"] \in {"idle", "returned"} /\ ~revived =>
           server # "on" /\ ~listening /\ ~browsing /\ published = {} /\ zc = {}

\* Shutdown returns, although it waits for the signal handler, which may be
\* calling Shutdown itself (mdns.go:305-306, 345).
ShutdownReturns == pc["closer"] = "once" ~> pc["closer"] = "returned"

\* A service that is announced is on the network again once the daemon is back
\* and stays (avahi.go:288).
Reannounced ==
    (isAnnounced /\ up) ~> (published # {} \/ zc # {} \/ ~up \/ ~isAnnounced \/ terminal)
===============================================================================
