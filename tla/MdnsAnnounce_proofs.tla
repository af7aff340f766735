------------------------- MODULE MdnsAnnounce_proofs -------------------------
(***************************************************************************)
(* ShutdownInv of MdnsAnnounce, for any number of goroutines of            *)
(* attemptReconnect and any choice of providers.                           *)
(*                                                                         *)
(* A provider that does something has a holder: Start before it installs   *)
(* it or while it shuts it down, the manager, or the thread in Shutdown.   *)
(* A shutdown ends when the last holder lets go, and whoever lets go has   *)
(* silenced the provider.  The reconnections are what makes this hard:     *)
(* they act for a provider without holding it, so that the invariant has   *)
(* to say that it is held as long as one of them may still start it        *)
(* (InPlay), unless a shutdown is known (manual) or was undone (revived).  *)
(***************************************************************************)
EXTENDS MdnsAnnounce, TLAPS

Places ==
    {"off", "idle", "avahi", "zeroconf", "install", "shut", "free", "server", "announce",
     "publish", "signal", "returned", "check", "unannounce", "waiting", "once", "take",
     "await", "withdraw"}

\* Where a thread in Shutdown is past shutdownOnce, and past the taking.
Working == {"take", "await", "withdraw", "shut", "free", "server"}
Holding == {"await", "withdraw", "shut", "free", "server"}

\* Where Start has not installed a provider.
Bringing == {"idle", "avahi", "zeroconf", "install", "shut", "free", "server"}

\* Who answers for a provider.
Held(kind) ==
    \/ provider = kind
    \/ mine["starter"] = kind /\ pc["starter"] \in {"install", "shut", "free", "server"}
    \/ \E t \in Closers : mine[t] = kind /\ pc[t] \in Holding

\* Something may still make the Avahi provider act.
InPlay ==
    \/ setup \/ auto \/ event \/ listening \/ server # "off"
    \/ \E w \in Workers : worker[w].pc # "idle"

PlaceInv ==
    /\ pc \in [Threads -> Places]
    /\ pc["handler"] # "off" => pc["starter"] = "returned"
    /\ pc["handler"] \in {"off", "waiting", "once", "returned"} \cup Working
    /\ pc["closer"] \in {"idle", "once", "returned"} \cup Working
    /\ pc["caller"] \in {"idle", "check", "announce", "publish", "unannounce"}
    /\ \A t \in Threads : pc[t] = "publish" => lifecycle = t /\ provider # "none"
    /\ \A t \in Threads : pc[t] \in {"free", "server"} => mine[t] = "avahi"

\* One thread at a time shuts the manager down, for good.
OnceInv ==
    /\ once # "running" => \A t \in Closers : pc[t] \notin Working
    /\ \A t, u \in Closers : pc[t] \in Working /\ pc[u] \in Working => t = u
    /\ \A t \in Closers : pc[t] \in Holding => terminal
    /\ once = "done" => terminal
    /\ terminal \/ pc["starter"] \in Bringing => provider = "none"

\* What zeroconf does it does for a holder.
ZeroconfInv == browsing \/ zc # {} => Held("zeroconf")

\* What Avahi does it does for a holder, unless a shutdown was undone; as long as
\* it is not told to stop, so may everything that can make it act.
AvahiInv ==
    /\ pc["starter"] \in {"idle", "avahi"} => ~manual /\ ~InPlay /\ ~Held("avahi")
    /\ ~setup => server = "off" /\ ~listening /\ published = {}
    /\ ~revived =>
          /\ server = "on" \/ published # {} => Held("avahi")
          /\ ~manual /\ InPlay => Held("avahi")
          /\ manual => ~listening
          /\ \A t \in Threads : pc[t] \in {"free", "server"} => manual

Inv == TypeOK /\ PlaceInv /\ OnceInv /\ ZeroconfInv /\ AvahiInv

USE DEF manager, threads, avahi, zero, outside

\* The kinds of steps, by who takes them.
LEMMA NextCases ==
    ASSUME Next
    PROVE  \/ claimStart \/ startAvahi \/ startZeroconf \/ installProvider
           \/ installSignalHandler \/ isServiceAnnounced \/ unannounce
           \/ daemonStops \/ daemonStarts \/ avahiCallback
           \/ Shutdown \/ Reannounce \/ UnannounceMdnsEntry
           \/ \E flag \in {"autoaccept", "pairing"} : SetRegistration(flag)
           \/ \E t \in {"starter", "caller"} : AnnounceMdnsEntry(t) \/ publish(t)
           \/ \E t \in Closers :
                 shutdownOnce(t) \/ takeProvider(t) \/ awaitHandler(t) \/ withdrawAnnouncement(t)
           \/ \E t \in {"starter", "closer", "handler"} :
                 shutZeroconf(t) \/ shutAvahi(t) \/ freeEntryGroup(t) \/ shutServer(t)
           \/ \E signalled \in BOOLEAN : runSignalHandler(signalled)
           \/ \E w \in Workers :
                 attemptReconnect(w) \/ reconnectStarts(w) \/ reconnectAnnounces(w)
BY DEF Next, Starting, ProviderShutdown, Caller, Daemon, User, Announcing, Shutting, Work,
   Closers

\* A thread goes to a place.
LEMMA GoType ==
    ASSUME pc \in [Threads -> Places], NEW t \in Threads, NEW l \in Places, Go(t, l)
    PROVE  /\ pc' \in [Threads -> Places] /\ pc'[t] = l
           /\ \A u \in Threads \ {t} : pc'[u] = pc[u]
BY DEF Go

\* Where the threads may be, and who holds lifecycleMu while it publishes.
LEMMA PlaceStep ==
    ASSUME TypeOK, PlaceInv, OnceInv, Next
    PROVE  PlaceInv'
<1>0. /\ pc \in [Threads -> Places] /\ "starter" \in Threads /\ "caller" \in Threads
      /\ "closer" \in Threads /\ "handler" \in Threads /\ Closers \subseteq Threads
    BY DEF PlaceInv, Threads, Closers
<1>1. CASE claimStart
    BY <1>0, <1>1 DEF PlaceInv, Places, Threads, Go, claimStart
<1>12. CASE startAvahi \/ startZeroconf
  <2>1. \E l \in {"install", "shut"} : Go("starter", l)
      BY <1>12 DEF startAvahi, startZeroconf
  <2>2. /\ UNCHANGED <<lifecycle, provider>> /\ pc["starter"] \in {"avahi", "zeroconf"}
        /\ \A t \in Threads \ {"starter"} : mine'[t] = mine[t]
      BY <1>12 DEF startAvahi, startZeroconf, TypeOK
  <2> QED
      BY <1>0, <2>1, <2>2 DEF PlaceInv, Places, Threads, Go
<1>2. CASE installProvider
    BY <1>0, <1>2 DEF PlaceInv, Places, Threads, Go, installProvider, LifecycleFree
<1>3. CASE installSignalHandler
    BY <1>0, <1>3 DEF PlaceInv, Places, Threads, installSignalHandler
<1>4. ASSUME NEW t \in {"starter", "caller"}, AnnounceMdnsEntry(t) PROVE PlaceInv'
    BY <1>0, <1>4 DEF PlaceInv, Places, Threads, Go, AnnounceMdnsEntry, After, LifecycleFree
<1>5. ASSUME NEW t \in {"starter", "caller"}, publish(t) PROVE PlaceInv'
    BY <1>0, <1>5 DEF PlaceInv, Places, Threads, Go, publish, After
<1>6. CASE isServiceAnnounced \/ unannounce \/ Reannounce \/ UnannounceMdnsEntry
           \/ \E flag \in {"autoaccept", "pairing"} : SetRegistration(flag)
    BY <1>0, <1>6 DEF PlaceInv, Places, Threads, Go, isServiceAnnounced, unannounce, Reannounce,
       UnannounceMdnsEntry, SetRegistration
<1>7. CASE Shutdown \/ \E signalled \in BOOLEAN : runSignalHandler(signalled)
    BY <1>0, <1>7 DEF PlaceInv, Places, Working, Threads, Go, Shutdown, runSignalHandler
<1>8. ASSUME NEW t \in Closers, shutdownOnce(t) \/ awaitHandler(t) \/ withdrawAnnouncement(t)
      PROVE PlaceInv'
    BY <1>0, <1>8 DEF PlaceInv, Places, Working, Threads, Closers, Go, shutdownOnce, awaitHandler,
       withdrawAnnouncement
<1>9. ASSUME NEW t \in Closers, takeProvider(t) PROVE PlaceInv'
    BY <1>0, <1>9 DEF PlaceInv, Places, Working, Threads, Closers, Go, takeProvider, LifecycleFree
<1>10. ASSUME NEW t \in {"starter", "closer", "handler"},
              shutZeroconf(t) \/ shutAvahi(t) \/ freeEntryGroup(t) \/ shutServer(t)
       PROVE PlaceInv'
    BY <1>0, <1>10 DEF PlaceInv, Places, Working, Threads, Go, shutZeroconf, shutAvahi,
       freeEntryGroup, shutServer, ProviderIsShut
<1>11. CASE \/ daemonStops \/ daemonStarts \/ avahiCallback
            \/ \E w \in Workers :
                  attemptReconnect(w) \/ reconnectStarts(w) \/ reconnectAnnounces(w)
    BY <1>11 DEF PlaceInv, daemonStops, daemonStarts, avahiCallback, attemptReconnect,
       reconnectStarts, reconnectAnnounces
<1> QED
    BY <1>1, <1>2, <1>3, <1>4, <1>5, <1>6, <1>7, <1>8, <1>9, <1>10, <1>11, <1>12, NextCases

\* One thread at a time is in Shutdown, and the manager loses its provider for good.
LEMMA OnceStep ==
    ASSUME TypeOK, PlaceInv, OnceInv, Next
    PROVE  OnceInv'
<1>0. /\ pc \in [Threads -> Places] /\ "starter" \in Threads /\ "caller" \in Threads
      /\ "closer" \in Threads /\ "handler" \in Threads /\ Closers = {"closer", "handler"}
    BY DEF PlaceInv, Threads, Closers
<1>1. CASE claimStart \/ startAvahi \/ startZeroconf \/ installProvider
    BY <1>0, <1>1 DEF OnceInv, Bringing, Go, claimStart, startAvahi, startZeroconf, installProvider
<1>2. CASE installSignalHandler
    BY <1>0, <1>2 DEF PlaceInv, OnceInv, Bringing, Working, Holding, installSignalHandler
<1>3. CASE \/ \E t \in {"starter", "caller"} : AnnounceMdnsEntry(t) \/ publish(t)
           \/ isServiceAnnounced \/ unannounce \/ Reannounce \/ UnannounceMdnsEntry
           \/ \E flag \in {"autoaccept", "pairing"} : SetRegistration(flag)
  <2>1. /\ pc'["closer"] = pc["closer"] /\ pc'["handler"] = pc["handler"]
        /\ UNCHANGED <<once, terminal, provider>>
        /\ pc'["starter"] = pc["starter"] \/ pc'["starter"] \notin Bringing
    <3>1. CASE \E t \in {"starter", "caller"} : AnnounceMdnsEntry(t)
        BY <1>0, <3>1 DEF Go, AnnounceMdnsEntry, After, Bringing
    <3>2. CASE \E t \in {"starter", "caller"} : publish(t)
        BY <1>0, <3>2 DEF Go, publish, After, Bringing
    <3>3. CASE \/ isServiceAnnounced \/ unannounce \/ Reannounce \/ UnannounceMdnsEntry
               \/ \E flag \in {"autoaccept", "pairing"} : SetRegistration(flag)
        BY <1>0, <3>3 DEF Go, isServiceAnnounced, unannounce, Reannounce, UnannounceMdnsEntry,
           SetRegistration
    <3> QED
        BY <1>3, <3>1, <3>2, <3>3
  <2> QED
      BY <1>0, <2>1 DEF OnceInv
<1>4. CASE Shutdown \/ \E signalled \in BOOLEAN : runSignalHandler(signalled)
    BY <1>0, <1>4 DEF OnceInv, Working, Holding, Go, Shutdown, runSignalHandler
<1>5. ASSUME NEW t \in Closers, shutdownOnce(t) \/ withdrawAnnouncement(t) PROVE OnceInv'
    BY <1>0, <1>5 DEF OnceInv, Working, Holding, Go, shutdownOnce, withdrawAnnouncement, TypeOK
<1>6. ASSUME NEW t \in Closers, takeProvider(t) \/ awaitHandler(t) PROVE OnceInv'
    BY <1>0, <1>6 DEF OnceInv, Working, Holding, Go, takeProvider, awaitHandler
<1>7. ASSUME NEW t \in {"starter", "closer", "handler"},
             shutZeroconf(t) \/ shutAvahi(t) \/ freeEntryGroup(t) \/ shutServer(t)
      PROVE OnceInv'
  <2>1. /\ UNCHANGED <<terminal, provider>> /\ pc[t] \in {"shut", "free", "server"}
        /\ \A u \in Threads \ {t} : pc'[u] = pc[u]
        /\ \/ UNCHANGED once /\ pc'[t] \in {"free", "server"}
           \/ UNCHANGED once /\ t = "starter"
           \/ once' = "done" /\ pc'[t] = "returned" /\ t # "starter"
    <3>1. CASE shutZeroconf(t) \/ shutServer(t)
        BY <1>0, <3>1 DEF Go, shutZeroconf, shutServer, ProviderIsShut
    <3>2. CASE shutAvahi(t)
        BY <1>0, <3>2 DEF Go, shutAvahi, ProviderIsShut
    <3>3. CASE freeEntryGroup(t)
        BY <1>0, <3>3 DEF Go, freeEntryGroup
    <3> QED
        BY <1>7, <3>1, <3>2, <3>3
  <2>2. CASE t = "starter"
      BY <1>0, <2>1, <2>2 DEF OnceInv, Bringing, Working, Holding
  <2>3. CASE t \in Closers
      BY <1>0, <2>1, <2>3 DEF OnceInv, Working, Holding
  <2> QED
      BY <1>0, <1>7, <2>2, <2>3
<1>8. CASE \/ daemonStops \/ daemonStarts \/ avahiCallback
           \/ \E w \in Workers :
                 attemptReconnect(w) \/ reconnectStarts(w) \/ reconnectAnnounces(w)
  <2>1. UNCHANGED <<once, terminal, provider, pc>>
      BY <1>8 DEF daemonStops, daemonStarts, avahiCallback, attemptReconnect,
         reconnectStarts, reconnectAnnounces
  <2> QED
      BY <2>1 DEF OnceInv
<1> QED
    BY <1>1, <1>2, <1>3, <1>4, <1>5, <1>6, <1>7, <1>8, NextCases

\* A provider keeps its holder: Start hands it to the manager, and the manager
\* to the thread that shuts it down; only the end of its shutdown lets it go.
LEMMA HolderStays ==
    ASSUME TypeOK, PlaceInv, OnceInv, Next, NEW kind \in {"avahi", "zeroconf"}, Held(kind)
    PROVE  \/ Held(kind)'
           \/ \E t \in {"starter", "closer", "handler"} :
                 /\ mine[t] = kind /\ pc[t] \in {"shut", "server"}
                 /\ shutZeroconf(t) \/ (shutAvahi(t) /\ ~setup) \/ shutServer(t)
<1>0. /\ pc \in [Threads -> Places] /\ "starter" \in Threads /\ "caller" \in Threads
      /\ "closer" \in Threads /\ "handler" \in Threads /\ Closers = {"closer", "handler"}
      /\ mine \in [Threads -> {"none", "avahi", "zeroconf"}]
    BY DEF PlaceInv, Threads, Closers, TypeOK
<1>1. ASSUME UNCHANGED <<provider, mine>>,
             \A t \in Threads : pc'[t] # pc[t] =>
                /\ t # "starter" \/ pc[t] \notin {"install", "shut", "free", "server"}
                /\ t \notin Closers \/ pc[t] \notin Holding
      PROVE  Held(kind)'
    BY <1>0, <1>1 DEF Held, Holding
<1>2. ASSUME claimStart \/ startAvahi \/ startZeroconf
      PROVE  Held(kind)'
  <2>1. /\ provider' = provider /\ pc["starter"] \notin {"install", "shut", "free", "server"}
        /\ \A t \in Closers : pc'[t] = pc[t] /\ mine'[t] = mine[t]
    <3>1. CASE claimStart
        BY <1>0, <3>1 DEF Go, claimStart
    <3>2. CASE startAvahi
        BY <1>0, <3>2 DEF Go, startAvahi
    <3>3. CASE startZeroconf
        BY <1>0, <3>3 DEF Go, startZeroconf
    <3> QED
        BY <1>2, <3>1, <3>2, <3>3
  <2>2. Held(kind)'
      BY <2>1 DEF Held
  <2> QED
      BY <2>2
<1>3. ASSUME installProvider
      PROVE  Held(kind)'
  <2>1. /\ provider # kind /\ mine' = mine /\ pc["starter"] = "install"
        /\ \A t \in Closers : pc'[t] = pc[t]
      BY <1>0, <1>3 DEF Go, installProvider, OnceInv, Bringing
  <2>2. provider' = mine["starter"] \/ pc'["starter"] = "shut"
      BY <1>0, <1>3 DEF Go, installProvider
  <2> QED
      BY <1>0, <2>1, <2>2 DEF Held, Holding
<1>4. ASSUME installSignalHandler
      PROVE  Held(kind)'
    BY <1>0, <1>1, <1>4 DEF PlaceInv, Holding, installSignalHandler
<1>5. ASSUME NEW t \in {"starter", "caller"}, AnnounceMdnsEntry(t) \/ publish(t) PROVE Held(kind)'
  <2>1. UNCHANGED <<provider, mine>> /\ pc[t] \in {"announce", "publish"}
        /\ \A u \in Threads \ {t} : pc'[u] = pc[u]
      BY <1>0, <1>5 DEF Go, AnnounceMdnsEntry, publish
  <2> QED
      BY <1>0, <1>1, <2>1
<1>6. ASSUME isServiceAnnounced \/ unannounce \/ Reannounce \/ UnannounceMdnsEntry
             \/ \E flag \in {"autoaccept", "pairing"} : SetRegistration(flag)
      PROVE  Held(kind)'
  <2>1. UNCHANGED <<provider, mine>> /\ \A u \in Threads \ {"caller"} : pc'[u] = pc[u]
      BY <1>0, <1>6 DEF Go, isServiceAnnounced, unannounce, Reannounce, UnannounceMdnsEntry,
         SetRegistration
  <2> QED
      BY <1>0, <1>1, <2>1
<1>7. ASSUME Shutdown \/ \E signalled \in BOOLEAN : runSignalHandler(signalled)
      PROVE  Held(kind)'
    BY <1>0, <1>1, <1>7 DEF Holding, Go, Shutdown, runSignalHandler
<1>8. ASSUME NEW t \in Closers, shutdownOnce(t) \/ withdrawAnnouncement(t) PROVE Held(kind)'
    BY <1>0, <1>8 DEF Held, Holding, Go, shutdownOnce, withdrawAnnouncement
<1>9. ASSUME NEW t \in Closers, takeProvider(t) PROVE Held(kind)'
    BY <1>0, <1>9 DEF Held, Holding, Go, takeProvider
<1>10. ASSUME NEW t \in Closers, awaitHandler(t) PROVE Held(kind)'
    BY <1>0, <1>10 DEF Held, Holding, Go, awaitHandler
<1>11. ASSUME NEW t \in {"starter", "closer", "handler"},
              shutZeroconf(t) \/ shutAvahi(t) \/ freeEntryGroup(t) \/ shutServer(t)
       PROVE  \/ Held(kind)'
              \/ /\ mine[t] = kind /\ pc[t] \in {"shut", "server"}
                 /\ shutZeroconf(t) \/ (shutAvahi(t) /\ ~setup) \/ shutServer(t)
  <2>1. UNCHANGED <<provider, mine>> /\ \A u \in Threads \ {t} : pc'[u] = pc[u]
    <3>1. CASE shutZeroconf(t) \/ shutServer(t)
        BY <1>0, <3>1 DEF Go, shutZeroconf, shutServer, ProviderIsShut
    <3>2. CASE shutAvahi(t)
        BY <1>0, <3>2 DEF Go, shutAvahi, ProviderIsShut
    <3>3. CASE freeEntryGroup(t)
        BY <1>0, <3>3 DEF Go, freeEntryGroup
    <3> QED
        BY <1>11, <3>1, <3>2, <3>3
  <2>2. CASE mine[t] # kind
      BY <1>0, <2>1, <2>2 DEF Held
  <2>3. CASE mine[t] = kind /\ (freeEntryGroup(t) \/ (shutAvahi(t) /\ setup))
    <3>1. pc'[t] \in {"free", "server"} /\ t \in Threads
        BY <1>0, <2>3 DEF Go, shutAvahi, freeEntryGroup
    <3> QED
        BY <1>0, <2>1, <2>3, <3>1 DEF Held, Holding
  <2>4. CASE shutZeroconf(t) \/ (shutAvahi(t) /\ ~setup) \/ shutServer(t)
      BY <2>2, <2>4 DEF shutZeroconf, shutAvahi, shutServer
  <2> QED
      BY <1>11, <2>2, <2>3, <2>4
<1>12. ASSUME \/ daemonStops \/ daemonStarts \/ avahiCallback
              \/ \E w \in Workers :
                    attemptReconnect(w) \/ reconnectStarts(w) \/ reconnectAnnounces(w)
       PROVE  Held(kind)'
  <2>1. UNCHANGED <<provider, mine, pc>>
      BY <1>12 DEF daemonStops, daemonStarts, avahiCallback, attemptReconnect,
         reconnectStarts, reconnectAnnounces
  <2> QED
      BY <1>1, <2>1
<1> QED
    BY <1>2, <1>3, <1>4, <1>5, <1>6, <1>7, <1>8, <1>9, <1>10, <1>11, <1>12, NextCases

\* What zeroconf publishes and browses is stopped by whoever lets it go.
LEMMA ZeroconfStep ==
    ASSUME TypeOK, PlaceInv, OnceInv, ZeroconfInv, Next
    PROVE  ZeroconfInv'
<1>0. /\ pc \in [Threads -> Places] /\ "starter" \in Threads
      /\ mine \in [Threads -> {"none", "avahi", "zeroconf"}]
    BY DEF PlaceInv, Threads, TypeOK
<1>1. ASSUME browsing' => browsing, zc' # {} => zc # {} PROVE ZeroconfInv'
  <2>1. CASE ~browsing' /\ zc' = {}
      BY <2>1 DEF ZeroconfInv
  <2>2. CASE browsing' \/ zc' # {}
    <3>1. Held("zeroconf")
        BY <1>1, <2>2 DEF ZeroconfInv
    <3>2. \A t \in {"starter", "closer", "handler"} : mine[t] = "zeroconf" =>
              ~shutZeroconf(t) /\ ~shutAvahi(t) /\ ~shutServer(t)
        BY <2>2 DEF shutZeroconf, shutAvahi, shutServer, PlaceInv, Threads
    <3>3. Held("zeroconf")'
        BY <3>1, <3>2, HolderStays
    <3> QED
        BY <3>3 DEF ZeroconfInv
  <2> QED
      BY <2>1, <2>2
<1>2. CASE startZeroconf
  <2>1. Held("zeroconf")'
      BY <1>0, <1>2 DEF startZeroconf, Held, Go
  <2> QED
      BY <2>1 DEF ZeroconfInv
<1>3. ASSUME NEW t \in {"starter", "caller"}, publish(t) PROVE ZeroconfInv'
  <2>1. CASE provider = "avahi"
      BY <1>1, <1>3, <2>1 DEF publish
  <2>2. CASE provider = "zeroconf"
    <3>1. Held("zeroconf")'
        BY <1>3, <2>2 DEF publish, Held
    <3> QED
        BY <3>1 DEF ZeroconfInv
  <2>3. provider \in {"avahi", "zeroconf"}
      BY <1>3 DEF publish, PlaceInv, TypeOK, Threads
  <2> QED
      BY <2>1, <2>2, <2>3
<1>4. CASE unannounce \/ \E t \in Closers : withdrawAnnouncement(t)
    BY <1>1, <1>4 DEF unannounce, withdrawAnnouncement, Withdraw
<1>5. ASSUME NEW t \in {"starter", "closer", "handler"},
             shutZeroconf(t) \/ shutAvahi(t) \/ freeEntryGroup(t) \/ shutServer(t)
      PROVE  ZeroconfInv'
    BY <1>1, <1>5 DEF shutZeroconf, shutAvahi, freeEntryGroup, shutServer
<1>6. CASE \/ claimStart \/ startAvahi \/ installProvider \/ installSignalHandler
           \/ isServiceAnnounced \/ daemonStops \/ daemonStarts \/ avahiCallback
           \/ Shutdown \/ Reannounce \/ UnannounceMdnsEntry
           \/ \E flag \in {"autoaccept", "pairing"} : SetRegistration(flag)
           \/ \E t \in {"starter", "caller"} : AnnounceMdnsEntry(t)
    BY <1>1, <1>6 DEF claimStart, startAvahi, installProvider, installSignalHandler,
       isServiceAnnounced, daemonStops, daemonStarts, avahiCallback, Shutdown, Reannounce,
       UnannounceMdnsEntry, SetRegistration, AnnounceMdnsEntry
<1>7. CASE \/ \E t \in Closers : shutdownOnce(t) \/ takeProvider(t) \/ awaitHandler(t)
           \/ \E signalled \in BOOLEAN : runSignalHandler(signalled)
           \/ \E w \in Workers :
                 attemptReconnect(w) \/ reconnectStarts(w) \/ reconnectAnnounces(w)
    BY <1>1, <1>7 DEF shutdownOnce, takeProvider, awaitHandler, runSignalHandler,
       attemptReconnect, reconnectStarts, reconnectAnnounces
<1> QED
    BY <1>2, <1>3, <1>4, <1>5, <1>6, <1>7, NextCases

\* Before Start has come to Avahi nobody becomes a holder of it.
LEMMA NoHolderYet ==
    ASSUME TypeOK, PlaceInv, OnceInv, Next, pc'["starter"] \in {"idle", "avahi"}, Held("avahi")'
    PROVE  pc["starter"] \in {"idle", "avahi"} /\ Held("avahi")
<1>0. /\ pc \in [Threads -> Places] /\ "starter" \in Threads /\ "caller" \in Threads
      /\ "closer" \in Threads /\ "handler" \in Threads /\ Closers = {"closer", "handler"}
      /\ mine \in [Threads -> {"none", "avahi", "zeroconf"}]
    BY DEF PlaceInv, Threads, Closers, TypeOK
<1>1. ASSUME pc["starter"] \in {"idle", "avahi"}, provider' \in {provider, "none"},
             \A t \in Closers : pc'[t] \in Holding =>
                (pc[t] \in Holding /\ mine'[t] = mine[t]) \/ mine'[t] = provider
      PROVE  pc["starter"] \in {"idle", "avahi"} /\ Held("avahi")
    BY <1>0, <1>1 DEF Held
<1>2. CASE claimStart \/ startAvahi \/ startZeroconf \/ installProvider \/ installSignalHandler
    BY <1>0, <1>1, <1>2 DEF Go, claimStart, startAvahi, startZeroconf, installProvider,
       installSignalHandler
<1>3. ASSUME NEW t \in {"starter", "caller"}, AnnounceMdnsEntry(t) \/ publish(t)
      PROVE  pc["starter"] \in {"idle", "avahi"} /\ Held("avahi")
  <2>1. /\ UNCHANGED <<provider, mine>> /\ \A u \in Threads \ {t} : pc'[u] = pc[u]
        /\ t = "starter" => pc'[t] \in {"signal", "returned", "publish"}
      BY <1>0, <1>3 DEF Go, AnnounceMdnsEntry, publish, After
  <2> QED
      BY <1>0, <1>1, <2>1
<1>4. CASE isServiceAnnounced \/ unannounce \/ Reannounce \/ UnannounceMdnsEntry
           \/ \E flag \in {"autoaccept", "pairing"} : SetRegistration(flag)
  <2>1. UNCHANGED <<provider, mine>> /\ \A u \in Threads \ {"caller"} : pc'[u] = pc[u]
      BY <1>0, <1>4 DEF Go, isServiceAnnounced, unannounce, Reannounce, UnannounceMdnsEntry,
         SetRegistration
  <2> QED
      BY <1>0, <1>1, <2>1
<1>5. CASE Shutdown \/ \E signalled \in BOOLEAN : runSignalHandler(signalled)
    BY <1>0, <1>1, <1>5 DEF Holding, Go, Shutdown, runSignalHandler
<1>6. ASSUME NEW t \in Closers, shutdownOnce(t) \/ withdrawAnnouncement(t)
      PROVE  pc["starter"] \in {"idle", "avahi"} /\ Held("avahi")
    BY <1>0, <1>1, <1>6 DEF Holding, Go, shutdownOnce, withdrawAnnouncement
<1>7. ASSUME NEW t \in Closers, takeProvider(t) \/ awaitHandler(t)
      PROVE  pc["starter"] \in {"idle", "avahi"} /\ Held("avahi")
    BY <1>0, <1>1, <1>7 DEF Holding, Go, takeProvider, awaitHandler
<1>8. ASSUME NEW t \in {"starter", "closer", "handler"},
             shutZeroconf(t) \/ shutAvahi(t) \/ freeEntryGroup(t) \/ shutServer(t)
      PROVE  pc["starter"] \in {"idle", "avahi"} /\ Held("avahi")
  <2>1. /\ UNCHANGED <<provider, mine>> /\ \A u \in Threads \ {t} : pc'[u] = pc[u]
        /\ pc[t] \in {"shut", "free", "server"}
        /\ t = "starter" => pc'[t] \in {"zeroconf", "returned", "free", "server"}
    <3>1. CASE shutZeroconf(t) \/ shutServer(t)
        BY <1>0, <3>1 DEF Go, shutZeroconf, shutServer, ProviderIsShut
    <3>2. CASE shutAvahi(t)
        BY <1>0, <3>2 DEF Go, shutAvahi, ProviderIsShut
    <3>3. CASE freeEntryGroup(t)
        BY <1>0, <3>3 DEF Go, freeEntryGroup
    <3> QED
        BY <1>8, <3>1, <3>2, <3>3
  <2> QED
      BY <1>0, <1>1, <2>1 DEF Holding
<1>9. CASE \/ daemonStops \/ daemonStarts \/ avahiCallback
           \/ \E w \in Workers :
                 attemptReconnect(w) \/ reconnectStarts(w) \/ reconnectAnnounces(w)
  <2>1. UNCHANGED <<provider, mine, pc>>
      BY <1>9 DEF daemonStops, daemonStarts, avahiCallback, attemptReconnect,
         reconnectStarts, reconnectAnnounces
  <2> QED
      BY <1>1, <2>1
<1> QED
    BY <1>2, <1>3, <1>4, <1>5, <1>6, <1>7, <1>8, <1>9, NextCases

\* What the Avahi provider does it does for a holder, until a reconnection
\* undoes a shutdown.
LEMMA AvahiStep ==
    ASSUME TypeOK, PlaceInv, OnceInv, AvahiInv, Next
    PROVE  AvahiInv'
<1>0. /\ pc \in [Threads -> Places] /\ "starter" \in Threads /\ "caller" \in Threads
      /\ "closer" \in Threads /\ "handler" \in Threads /\ Closers = {"closer", "handler"}
      /\ Threads = {"starter", "caller", "closer", "handler"}
      /\ mine \in [Threads -> {"none", "avahi", "zeroconf"}]
    BY DEF PlaceInv, Threads, Closers, TypeOK
\* The steps that neither start nor shut down the provider.
<1>2. ASSUME UNCHANGED <<manual, setup, listening, revived>>,
             server' = "on" \/ published' # {} => server = "on" \/ published # {},
             server' # "off" => server # "off", InPlay' => InPlay,
             pc'["starter"] \in {"idle", "avahi"} => pc["starter"] \in {"idle", "avahi"},
             \A t \in Threads : pc'[t] \in {"free", "server"} => pc[t] \in {"free", "server"},
             \A t \in Threads : mine[t] = "avahi" /\ pc[t] \in {"shut", "server"} => pc'[t] = pc[t]
      PROVE  AvahiInv'
  <2>1. Held("avahi") => Held("avahi")'
    <3>1. ASSUME NEW t \in {"starter", "closer", "handler"}, mine[t] = "avahi"
          PROVE  ~shutZeroconf(t) /\ ~shutAvahi(t) /\ ~shutServer(t)
        BY <1>0, <1>2, <3>1 DEF Go, shutZeroconf, shutAvahi, shutServer, ProviderIsShut
    <3> QED
        BY <3>1, HolderStays
  <2>2. (pc["starter"] \in {"idle", "avahi"} => ~manual /\ ~InPlay /\ ~Held("avahi"))'
      BY <1>2, NoHolderYet DEF AvahiInv
  <2>3. (~setup => server = "off" /\ ~listening /\ published = {})'
      BY <1>2 DEF AvahiInv
  <2>4. (~revived =>
           /\ server = "on" \/ published # {} => Held("avahi")
           /\ ~manual /\ InPlay => Held("avahi")
           /\ manual => ~listening
           /\ \A t \in Threads : pc[t] \in {"free", "server"} => manual)'
      BY <1>2, <2>1 DEF AvahiInv
  <2> QED
      BY <2>2, <2>3, <2>4 DEF AvahiInv
<1>3. CASE claimStart \/ startZeroconf \/ installProvider \/ installSignalHandler
  <2>1. UNCHANGED <<avahi, worker, event, revived>>
      BY <1>3 DEF claimStart, startZeroconf, installProvider, installSignalHandler
  <2>2. /\ pc["starter"] \in {"idle", "zeroconf", "install", "signal"}
        /\ \A t \in Threads : pc'[t] = pc[t] \/ pc'[t] \notin {"idle", "free", "server"}
        /\ pc["starter"] # "idle" => pc'["starter"] # "avahi"
        /\ \A t \in Threads \ {"starter", "handler"} : pc'[t] = pc[t]
        /\ pc'["handler"] = pc["handler"] \/ pc["starter"] = "signal"
      BY <1>0, <1>3 DEF Go, claimStart, startZeroconf, installProvider, installSignalHandler
  <2>3. pc["starter"] = "signal" => pc["handler"] = "off"
      BY DEF PlaceInv
  <2> QED
      BY <1>0, <1>2, <2>1, <2>2, <2>3 DEF InPlay
<1>4. ASSUME NEW t \in {"starter", "caller"}, AnnounceMdnsEntry(t) \/ publish(t) PROVE AvahiInv'
  <2>1. /\ UNCHANGED <<manual, auto, setup, listening, server, worker, event, revived>>
        /\ published' # {} => server = "on" \/ published # {}
      BY <1>4 DEF AnnounceMdnsEntry, publish, AvahiAnnounce
  <2>2. /\ pc[t] \in {"announce", "publish"} /\ pc'[t] \notin {"avahi", "free", "server"}
        /\ t = "starter" => pc'[t] # "idle"
        /\ \A u \in Threads \ {t} : pc'[u] = pc[u]
      BY <1>0, <1>4 DEF Go, AnnounceMdnsEntry, publish, After
  <2> QED
      BY <1>0, <1>2, <2>1, <2>2 DEF InPlay
<1>5. CASE isServiceAnnounced \/ unannounce \/ Reannounce \/ UnannounceMdnsEntry
           \/ \E flag \in {"autoaccept", "pairing"} : SetRegistration(flag)
  <2>1. /\ UNCHANGED <<manual, auto, setup, listening, server, worker, event, revived>>
        /\ published' # {} => published # {}
      BY <1>5 DEF isServiceAnnounced, unannounce, Withdraw, AvahiUnannounce, Reannounce,
         UnannounceMdnsEntry, SetRegistration
  <2>2. /\ pc["caller"] \notin {"shut", "server"} /\ pc'["caller"] \notin {"free", "server"}
        /\ \A u \in Threads \ {"caller"} : pc'[u] = pc[u]
      BY <1>0, <1>5 DEF Go, isServiceAnnounced, unannounce, Reannounce, UnannounceMdnsEntry,
         SetRegistration
  <2> QED
      BY <1>0, <1>2, <2>1, <2>2 DEF InPlay
<1>6. CASE Shutdown \/ \E signalled \in BOOLEAN : runSignalHandler(signalled)
  <2>1. UNCHANGED <<avahi, worker, event, revived>>
      BY <1>6 DEF Shutdown, runSignalHandler
  <2>2. /\ pc'["starter"] = pc["starter"]
        /\ \A t \in Threads : pc'[t] # pc[t] =>
              pc[t] \in {"idle", "waiting"} /\ pc'[t] \in {"once", "returned"}
      BY <1>0, <1>6 DEF Go, Shutdown, runSignalHandler
  <2> QED
      BY <1>0, <1>2, <2>1, <2>2 DEF InPlay
<1>7. ASSUME NEW t \in Closers,
             shutdownOnce(t) \/ takeProvider(t) \/ awaitHandler(t) \/ withdrawAnnouncement(t)
      PROVE  AvahiInv'
  <2>1. /\ UNCHANGED <<manual, auto, setup, listening, server, worker, event, revived>>
        /\ published' # {} => published # {}
      BY <1>7 DEF shutdownOnce, takeProvider, awaitHandler, withdrawAnnouncement, Withdraw,
         AvahiUnannounce
  <2>2. /\ pc[t] \in {"once", "take", "await", "withdraw"}
        /\ pc'[t] \in {"take", "await", "withdraw", "shut", "returned"}
        /\ \A u \in Threads \ {t} : pc'[u] = pc[u]
      BY <1>0, <1>7 DEF Go, shutdownOnce, takeProvider, awaitHandler, withdrawAnnouncement
  <2> QED
      BY <1>0, <1>2, <2>1, <2>2 DEF InPlay
<1>8. CASE daemonStops \/ daemonStarts \/ avahiCallback
  <2>1. /\ UNCHANGED <<pc, mine, manual, auto, setup, listening, revived>>
        /\ published' # {} => published # {}
        /\ server' = server \/ (server = "on" /\ server' = "lost")
        /\ event' => event \/ server = "on"
      BY <1>8 DEF daemonStops, daemonStarts, avahiCallback
  <2>2. event \/ worker' = worker
      BY <1>8 DEF daemonStops, daemonStarts, avahiCallback
  <2> QED
      BY <1>2, <2>1, <2>2 DEF InPlay
<1>9. ASSUME NEW w \in Workers, attemptReconnect(w) \/ reconnectAnnounces(w) PROVE AvahiInv'
  <2>1. /\ UNCHANGED <<pc, mine, manual, auto, setup, listening, server, event, revived>>
        /\ published' # {} => server = "on" \/ published # {}
        /\ worker[w].pc # "idle"
      BY <1>9 DEF attemptReconnect, reconnectAnnounces, AvahiAnnounce
  <2> QED
      BY <1>2, <2>1 DEF InPlay
<1>10. CASE startAvahi
  <2>1. Held("avahi")'
      BY <1>0, <1>10 DEF startAvahi, Held, Go
  <2>2. ~manual /\ UNCHANGED <<published, revived>>
      BY <1>10 DEF startAvahi, AvahiStart, AvahiInv
  <2>3. /\ manual' = FALSE /\ pc'["starter"] \notin {"idle", "avahi", "free", "server"}
        /\ \A t \in Threads \ {"starter"} : pc'[t] = pc[t]
      BY <1>0, <1>10 DEF startAvahi, AvahiStart, Go
  <2>4. ~setup' => server' = "off" /\ ~listening' /\ published' = {}
      BY <1>10, <2>2 DEF startAvahi, AvahiStart, AvahiInv
  <2> QED
      BY <1>0, <2>1, <2>2, <2>3, <2>4 DEF AvahiInv
\* A reconnection that undoes no shutdown acts for a holder.
<1>11. ASSUME NEW w \in Workers, reconnectStarts(w) PROVE AvahiInv'
  <2>1. /\ InPlay /\ UNCHANGED <<provider, pc, mine, published>>
        /\ manual' = FALSE /\ revived' = (revived \/ manual)
      BY <1>11 DEF reconnectStarts, AvahiStart, InPlay
  <2>2. pc["starter"] \notin {"idle", "avahi"}
      BY <2>1 DEF AvahiInv
  <2>3. ~setup' => server' = "off" /\ ~listening' /\ published' = {}
      BY <1>11 DEF reconnectStarts, AvahiStart, AvahiInv
  <2>4. ASSUME ~revived'
        PROVE  Held("avahi")' /\ \A t \in Threads : pc[t] \notin {"free", "server"}
    <3>1. ~manual /\ ~revived
      <4>1. ~(revived \/ manual)
          BY <2>1, <2>4, Zenon
      <4> QED
          BY <4>1
    <3>2. Held("avahi") /\ \A t \in Threads : pc[t] \notin {"free", "server"}
        BY <2>1, <3>1 DEF AvahiInv
    <3>3. Held("avahi")'
        BY <2>1, <3>2 DEF Held
    <3> QED
        BY <3>2, <3>3
  <2> QED
      BY <2>1, <2>2, <2>3, <2>4 DEF AvahiInv
<1>12. ASSUME NEW t \in {"starter", "closer", "handler"}, shutZeroconf(t) PROVE AvahiInv'
  <2>1. UNCHANGED <<avahi, worker, event, revived>> /\ pc[t] = "shut" /\ mine[t] = "zeroconf"
      BY <1>12 DEF shutZeroconf, ProviderIsShut
  <2>2. pc'[t] \in {"zeroconf", "returned"} /\ \A u \in Threads \ {t} : pc'[u] = pc[u]
      BY <1>0, <1>12 DEF Go, shutZeroconf, ProviderIsShut
  <2> QED
      BY <1>0, <1>2, <2>1, <2>2 DEF InPlay
<1>13. ASSUME NEW t \in {"starter", "closer", "handler"}, freeEntryGroup(t) PROVE AvahiInv'
  <2>1. /\ UNCHANGED <<manual, auto, setup, listening, server, worker, event, revived>>
        /\ published' # {} => published # {}
        /\ pc[t] = "free"
      BY <1>13 DEF freeEntryGroup, AvahiUnannounce
  <2>2. pc'[t] = "server" /\ \A u \in Threads \ {t} : pc'[u] = pc[u]
      BY <1>0, <1>13 DEF Go, freeEntryGroup
  <2> QED
      BY <1>0, <1>2, <2>1, <2>2 DEF InPlay
\* Whoever shuts the provider down holds it, so Start has come to it.
<1>14. ASSUME NEW t \in {"starter", "closer", "handler"}, shutAvahi(t) \/ shutServer(t)
       PROVE  AvahiInv'
  <2>1. /\ pc[t] \in {"shut", "server"} /\ mine[t] = "avahi"
        /\ pc'[t] \in {"free", "zeroconf", "returned"}
        /\ \A u \in Threads \ {t} : pc'[u] = pc[u]
    <3>1. CASE shutAvahi(t)
        BY <1>0, <3>1 DEF shutAvahi, ProviderIsShut, Go
    <3>2. CASE shutServer(t)
        BY <1>0, <3>2 DEF shutServer, ProviderIsShut, Go, PlaceInv
    <3> QED
        BY <1>14, <3>1, <3>2
  <2>2. Held("avahi")
      BY <1>0, <2>1 DEF Held, Holding
  <2>3. pc'["starter"] \notin {"idle", "avahi"}
    <3>1. pc["starter"] \notin {"idle", "avahi"}
        BY <2>2 DEF AvahiInv
    <3> QED
        BY <1>0, <2>1, <3>1
  <2>4. CASE shutServer(t)
    <3>1. /\ server' = "off" /\ published' = {} /\ pc[t] = "server"
          /\ UNCHANGED <<manual, setup, listening, revived>>
          /\ pc'[t] \in {"zeroconf", "returned"}
        BY <1>0, <2>4 DEF shutServer, AvahiShutdownEnds, ProviderIsShut, Go
    <3> QED
        BY <1>0, <2>1, <2>3, <3>1 DEF AvahiInv
  <2>5. CASE shutAvahi(t) /\ ~setup
    <3>1. /\ manual' = TRUE /\ UNCHANGED <<setup, listening, server, published, revived>>
        BY <2>5 DEF shutAvahi, AvahiShutdownBegins, ProviderIsShut
    <3> QED
        BY <2>3, <2>5, <3>1 DEF AvahiInv
  <2>6. CASE shutAvahi(t) /\ setup
    <3>1. /\ manual' = TRUE /\ listening' = FALSE
          /\ UNCHANGED <<setup, server, published, revived, provider, mine>>
        BY <2>6 DEF shutAvahi, AvahiShutdownBegins
    <3>2. pc'[t] = "free"
        BY <1>0, <2>6 DEF shutAvahi, Go
    <3>3. Held("avahi")'
        BY <1>0, <2>1, <3>1, <3>2 DEF Held, Holding
    <3> QED
        BY <2>3, <2>6, <3>1, <3>3 DEF AvahiInv
  <2> QED
      BY <1>14, <2>4, <2>5, <2>6
<1> QED
    BY <1>3, <1>4, <1>5, <1>6, <1>7, <1>8, <1>9, <1>10, <1>11, <1>12, <1>13, <1>14, NextCases

\* The values that are no Booleans.
DataTypes ==
    /\ left \subseteq {"avahi", "zeroconf"} /\ flags \subseteq {"autoaccept", "pairing"}
    /\ provider \in {"none", "avahi", "zeroconf"}
    /\ mine \in [Threads -> {"none", "avahi", "zeroconf"}]
    /\ lifecycle \in Threads \cup {"nobody"} /\ once \in {"free", "running", "done"}
    /\ text \in [Threads -> SUBSET BOOLEAN]
    /\ {data, entry, published, zc} \subseteq SUBSET BOOLEAN
    /\ server \in {"off", "on", "lost"}
    /\ worker \in [Workers -> [pc : {"idle", "look", "sleep", "announce"}, data : SUBSET BOOLEAN]]
    /\ calls \in Nat /\ outages \in Nat

\* No step takes one of them out of its set.
LEMMA DataStep ==
    ASSUME DataTypes, Next
    PROVE  DataTypes'
<1>0. "starter" \in Threads /\ "caller" \in Threads /\ Closers \subseteq Threads
    BY DEF Threads, Closers
<1>1. CASE claimStart \/ installSignalHandler \/ isServiceAnnounced \/ Shutdown
           \/ daemonStarts \/ \E signalled \in BOOLEAN : runSignalHandler(signalled)
    BY <1>1 DEF DataTypes, claimStart, installSignalHandler, isServiceAnnounced, Shutdown,
       daemonStarts, runSignalHandler
<1>2. CASE startAvahi
    BY <1>0, <1>2 DEF DataTypes, startAvahi, AvahiStart
<1>3. CASE startZeroconf
    BY <1>0, <1>3 DEF DataTypes, startZeroconf
<1>4. CASE installProvider
    BY <1>0, <1>4 DEF DataTypes, installProvider
<1>5. ASSUME NEW t \in {"starter", "caller"}, AnnounceMdnsEntry(t) PROVE DataTypes'
  <2>1. {registrationAvailable} \in SUBSET BOOLEAN
      BY DEF registrationAvailable
  <2>2. text' = text \/ text' = [text EXCEPT ![t] = {registrationAvailable}]
      BY <1>5 DEF AnnounceMdnsEntry
  <2>3. text' = text \/ \E b \in SUBSET BOOLEAN : text' = [text EXCEPT ![t] = b]
      BY <2>1, <2>2, Zenon
  <2>4. text' \in [Threads -> SUBSET BOOLEAN]
      BY <2>3 DEF DataTypes
  <2>5. lifecycle' \in Threads \cup {"nobody"}
      BY <1>0, <1>5 DEF DataTypes, AnnounceMdnsEntry
  <2> QED
      BY <1>5, <2>4, <2>5 DEF DataTypes, AnnounceMdnsEntry
<1>6. ASSUME NEW t \in {"starter", "caller"}, publish(t) PROVE DataTypes'
    BY <1>0, <1>6 DEF DataTypes, publish, AvahiAnnounce
<1>7. ASSUME NEW flag \in {"autoaccept", "pairing"}, SetRegistration(flag) PROVE DataTypes'
  <2>1. calls' \in Nat
      BY <1>7 DEF DataTypes, SetRegistration
  <2>2. flags' \subseteq {"autoaccept", "pairing"}
      BY <1>7 DEF DataTypes, SetRegistration
  <2> QED
      BY <1>7, <2>1, <2>2 DEF DataTypes, SetRegistration
<1>8. CASE Reannounce \/ UnannounceMdnsEntry
  <2>1. calls' \in Nat
      BY <1>8 DEF DataTypes, Reannounce, UnannounceMdnsEntry
  <2> QED
      BY <1>8, <2>1 DEF DataTypes, Reannounce, UnannounceMdnsEntry
<1>9. CASE unannounce \/ \E t \in Closers : withdrawAnnouncement(t)
    BY <1>9 DEF DataTypes, unannounce, withdrawAnnouncement, Withdraw, AvahiUnannounce
<1>10. ASSUME NEW t \in Closers, shutdownOnce(t) \/ takeProvider(t) \/ awaitHandler(t)
       PROVE  DataTypes'
    BY <1>0, <1>10 DEF DataTypes, shutdownOnce, takeProvider, awaitHandler
<1>11. ASSUME NEW t \in {"starter", "closer", "handler"},
              shutZeroconf(t) \/ shutAvahi(t) \/ freeEntryGroup(t) \/ shutServer(t)
       PROVE  DataTypes'
  <2>1. CASE shutZeroconf(t)
      BY <2>1 DEF DataTypes, shutZeroconf, ProviderIsShut
  <2>2. CASE shutAvahi(t)
      BY <2>2 DEF DataTypes, shutAvahi, ProviderIsShut, AvahiShutdownBegins
  <2>3. CASE freeEntryGroup(t)
      BY <2>3 DEF DataTypes, freeEntryGroup, AvahiUnannounce
  <2>4. CASE shutServer(t)
      BY <2>4 DEF DataTypes, shutServer, ProviderIsShut, AvahiShutdownEnds
  <2> QED
      BY <1>11, <2>1, <2>2, <2>3, <2>4
<1>12. CASE daemonStops
    BY <1>12 DEF DataTypes, daemonStops
<1>13. CASE avahiCallback
    BY <1>13 DEF DataTypes, avahiCallback
<1>14. ASSUME NEW w \in Workers, attemptReconnect(w) PROVE DataTypes'
    BY <1>14 DEF DataTypes, attemptReconnect, Reconnect
<1>15. ASSUME NEW w \in Workers, reconnectStarts(w) PROVE DataTypes'
    BY <1>15 DEF DataTypes, reconnectStarts, AvahiStart, Reconnect
<1>16. ASSUME NEW w \in Workers, reconnectAnnounces(w) PROVE DataTypes'
    BY <1>16 DEF DataTypes, reconnectAnnounces, AvahiAnnounce, Reconnect
<1> QED
    BY <1>1, <1>2, <1>3, <1>4, <1>5, <1>6, <1>7, <1>8, <1>9, <1>10, <1>11, <1>12, <1>13, <1>14,
       <1>15, <1>16, NextCases

\* The others.
Booleans ==
    {claimed, terminal, isAnnounced, stop, manual, auto, setup, listening,
     browsing, up, event, revived} \subseteq BOOLEAN

\* They stay Booleans, the ones that are computed from others too.
LEMMA BooleanStep ==
    ASSUME Booleans, Next
    PROVE  Booleans'
<1>1. CASE claimStart \/ installSignalHandler \/ isServiceAnnounced \/ Shutdown
           \/ daemonStarts \/ \E signalled \in BOOLEAN : runSignalHandler(signalled)
    BY <1>1 DEF Booleans, claimStart, installSignalHandler, isServiceAnnounced, Shutdown,
       daemonStarts, runSignalHandler
<1>2. CASE startAvahi \/ startZeroconf \/ installProvider
    BY <1>2 DEF Booleans, startAvahi, AvahiStart, startZeroconf, installProvider
<1>3. ASSUME NEW t \in {"starter", "caller"}, AnnounceMdnsEntry(t) \/ publish(t) PROVE Booleans'
    BY <1>3 DEF Booleans, AnnounceMdnsEntry, publish, AvahiAnnounce
<1>4. CASE \/ Reannounce \/ UnannounceMdnsEntry
           \/ \E flag \in {"autoaccept", "pairing"} : SetRegistration(flag)
    BY <1>4 DEF Booleans, Reannounce, UnannounceMdnsEntry, SetRegistration
<1>5. CASE unannounce \/ \E t \in Closers : withdrawAnnouncement(t)
    BY <1>5 DEF Booleans, unannounce, withdrawAnnouncement, Withdraw, AvahiUnannounce
<1>6. ASSUME NEW t \in Closers, shutdownOnce(t) \/ takeProvider(t) \/ awaitHandler(t)
      PROVE  Booleans'
    BY <1>6 DEF Booleans, shutdownOnce, takeProvider, awaitHandler
<1>7. ASSUME NEW t \in {"starter", "closer", "handler"},
             shutZeroconf(t) \/ shutAvahi(t) \/ freeEntryGroup(t) \/ shutServer(t)
      PROVE  Booleans'
    BY <1>7 DEF Booleans, shutZeroconf, shutAvahi, freeEntryGroup, shutServer, ProviderIsShut,
       AvahiShutdownBegins, AvahiUnannounce, AvahiShutdownEnds
<1>8. CASE daemonStops \/ avahiCallback
    BY <1>8 DEF Booleans, daemonStops, avahiCallback
<1>9. ASSUME NEW w \in Workers, attemptReconnect(w) \/ reconnectAnnounces(w) PROVE Booleans'
    BY <1>9 DEF Booleans, attemptReconnect, reconnectAnnounces, AvahiAnnounce
<1>10. ASSUME NEW w \in Workers, reconnectStarts(w) PROVE Booleans'
    BY <1>10 DEF Booleans, reconnectStarts, AvahiStart
<1> QED
    BY <1>1, <1>2, <1>3, <1>4, <1>5, <1>6, <1>7, <1>8, <1>9, <1>10, NextCases

\* Nobody holds a provider at first, and none does anything.
LEMMA InitInv == Init => Inv
<1> SUFFICES ASSUME Init PROVE Inv
    OBVIOUS
<1>1. TypeOK
    BY SelectionAssumption DEF Init, TypeOK, Threads
<1>2. PlaceInv
    BY DEF Init, PlaceInv, Threads, Places, Working
<1>3. OnceInv
    BY DEF Init, OnceInv, Threads, Closers, Working, Holding
<1>4. ~Held("avahi") /\ ~InPlay
    BY DEF Init, Held, InPlay, Threads, Closers
<1> QED
    BY <1>1, <1>2, <1>3, <1>4 DEF Inv, Init, ZeroconfInv, AvahiInv, Threads

\* The invariant is inductive.
LEMMA NextInv ==
    ASSUME Inv, [Next]_vars
    PROVE  Inv'
<1>1. CASE UNCHANGED vars
    BY <1>1 DEF Inv, vars, TypeOK, PlaceInv, OnceInv, ZeroconfInv, AvahiInv, Held, InPlay
<1>2. CASE Next
  <2>1. TypeOK'
    <3>1. DataTypes /\ Booleans
        BY DEF Inv, TypeOK, DataTypes, Booleans
    <3>2. DataTypes' /\ Booleans'
        BY <1>2, <3>1, DataStep, BooleanStep
    <3> QED
        BY <3>2, Zenon DEF TypeOK, DataTypes, Booleans
  <2> QED
      BY <1>2, <2>1, PlaceStep, OnceStep, ZeroconfStep, AvahiStep DEF Inv
<1> QED
    BY <1>1, <1>2

\* The types, and once Shutdown and Start have both returned nothing is
\* announced and no provider runs, whichever of the two was first
\* (mdns.go:184, 284-318), unless a reconnection that was asleep undid the shutdown.
THEOREM NothingRunsAfterShutdown == Spec => []ShutdownInv
<1>1. Inv => ShutdownInv
  <2> SUFFICES ASSUME Inv PROVE ShutdownInv
      OBVIOUS
  <2>1. TypeOK
      BY DEF Inv
  <2>2. ASSUME once = "done", pc["starter"] \in {"idle", "returned"}, ~revived
        PROVE  server # "on" /\ ~listening /\ ~browsing /\ published = {} /\ zc = {}
    <3>1. ~Held("avahi") /\ ~Held("zeroconf")
        BY <2>2 DEF Inv, OnceInv, Held, Working, Holding
    <3>2. ~browsing /\ zc = {}
        BY <3>1 DEF Inv, ZeroconfInv
    <3>3. server # "on" /\ published = {}
        BY <2>2, <3>1 DEF Inv, AvahiInv
    <3>4. ~listening
        BY <2>2, <3>1 DEF Inv, AvahiInv, InPlay
    <3> QED
        BY <3>2, <3>3, <3>4
  <2> QED
      BY <2>1, <2>2 DEF ShutdownInv
<1> QED
    BY <1>1, InitInv, NextInv, PTL DEF Spec
==============================================================================
