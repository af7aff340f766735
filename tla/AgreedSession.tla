----------------------------- MODULE AgreedSession -----------------------------
(***************************************************************************)
(* What a session promises to its users and applications: an end opens     *)
(* once, and only when its own user has agreed and no user of the session  *)
(* distrusts the other; its application hears data only while it is open   *)
(* and after every end has opened; a claimed close is the end of it, and   *)
(* is reported once.  Of a foreign end nothing is promised: Ends are the   *)
(* ends that run this code.                                                *)
(***************************************************************************)
VARIABLES phase,     \* phase[e] of the end e
          trusting,  \* the ends whose user trusts the peer
          agreed,    \* the ones whose user has given every approval asked for
          opened,    \* the ones whose application was given the peer's device
          heard      \* the ones whose application was given data

vars == <<phase, trusting, agreed, opened, heard>>

Ends == DOMAIN phase

Init ==
    /\ phase = [e \in Ends |-> "handshake"]
    /\ agreed \subseteq trusting /\ trusting \subseteq Ends
    /\ opened = {} /\ heard = {}

\* The user of e may trust the peer and agree; nobody takes that back.
Decides(e) ==
    /\ trusting' \in {trusting, trusting \cup {e}}
    /\ agreed' \in {agreed, agreed \cup {e}}
    /\ agreed' \subseteq trusting'

Passes(e, from, to) == phase[e] \in from /\ phase' = [phase EXCEPT ![e] = to]

\* Data that was kept back is heard at once if the other end has opened.
Open(e) ==
    /\ Passes(e, {"handshake"}, "open")
    /\ Decides(e) /\ e \in agreed' /\ trusting' = Ends
    /\ opened' = opened \cup {e}
    /\ heard' = heard \/ (heard' = heard \cup {e} /\ opened' = Ends)

Hear(e) ==
    /\ phase[e] = "open" /\ opened = Ends
    /\ heard' = heard \cup {e}
    /\ UNCHANGED <<phase, trusting, agreed, opened>>

Claim(e) ==
    Passes(e, {"handshake", "open"}, "closing") /\ Decides(e) /\ UNCHANGED <<opened, heard>>

Close(e) ==
    Passes(e, {"closing"}, "closed") /\ UNCHANGED <<trusting, agreed, opened, heard>>

Decide(e) == Decides(e) /\ UNCHANGED <<phase, opened, heard>>

Next == \E e \in Ends : Open(e) \/ Hear(e) \/ Claim(e) \/ Close(e) \/ Decide(e)

Spec == Init /\ [][Next]_vars
================================================================================
