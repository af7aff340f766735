------------------------------ MODULE LatestView ------------------------------
(***************************************************************************)
(* What discovery promises to the hub: the tables the mDNS manager has had *)
(* are numbered, the hub shows one of them, it never goes back to an older *)
(* one, and it gets to the newest one when the table stops changing.       *)
(***************************************************************************)
EXTENDS Naturals, Sequences

CONSTANTS Table,   \* the tables of observations
          Empty    \* the one of a manager that has observed nothing

VARIABLES log,     \* log[v + 1]: the table of version v
          shown    \* the version the hub shows

Init == log = <<Empty>> /\ shown = 0

Update ==
    /\ log'[Len(log')] \in Table
    /\ log' = Append(log, log'[Len(log')])
    /\ UNCHANGED shown

CatchUp == \E v \in (shown + 1) .. (Len(log) - 1) : shown' = v /\ UNCHANGED log

Next == Update \/ CatchUp

vars == <<log, shown>>

SafeSpec == Init /\ [][Next]_vars

Spec == SafeSpec /\ WF_vars(CatchUp)
===============================================================================
