------------------------------ MODULE NativeVpn ------------------------------
(***************************************************************************)
(* What the engine may rely on of the native VPN service that a mobile     *)
(* application talks to: an abstract specification, which AndroidService   *)
(* implements and on top of which MobileEngine runs.                       *)
(*                                                                         *)
(* Requests are carried out one at a time and in order.  The tunnel comes  *)
(* up only for a profile the service wants, and it wants what the last     *)
(* request it took asked for, unless that is withdrawn.  A stop is done    *)
(* only when the tunnel is down.  The service may crash at any time: what  *)
(* it wants then is what it has kept, and the request in hand and those    *)
(* behind it are carried out again, but for the first of them that may be  *)
(* lost.                                                                   *)
(***************************************************************************)
EXTENDS Sequences, Integers

CONSTANTS
    Profiles,
    NoProfile       \* nothing wanted; as a request: a stop

VARIABLES
    queue,      \* requests handed over and not done
    busy,       \* the first of them is being carried out
    wanted,     \* the profile whose tunnel may come up
    kept,       \* the one that survives a crash
    tun         \* the tunnel is up

nativeVars == <<queue, busy, wanted, kept, tun>>

Requests == Profiles \cup {NoProfile}

Init ==
    /\ queue = <<>> /\ busy = FALSE
    /\ wanted = NoProfile /\ kept = NoProfile
    /\ tun = FALSE

Withdrawn == wanted' \in {wanted, NoProfile}
TunnelMayFall == tun' \in {tun, FALSE}

Ask(r) ==
    /\ queue' = Append(queue, r)
    /\ UNCHANGED <<busy, wanted, kept, tun>>

Take ==
    /\ ~busy /\ queue # <<>>
    /\ busy' = TRUE
    /\ wanted' = Head(queue)
    /\ UNCHANGED <<queue, kept, tun>>

\* The request has been carried out: a start need not have brought the tunnel
\* up.  What is wanted is kept by now.
Done ==
    /\ busy
    /\ busy' = FALSE /\ queue' = Tail(queue)
    /\ Withdrawn /\ kept' = wanted'
    /\ IF Head(queue) = NoProfile THEN tun' = FALSE ELSE TunnelMayFall

\* What is wanted reaches the disk, or is withdrawn there first.
Keep ==
    /\ Withdrawn /\ kept' \in {wanted', NoProfile}
    /\ TunnelMayFall
    /\ UNCHANGED <<queue, busy>>

TunnelUp ==
    /\ wanted # NoProfile /\ ~tun
    /\ tun' = TRUE /\ Withdrawn
    /\ UNCHANGED <<queue, busy, kept>>

\* It fails, the network is gone, or another application has taken over.
TunnelDown ==
    /\ TunnelMayFall /\ Withdrawn
    /\ UNCHANGED <<queue, busy, kept>>

Crash ==
    /\ wanted' = kept /\ tun' = FALSE /\ busy' = FALSE
    /\ \E i \in 1 .. Len(queue) + 1 : queue' = SubSeq(queue, i, Len(queue))
    /\ UNCHANGED kept

ServiceStep == Take \/ Done \/ Keep \/ TunnelUp \/ TunnelDown \/ Crash

Next == ServiceStep \/ \E r \in Requests : Ask(r)

Spec == Init /\ [][Next]_nativeVars
=============================================================================
