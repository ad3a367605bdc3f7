------------------------------ MODULE MCOlcMux ------------------------------
(* The small instance of OlcMux: a room with a foreign client. *)
EXTENDS OlcMux

\* Notify objects are all alike: a new one is the first that is not in use.  This
\* does the work of a symmetry set, which liveness does not allow.
FirstNotify ==
    \A s \in DOMAIN streams' : \A m \in NotifyIds \ NotifiesInUse :
        streams'[s].notify \in NotifiesInUse \/ streams'[s].notify <= m

\* Bound on what a caller sends: no property of this run reads it.
SentLimit == 1

RoomNext == Next /\ FirstNotify /\ \A t \in Callers : sent'[t] <= SentLimit
RoomSpec == Init /\ [][RoomNext]_muxVars /\ Fairness
=============================================================================
