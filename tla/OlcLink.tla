------------------------------- MODULE OlcLink -------------------------------
(***************************************************************************)
(* What the sessions of the OLC RTC client may rely on once it runs: the   *)
(* abstract specification of the runtime underneath them.  Sessions are    *)
(* accepted, frames are sent and frames are received until each of the     *)
(* three ends, on its own and for good.  A send that is under way fails    *)
(* only if sending has ended.  OlcRuntime implements this, and OlcClient   *)
(* takes what happens to its link from here.                               *)
(***************************************************************************)
CONSTANTS Callers

VARIABLES
    began,                          \* the client has been started
    accepting, sending, receiving,  \* what goes on
    busy,                           \* callers with a send under way
    failed                          \* callers whose last send failed

ends == <<began, accepting, sending, receiving>>
linkVars == <<ends, busy, failed>>

Init ==
    /\ began = FALSE
    /\ accepting = FALSE /\ sending = FALSE /\ receiving = FALSE
    /\ busy = {} /\ failed = {}

\* The link may have broken by the time it is handed over.
Begin ==
    /\ ~began /\ began' = TRUE
    /\ accepting' = TRUE
    /\ sending' \in BOOLEAN /\ receiving' \in BOOLEAN
    /\ UNCHANGED <<busy, failed>>

Send(t) ==
    /\ began /\ t \notin busy
    /\ busy' = busy \cup {t} /\ failed' = failed \ {t}
    /\ UNCHANGED ends

\* The send returns Ok, or its caller drops it.
SendEnds(t) ==
    /\ t \in busy
    /\ busy' = busy \ {t}
    /\ UNCHANGED <<ends, failed>>

MaySendFail == ~sending
SendFails(t) ==
    /\ MaySendFail /\ t \in busy
    /\ busy' = busy \ {t} /\ failed' = failed \cup {t}
    /\ UNCHANGED ends

\* The three ends, which are all that happens to a link by itself.
SendBreaks == sending /\ sending' = FALSE /\ UNCHANGED <<accepting, receiving>>
ReceiveBreaks == receiving /\ receiving' = FALSE /\ UNCHANGED <<accepting, sending>>
AcceptEnds == accepting /\ accepting' = FALSE /\ UNCHANGED <<sending, receiving>>

Next ==
    \/ Begin
    \/ (SendBreaks \/ ReceiveBreaks \/ AcceptEnds) /\ UNCHANGED <<began, busy, failed>>
    \/ \E t \in Callers : Send(t) \/ SendEnds(t) \/ SendFails(t)

Spec == Init /\ [][Next]_linkVars
=============================================================================
