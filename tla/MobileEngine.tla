---------------------------- MODULE MobileEngine ----------------------------
(***************************************************************************)
(* The commands connect, disconnect and status (src/commands.rs) and the   *)
(* engine behind them (src/engine.rs) as built for Android and iOS.  There *)
(* the tunnel belongs to a native service, which the engine reaches only   *)
(* through three plugin calls: startNativeVpn and stopNativeVpn hand a     *)
(* request over and return before it is carried out, getNativeVpnStatus    *)
(* tells whether the tunnel is up now.                                     *)
(*                                                                         *)
(* status keeps the Mutex around the status while it asks the native side; *)
(* connect and disconnect take it for single assignments.  mobile_connected*)
(* has a Mutex of its own and is written by all three.                     *)
(*                                                                         *)
(* The native side is any service that keeps the promises of NativeVpn;    *)
(* AndroidService shows that Android's does.                               *)
(***************************************************************************)
EXTENDS Integers, Sequences

CONSTANTS
    Tasks,          \* tasks that run commands; a task runs one at a time
    Profiles, NoProfile,
    NoTask,
    CommandLimit,   \* bound: connects and disconnects issued
    QueueLimit,     \* bound: requests the native side has not taken yet
    RestartLimit    \* bound: restarts of the application

ASSUME MobileConstants ==
    /\ NoProfile \notin Profiles /\ NoTask \notin Tasks
    /\ CommandLimit \in Nat /\ QueueLimit \in Nat /\ RestartLimit \in Nat

VARIABLES
    phase,          \* status.phase; the rest of the status is not modelled
    lock,           \* holder of the Mutex around the status
    connected,      \* SingBoxEngine.mobile_connected
    pc, arg,        \* where each task is, and the profile it connects
    answer,         \* what getNativeVpnStatus told each task: the tunnel is up
    queue, busy, wanted, kept, tun,     \* the native side, see NativeVpn
    commands, restarts

statusVars == <<phase, lock>>
taskVars == <<pc, arg, answer>>
nativeVars == <<queue, busy, wanted, kept, tun>>
boundVars == <<commands, restarts>>
vars == <<statusVars, connected, taskVars, nativeVars, boundVars>>

MaybeProfile == Profiles \cup {NoProfile}

Native == INSTANCE NativeVpn

Init ==
    /\ phase = "Disconnected" /\ lock = NoTask
    /\ connected = FALSE
    /\ pc = [t \in Tasks |-> "idle"]
    /\ arg = [t \in Tasks |-> NoProfile]
    /\ answer = [t \in Tasks |-> FALSE]
    /\ Native!Init
    /\ commands = 0 /\ restarts = 0

Goto(t, p) == pc' = [pc EXCEPT ![t] = p]

\* The command returns; its locals are gone.
Return(t) ==
    /\ Goto(t, "idle")
    /\ arg' = [arg EXCEPT ![t] = NoProfile]
    /\ answer' = [answer EXCEPT ![t] = FALSE]

-----------------------------------------------------------------------------
(* connect.                                                                *)

\* The phase says that a connection exists or is being made.
ConnectRejected(t) ==
    /\ pc[t] = "idle" /\ lock = NoTask /\ commands < CommandLimit
    /\ phase \in {"Connected", "Connecting"}
    /\ commands' = commands + 1
    /\ Return(t)
    /\ UNCHANGED <<statusVars, connected, nativeVars, restarts>>

Connect(t, p) ==
    /\ pc[t] = "idle" /\ lock = NoTask /\ commands < CommandLimit
    /\ phase \notin {"Connected", "Connecting"}
    /\ commands' = commands + 1
    /\ phase' = "Connecting"
    /\ arg' = [arg EXCEPT ![t] = p]
    /\ Goto(t, "guard")
    /\ UNCHANGED <<lock, connected, answer, nativeVars, restarts>>

\* start_mobile up to the plugin call: an OLC RTC profile, a set
\* mobile_connected, a bad profile and a missing plugin are errors.
StartGuard(t) ==
    /\ pc[t] = "guard"
    /\ \/ Goto(t, "failed")
       \/ ~connected /\ Goto(t, "invoke")
    /\ UNCHANGED <<statusVars, connected, arg, answer, nativeVars, boundVars>>

\* startNativeVpn.  A tunnel that is up satisfies it on Android; iOS saves the
\* profile and starts again.
StartNativeVpn(t) ==
    /\ pc[t] = "invoke"
    /\ \/ Goto(t, "failed") /\ UNCHANGED nativeVars
       \/ tun /\ Goto(t, "wait") /\ UNCHANGED nativeVars
       \/ Len(queue) < QueueLimit /\ Goto(t, "wait") /\ Native!Ask(arg[t])
    /\ UNCHANGED <<statusVars, connected, arg, answer, boundVars>>

\* wait_for_mobile_system_tunnel: a poll sees the tunnel; 20 seconds pass.  The
\* last poll may be older than the end of the wait.
TunnelSeen(t) ==
    /\ pc[t] = "wait" /\ tun
    /\ Goto(t, "seen")
    /\ UNCHANGED <<statusVars, connected, arg, answer, nativeVars, boundVars>>

\* A fault: the wait has no end.
WaitGoesOn(t) == pc[t] = "wait" /\ UNCHANGED vars
WaitTimesOut(t) ==
    /\ pc[t] = "wait"
    /\ Goto(t, "failed")
    /\ UNCHANGED <<statusVars, connected, arg, answer, nativeVars, boundVars>>

MarkConnected(t) ==
    /\ pc[t] = "seen"
    /\ connected' = TRUE
    /\ Goto(t, "ok")
    /\ UNCHANGED <<statusVars, arg, answer, nativeVars, boundVars>>

\* The end of connect.
ConnectEnds(t) ==
    /\ pc[t] \in {"ok", "failed"} /\ lock = NoTask
    /\ phase' = IF pc[t] = "ok" THEN "Connected" ELSE "Failed"
    /\ Return(t)
    /\ UNCHANGED <<lock, connected, nativeVars, boundVars>>

-----------------------------------------------------------------------------
(* disconnect.                                                             *)

Disconnect(t) ==
    /\ pc[t] = "idle" /\ lock = NoTask /\ commands < CommandLimit
    /\ commands' = commands + 1
    /\ phase' = "Disconnecting"
    /\ Goto(t, "stop")
    /\ UNCHANGED <<lock, connected, arg, answer, nativeVars, restarts>>

\* stop_mobile: nothing is asked of the native side unless mobile_connected.
StopRefused(t) ==
    /\ pc[t] = "stop" /\ ~connected
    /\ Return(t)
    /\ UNCHANGED <<statusVars, connected, nativeVars, boundVars>>

StopAllowed(t) ==
    /\ pc[t] = "stop" /\ connected
    /\ Goto(t, "invokeStop")
    /\ UNCHANGED <<statusVars, connected, arg, answer, nativeVars, boundVars>>

\* stopNativeVpn; a call that fails ends the command.
StopNativeVpn(t) ==
    /\ pc[t] = "invokeStop"
    /\ \/ Return(t) /\ UNCHANGED nativeVars
       \/ /\ Len(queue) < QueueLimit /\ Native!Ask(NoProfile)
          /\ Goto(t, "stopped") /\ UNCHANGED <<arg, answer>>
    /\ UNCHANGED <<statusVars, connected, boundVars>>

StopDone(t) ==
    /\ pc[t] = "stopped"
    /\ connected' = FALSE
    /\ Goto(t, "default")
    /\ UNCHANGED <<statusVars, arg, answer, nativeVars, boundVars>>

DisconnectEnds(t) ==
    /\ pc[t] = "default" /\ lock = NoTask
    /\ phase' = "Disconnected"
    /\ Return(t)
    /\ UNCHANGED <<lock, connected, nativeVars, boundVars>>

-----------------------------------------------------------------------------
(* status.                                                                 *)

Status(t) ==
    /\ pc[t] = "idle" /\ lock = NoTask
    /\ lock' = t
    /\ Goto(t, "query")
    /\ UNCHANGED <<phase, connected, arg, answer, nativeVars, boundVars>>

\* get_mobile_status: the native side answers.
StatusQuery(t) ==
    /\ pc[t] = "query"
    /\ answer' = [answer EXCEPT ![t] = tun]
    /\ Goto(t, "answered")
    /\ UNCHANGED <<statusVars, connected, arg, nativeVars, boundVars>>

\* Three calls have failed: status returns what it has.
StatusFails(t) ==
    /\ pc[t] = "query"
    /\ lock' = NoTask
    /\ Return(t)
    /\ UNCHANGED <<phase, connected, nativeVars, boundVars>>

\* Faults: a tunnel that is down is not noted; one that is up is not.
StatusMarkUp(t) ==
    /\ pc[t] = "answered"
    /\ connected' = (connected \/ answer[t])
    /\ Goto(t, "reconcile")
    /\ UNCHANGED <<statusVars, arg, answer, nativeVars, boundVars>>
StatusMarkDown(t) ==
    /\ pc[t] = "answered"
    /\ connected' = (connected /\ answer[t])
    /\ Goto(t, "reconcile")
    /\ UNCHANGED <<statusVars, arg, answer, nativeVars, boundVars>>

\* The answer goes to mobile_connected, which is not under the status's Mutex.
StatusMark(t) ==
    /\ pc[t] = "answered"
    /\ connected' = answer[t]
    /\ Goto(t, "reconcile")
    /\ UNCHANGED <<statusVars, arg, answer, nativeVars, boundVars>>

\* And the status is brought in line with it.
Reconciled(p, up) ==
    CASE up /\ p = "Disconnected" -> "Connected"
      [] ~up /\ p \in {"Connected", "Connecting"} -> "Disconnected"
      [] OTHER -> p

StatusEnds(t) ==
    /\ pc[t] = "reconcile"
    /\ phase' = Reconciled(phase, answer[t])
    /\ lock' = NoTask
    /\ Return(t)
    /\ UNCHANGED <<connected, nativeVars, boundVars>>

-----------------------------------------------------------------------------
(* The native side, and the application around it.                         *)

NativeStep ==
    /\ Native!ServiceStep
    /\ UNCHANGED <<statusVars, connected, taskVars, boundVars>>

\* The application is ended and opened again: on Android the tunnel goes with
\* it and may come back, on iOS it stays.
AppRestarts ==
    /\ restarts < RestartLimit
    /\ restarts' = restarts + 1
    /\ phase' = "Disconnected" /\ lock' = NoTask
    /\ connected' = FALSE
    /\ pc' = [t \in Tasks |-> "idle"]
    /\ arg' = [t \in Tasks |-> NoProfile]
    /\ answer' = [t \in Tasks |-> FALSE]
    /\ Native!Crash \/ UNCHANGED nativeVars
    /\ UNCHANGED commands

-----------------------------------------------------------------------------
TaskStep(t) ==
    \/ StartGuard(t) \/ StartNativeVpn(t) \/ TunnelSeen(t) \/ WaitTimesOut(t)
    \/ MarkConnected(t) \/ StopRefused(t) \/ StopAllowed(t) \/ StopNativeVpn(t)
    \/ StopDone(t) \/ StatusQuery(t) \/ StatusFails(t) \/ StatusMark(t)
    \/ StatusEnds(t)

\* The steps that wait for the status's Mutex.
TaskEnds(t) == ConnectEnds(t) \/ DisconnectEnds(t)

Command(t) ==
    \/ ConnectRejected(t) \/ Disconnect(t) \/ Status(t)
    \/ \E p \in Profiles : Connect(t, p)

Next == (\E t \in Tasks : TaskStep(t) \/ TaskEnds(t) \/ Command(t))
        \/ NativeStep \/ AppRestarts

Spec == Init /\ [][Next]_vars

\* tokio runs every task that can run, its Mutex serves waiters in turn (a task
\* is at one place at a time, so one condition covers all of them), and
\* plugin calls return (the dialog of the permission included).  Of the native
\* service nothing is assumed: it need not even take the requests.
MobileFairness ==
    \A t \in Tasks : SF_vars(TaskStep(t) \/ TaskEnds(t))

LiveSpec == Spec /\ MobileFairness

-----------------------------------------------------------------------------
(* Properties.                                                             *)

\* Every variable keeps its type, and exactly the task inside status
\* (commands.rs:74) holds the Mutex around the status.
TypeOK ==
    /\ phase \in {"Disconnected", "Connecting", "Connected", "Disconnecting", "Failed"}
    /\ lock \in Tasks \cup {NoTask}
    /\ connected \in BOOLEAN
    /\ pc \in [Tasks -> {"idle", "guard", "invoke", "wait", "seen", "ok", "failed",
                         "stop", "invokeStop", "stopped", "default",
                         "query", "answered", "reconcile"}]
    /\ \A t \in Tasks : lock = t <=> pc[t] \in {"query", "answered", "reconcile"}
    /\ arg \in [Tasks -> MaybeProfile]
    /\ answer \in [Tasks -> BOOLEAN]
    /\ queue \in Seq(MaybeProfile) /\ Len(queue) <= QueueLimit
    /\ wanted \in MaybeProfile /\ kept \in MaybeProfile
    /\ busy \in BOOLEAN /\ tun \in BOOLEAN
    /\ commands \in 0..CommandLimit /\ restarts \in 0..RestartLimit

\* Every command returns, also while others hold and take the status's Mutex
\* (commands.rs:68).
CommandsReturn == \A t \in Tasks : pc[t] # "idle" ~> pc[t] = "idle"

StatusGoesOn == []<><<\E t \in Tasks : StatusEnds(t)>>_vars

\* If the tunnel stays up and the application goes on asking for the status
\* and is answered, disconnect ends up being able to stop it, whatever stale
\* answers and timeouts came before (engine.rs:300).
TunnelCanBeStopped == StatusGoesOn /\ <>[]tun => <>[]connected

\* If the tunnel stays down and the application goes on asking, connect ends up
\* being accepted again: neither the phase nor mobile_connected refuses it
\* (commands.rs:90).
TunnelCanBeStarted ==
    StatusGoesOn /\ <>[]~tun =>
        <>[](~connected /\ phase \notin {"Connected", "Connecting"})

\* errors.rs gives NotRunning the text "engine is not running": with no other
\* command under way, disconnect answers it only if no tunnel is up.
NotRunningHonest ==
    [][\A t \in Tasks : StopRefused(t) =>
          ~tun \/ \E u \in Tasks \ {t} : pc[u] # "idle"]_vars
=============================================================================
